--------------------------- MODULE MCOccurrences ---------------------------
EXTENDS Occurrences
=============================================================================

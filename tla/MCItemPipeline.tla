--------------------------- MODULE MCItemPipeline ---------------------------
EXTENDS ItemPipeline, TLC
Symmetric == Permutations(Workers)
=============================================================================

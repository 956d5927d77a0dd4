--------------------------- MODULE MCCohortClaims ---------------------------
(* The instances of MCCohortRun with the history variables of CohortClaims. *)
EXTENDS CohortClaims, MCCohortRun
=============================================================================

---------------------------- MODULE MCCohortRun ----------------------------
(* Small instances of CohortRun for TLC: one product family, its members    *)
(* numbered by ordinal, re-formed at most once with the same members.       *)
EXTENDS CohortSafety, TLC

MCMembersOf == [c \in Cohorts |-> Items]

Symmetric == Permutations(Workers)
=============================================================================

---------------------------- MODULE CohortLease ----------------------------
(***************************************************************************)
(* What a claim on a cohort promises, with the workers' insides left out:  *)
(* a family row has at most one current run; a live run is held by one     *)
(* worker, changes hands only when its lease has run out, is frozen once   *)
(* and decided once; a decision is history, and only supersession follows. *)
(***************************************************************************)
EXTENDS Naturals

CONSTANTS Workers, Cohorts, Runs, None

VARIABLES
    phase,      \* phase[r]: unclaimed, freezing, running, settled or superseded
    family,     \* the candidate row a run was claimed for
    holder,     \* who holds its claim
    lapsed      \* the lease has run out and nobody has renewed it

leaseVars == <<phase, family, holder, lapsed>>

LeaseInit ==
    /\ phase = [r \in Runs |-> "none"]
    /\ family = [r \in Runs |-> None]
    /\ holder = [r \in Runs |-> None]
    /\ lapsed = [r \in Runs |-> FALSE]

Alive(r)      == phase[r] \in {"freezing", "running"}
CurrentOf(c)  == {r \in Runs : family[r] = c /\ phase[r] \notin {"none", "superseded"}}

Acquire(r, c, w) ==
    /\ phase[r] = "none"
    /\ CurrentOf(c) = {}
    /\ phase'  = [phase EXCEPT ![r] = "freezing"]
    /\ family' = [family EXCEPT ![r] = c]
    /\ holder' = [holder EXCEPT ![r] = w]
    /\ UNCHANGED lapsed

TakeOver(r, w) ==
    /\ Alive(r)
    /\ lapsed[r]
    /\ holder' = [holder EXCEPT ![r] = w]
    /\ lapsed' = [lapsed EXCEPT ![r] = FALSE]
    /\ UNCHANGED <<phase, family>>

\* The clock, for every run at once: leases lapse, or are renewed.
Lapse(L) ==
    /\ \A r \in L : Alive(r)
    /\ lapsed' = [r \in Runs |-> IF Alive(r) THEN r \in L ELSE lapsed[r]]
    /\ UNCHANGED <<phase, family, holder>>

\* A holder that froze may decide at once; a write of its own renews its lease
\* or leaves it as it is.
Proceed(r, p) ==
    /\ \/ phase[r] = "freezing" /\ p \in {"running", "settled"}
       \/ phase[r] = "running" /\ p = "settled"
    /\ phase' = [phase EXCEPT ![r] = p]
    /\ UNCHANGED <<family, holder, lapsed>>

Supersede(r) ==
    /\ phase[r] \in {"freezing", "running", "settled"}
    /\ phase' = [phase EXCEPT ![r] = "superseded"]
    /\ UNCHANGED <<family, holder, lapsed>>

LeaseNext ==
    \/ \E r \in Runs, w \in Workers :
         \/ TakeOver(r, w)
         \/ \E c \in Cohorts : Acquire(r, c, w)
    \/ \E r \in Runs : Supersede(r) \/ \E p \in {"running", "settled"} : Proceed(r, p)
    \/ \E L \in SUBSET Runs : Lapse(L)

LeaseSpec == LeaseInit /\ [][LeaseNext]_leaseVars
=============================================================================

-------------------------- MODULE CohortLeaseProofs --------------------------
(***************************************************************************)
(* The claim protocol implements the abstract lease: the initial states    *)
(* map to initial states, and every step of a poll, a task, a tick or an   *)
(* operator maps to one step of CohortLease, or to none.                   *)
(***************************************************************************)
EXTENDS CohortSafetyProofs

\* The mapped lapsed, of one row.
LapsedRow(row) == row.cohort # None /\ row.lease = 0

LEMMA PhaseNames ==
    ASSUME NEW r \in Runs
    PROVE  /\ Phase(run[r].status) \in {"freezing", "running"} <=> Live(r)
           /\ Phase(run[r].status) = "none" <=> run[r].status = "none"
           /\ Phase(run[r].status) = "superseded" <=> run[r].status = "superseded"
           /\ Settled(r) => Phase(run[r].status) = "settled"
BY DEF Phase, Live, LiveStatus, Settled, SettledStatus

LEMMA AcquireStep ==
    ASSUME Rows, Blank, NEW r \in Runs, NEW c \in Cohorts, NEW w \in Workers, ClaimStep(r, c, w)
    PROVE  Lease!Acquire(r, c, w)
<1>1. run \in [Runs -> RunRow] /\ run[r] = NoRun
  BY DEF Rows, StoreTypeOK, ClaimStep, Blank
<1>2. /\ run'[r] = ClaimedRun(c, w)
      /\ \A x \in Runs : x # r => run'[x] = run[x]
  BY <1>1 DEF ClaimStep
<1>3. /\ Phase(run[r].status) = "none" /\ Phase(run'[r].status) = "freezing"
      /\ run'[r].cohort = c /\ run'[r].owner = w
      /\ ~LapsedRow(run[r]) /\ ~LapsedRow(run'[r])
  BY <1>1, <1>2, BoundsAssumption
     DEF NoRun, ClaimedRun, Phase, SettledStatus, LapsedRow
<1>4. \A x \in Runs : ~(run[x].cohort = c /\ Phase(run[x].status) \notin {"none", "superseded"})
  BY PhaseNames DEF ClaimStep, HasCurrentRun, IsCurrent
<1>5. [x \in Runs |-> LapsedRow(run'[x])] = [x \in Runs |-> LapsedRow(run[x])]
  BY <1>2, <1>3 DEF LapsedRow
<1> QED BY <1>2, <1>3, <1>4, <1>5 DEF Lease!Acquire, Lease!CurrentOf, LapsedRow

LEMMA TakeOverStep ==
    ASSUME Rows, NEW r \in Runs, NEW w \in Workers, ResumeStep(r, w)
    PROVE  Lease!TakeOver(r, w)
<1>1. run \in [Runs -> RunRow] /\ run[r] \in RunRow
  BY DEF Rows, StoreTypeOK
<1>2. /\ run'[r].status = run[r].status /\ run'[r].cohort = run[r].cohort
      /\ run'[r].owner = w /\ run'[r].lease = TTL
      /\ \A x \in Runs : x # r => run'[x] = run[x]
  BY <1>1 DEF ResumeStep, ResumedRuns, RunRow
<1>3. Live(r) /\ run[r].lease = 0 /\ run[r].cohort # None
  BY CohortsAssumption DEF ResumeStep, Expired, Live, LiveStatus, Rows, Claims
<1>4. LapsedRow(run[r]) /\ ~LapsedRow(run'[r]) /\ \A x \in Runs : x # r => (LapsedRow(run'[x]) <=> LapsedRow(run[x]))
  BY <1>2, <1>3, BoundsAssumption DEF LapsedRow
<1> QED BY <1>2, <1>3, <1>4, PhaseNames DEF Lease!TakeOver, Lease!Alive, LapsedRow

LEMMA MapSupersede ==
    ASSUME Rows, NEW r \in Runs, SupersedeStep(r)
    PROVE  Lease!Supersede(r)
<1>1. run \in [Runs -> RunRow] /\ run[r] \in RunRow
  BY DEF Rows, StoreTypeOK
<1>2. /\ run'[r].status = "superseded" /\ run'[r].cohort = run[r].cohort
      /\ run'[r].owner = run[r].owner /\ run'[r].lease = run[r].lease
      /\ \A x \in Runs : x # r => run'[x] = run[x]
  BY <1>1 DEF SupersedeStep, RunsWithStatus, RunRow
<1>3. Phase(run[r].status) \in {"freezing", "running", "settled"}
  BY DEF SupersedeStep, Expired, Live, LiveStatus, Settled, SettledStatus, Phase
<1>4. Phase(run'[r].status) = "superseded"
  BY <1>2 DEF Phase, SettledStatus
<1> QED BY <1>2, <1>3, <1>4 DEF Lease!Supersede

LEMMA LapseStep ==
    ASSUME Rows, TickStep
    PROVE  \E L \in SUBSET Runs : Lease!Lapse(L)
<1> DEFINE L == {x \in Runs : Live(x) /\ LapsedRow(run'[x])}
<1>1. \A x \in Runs : /\ Phase(run'[x].status) = Phase(run[x].status)
                      /\ run'[x].cohort = run[x].cohort /\ run'[x].owner = run[x].owner
                      /\ ~Live(x) => (LapsedRow(run'[x]) <=> LapsedRow(run[x]))
  BY TickRuns DEF LapsedRow
<1>2. \A x \in L : Live(x)
  OBVIOUS
<1>3. \A x \in Runs : LapsedRow(run'[x]) = IF Live(x) THEN x \in L ELSE LapsedRow(run[x])
  BY <1>1 DEF LapsedRow
<1>4. L \in SUBSET Runs
  OBVIOUS
<1> HIDE DEF L
<1>5. Lease!Lapse(L)
  <2>1. \A x \in L : Lease!Alive(x)
    BY <1>2, PhaseNames DEF Lease!Alive, L
  <2>2. \A x \in Runs : Lease!Alive(x) <=> Live(x)
    BY PhaseNames DEF Lease!Alive
  <2>3. [x \in Runs |-> LapsedRow(run'[x])] =
          [x \in Runs |-> IF Lease!Alive(x) THEN x \in L ELSE LapsedRow(run[x])]
    BY <1>3, <2>2
  <2> QED BY <1>1, <2>1, <2>3 DEF Lease!Lapse, LapsedRow
<1> QED BY <1>5, <1>4 DEF Lease!Lapse

LEMMA HolderMoves ==
    ASSUME Rows, NEW w \in Workers, NEW r \in Runs, HolderStep(w, r)
    PROVE  Lease!LeaseNext \/ UNCHANGED Lease!leaseVars
<1>1. run \in [Runs -> RunRow] /\ run[r] \in RunRow
  BY DEF Rows, StoreTypeOK
<1>2. \A x \in Runs : x # r => run'[x] = run[x]
  BY DEF HolderStep
<1>3. run'[r].cohort = run[r].cohort /\ run'[r].owner = run[r].owner
  BY DEF HolderStep
<1>4. CASE run'[r].status # run[r].status
  <2>1. Live(r) /\ run'[r].lease = run[r].lease
    BY <1>4 DEF HolderStep, Held
  <2>2. CASE run'[r].status = "superseded"
    <3>0. Phase(run'[r].status) = "superseded"
      BY <2>2 DEF Phase, SettledStatus
    <3>1. Lease!Supersede(r)
      <4>1. \A x \in Runs : Phase(run'[x].status) =
               IF x = r THEN "superseded" ELSE Phase(run[x].status)
        BY <1>2, <3>0
      <4>2. /\ \A x \in Runs : run'[x].cohort = run[x].cohort
            /\ \A x \in Runs : run'[x].owner = run[x].owner
            /\ \A x \in Runs : run'[x].lease = run[x].lease
        BY <1>2, <1>3, <2>1
      <4>3. Phase(run[r].status) \in {"freezing", "running", "settled"}
        BY <2>1, PhaseNames
      <4> QED BY <4>1, <4>2, <4>3 DEF Lease!Supersede
    <3> QED BY <3>1 DEF Lease!LeaseNext
  <2>3. CASE run'[r].status # "superseded"
    <3> DEFINE p == Phase(run'[r].status)
    <3>1. /\ p \in {"running", "settled"}
          /\ Phase(run[r].status) = "freezing" \/ (Phase(run[r].status) = "running" /\ p = "settled")
      BY <1>4, <2>1, <2>3 DEF HolderStep, TerminalStatus, Phase, SettledStatus, Live, LiveStatus
    <3>2. Lease!Proceed(r, p)
      BY <1>2, <1>3, <2>1, <3>1 DEF Lease!Proceed
    <3> QED BY <3>1, <3>2 DEF Lease!LeaseNext
  <2> QED BY <2>2, <2>3
<1>5. CASE run'[r].status = run[r].status
  <2>1. CASE run'[r].lease = run[r].lease
    BY <1>2, <1>3, <1>5, <2>1 DEF Lease!leaseVars
  <2>2. CASE run'[r].lease # run[r].lease
    <3>1. Live(r) /\ run'[r].lease = TTL
      BY <2>2 DEF HolderStep, Held
    <3> DEFINE L == {x \in Runs \ {r} : Live(x) /\ LapsedRow(run[x])}
    <3>2. \A x \in Runs : Lease!Alive(x) <=> Live(x)
      BY PhaseNames DEF Lease!Alive
    <3>3. \A x \in Runs : LapsedRow(run'[x]) = IF Live(x) THEN x \in L ELSE LapsedRow(run[x])
      BY <1>2, <3>1, BoundsAssumption DEF LapsedRow
    <3>4. \A x \in L : Lease!Alive(x)
      BY <3>2
    <3> HIDE DEF L
    <3>5. [x \in Runs |-> LapsedRow(run'[x])] =
            [x \in Runs |-> IF Lease!Alive(x) THEN x \in L ELSE LapsedRow(run[x])]
      BY <3>2, <3>3
    <3>6. Lease!Lapse(L)
      BY <1>2, <1>3, <1>5, <3>4, <3>5 DEF Lease!Lapse, LapsedRow
    <3>7. L \in SUBSET Runs
      BY DEF L
    <3>8. \E K \in SUBSET Runs : Lease!Lapse(K)
      BY <3>6, <3>7 DEF Lease!Lapse
    <3> QED BY <3>8 DEF Lease!LeaseNext
  <2> QED BY <2>1, <2>2
<1> QED BY <1>4, <1>5

\* The claim, heartbeat, reclaim, freeze, completion and supersession of cohort
\* runs implement the lease that CohortLease specifies.
THEOREM LeaseImplemented == Spec => ImplementsLease
<1>1. Init => Lease!LeaseInit
  <2> SUFFICES ASSUME Init PROVE Lease!LeaseInit
    OBVIOUS
  <2>1. \A r \in Runs : /\ Phase(run[r].status) = "none" /\ run[r].cohort = None
                        /\ run[r].owner = None
    BY DEF Init, StoreInit, NoRun, Phase, SettledStatus
  <2> QED BY <2>1 DEF Lease!LeaseInit
<1>2. Safe /\ [Next]_vars => [Lease!LeaseNext]_(Lease!leaseVars)
  <2> SUFFICES ASSUME Safe, [Next]_vars
               PROVE  Lease!LeaseNext \/ UNCHANGED Lease!leaseVars
    OBVIOUS
  <2>1. Rows /\ Blank
    BY DEF Safe, RowsAndMoves
  <2>2. CASE run' = run
    BY <2>2 DEF Lease!leaseVars
  <2>3. CASE RunStep
    <3>1. ASSUME NEW r \in Runs, NEW c \in Cohorts, NEW w \in Workers, ClaimStep(r, c, w)
          PROVE  Lease!LeaseNext
      BY <2>1, <3>1, AcquireStep DEF Lease!LeaseNext
    <3>2. ASSUME NEW r \in Runs, NEW w \in Workers, ResumeStep(r, w)
          PROVE  Lease!LeaseNext
      BY <2>1, <3>2, TakeOverStep DEF Lease!LeaseNext
    <3>3. ASSUME NEW r \in Runs, SupersedeStep(r) PROVE Lease!LeaseNext
      BY <2>1, <3>3, MapSupersede DEF Lease!LeaseNext
    <3> QED BY <2>2, <2>3, <3>1, <3>2, <3>3 DEF RunStep
  <2>4. CASE TickStep
    BY <2>1, <2>4, LapseStep DEF Lease!LeaseNext
  <2> QED BY <2>1, <2>3, <2>4, AnyStep, HolderMoves DEF BystanderStep
<1> QED BY <1>1, <1>2, AlwaysSafe, PTL DEF Spec, ImplementsLease, Lease!LeaseSpec
=============================================================================

------------------------- MODULE CohortSafetyProofs -------------------------
(***************************************************************************)
(* The safety theorems of cohort Curation.  The invariant behind them says *)
(* that a heartbeat is only skipped within the lease it could have renewed *)
(* and that runs never claimed are blank; from it, what CohortStepProofs   *)
(* says of one step of a task, and what is shown here of a poll, a tick    *)
(* and an operator's step, each action property follows for every number   *)
(* of workers, items, families and runs.                                   *)
(***************************************************************************)
EXTENDS CohortStepProofs

\* A step of anybody but a task moves at most one run, in one of three ways.
ClaimStep(r, c, w) ==
    /\ run[r].status = "none"
    /\ ~HasCurrentRun(c)
    /\ run' = [run EXCEPT ![r] = ClaimedRun(c, w)]
ResumeStep(r, w) == Expired(r) /\ run' = ResumedRuns(r, w)
SupersedeStep(r) == (Expired(r) \/ Settled(r)) /\ run' = RunsWithStatus(r, "superseded")

RunStep ==
    \/ run' = run
    \/ \E r \in Runs, c \in Cohorts, w \in Workers : ClaimStep(r, c, w)
    \/ \E r \in Runs, w \in Workers : ResumeStep(r, w)
    \/ \E r \in Runs : SupersedeStep(r)

\* It stops tasks without a write, or starts them with their heartbeat due;
\* and it lets no child run start.
BystanderStep ==
    /\ RunStep
    /\ \A v \in Workers, x \in Runs : task'[v][x] # task[v][x] =>
         \/ task'[v][x].pc = "idle" /\ UNCHANGED <<run, child, item, evidence>>
         \/ task[v][x].pc = "idle" /\ task'[v][x].age > Interval
    /\ \A x \in Runs, m \in Items : child'[x][m].st = "running" =>
         /\ child[x][m].st = "running"
         /\ run'[x].status = "superseded" => run[x].status = "superseded"

\* A tick lets leases run down and heartbeats age, and renews claims in force.
TickStep ==
    /\ UNCHANGED <<child, item, evidence>>
    /\ run' = [r \in Runs |-> [run[r] EXCEPT !.lease = run'[r].lease]]
    /\ \A r \in Runs : /\ ~Live(r) => run'[r].lease = run[r].lease
                       /\ \/ run'[r].lease = TTL
                          \/ run'[r].lease = run[r].lease
                          \/ run[r].lease > 0 /\ run'[r].lease = run[r].lease - 1
    /\ \A v \in Workers, x \in Runs :
         IF task[v][x].pc = "idle" THEN task'[v][x].pc = "idle"
         ELSE task'[v][x].age = Older(task[v][x].age)

LEMMA DispatchStep ==
    ASSUME Rows, NEW w \in Workers, NEW r \in Runs, NEW s, Dispatch(w, r, s)
    PROVE  \A v \in Workers, x \in Runs : task'[v][x] # task[v][x] =>
             task[v][x].pc = "idle" /\ task'[v][x].age > Interval
<1> DEFINE t == [Idle EXCEPT !.pc = IF s = "freezing" THEN "load" ELSE "exec",
                             !.age = Interval + 1]
<1>1. task \in [Workers -> [Runs -> Task]]
  BY DEF Rows, WorkerTypeOK
<1>2. t.age > Interval
  BY IntervalType DEF Idle
<1>3. task' = task \/ (task[w][r].pc = "idle" /\ task' = [task EXCEPT ![w][r] = t])
  BY DEF Dispatch, Becomes
<1> HIDE DEF t
<1> QED BY <1>1, <1>2, <1>3

LEMMA PollStep ==
    ASSUME Rows, NEW w \in Workers, Poll(w)
    PROVE  BystanderStep
<1>1. CASE ReclaimResume(w)
  <2> DEFINE o == observed[w]
  <2>1. o \in Observation /\ UNCHANGED <<child, item, evidence>>
    BY <1>1 DEF ReclaimResume, Rows, WorkerTypeOK
  <2>2. CASE Unchanged(o)
    <3>1. run' = ResumedRuns(o.run, w) /\ Dispatch(w, o.run, o.status)
      BY <1>1, <2>2 DEF ReclaimResume
    <3>2. o.run \in Runs /\ Expired(o.run)
      BY <2>1, <2>2 DEF Observation, Unchanged
    <3>3. \A x \in Runs : run'[x].status = run[x].status
      <4>1. run \in [Runs -> RunRow] /\ run[o.run] \in RunRow
        BY <3>2 DEF Rows, StoreTypeOK
      <4>2. [run[o.run] EXCEPT !.owner = w, !.lease = TTL].status = run[o.run].status
        BY <4>1 DEF RunRow
      <4>3. run' = [run EXCEPT ![o.run] = [run[o.run] EXCEPT !.owner = w, !.lease = TTL]]
        BY <3>1 DEF ResumedRuns
      <4> QED BY <4>1, <4>2, <4>3
    <3> HIDE DEF o
    <3> QED BY <2>1, <3>1, <3>2, <3>3, DispatchStep DEF BystanderStep, RunStep, ResumeStep
  <2>3. CASE ~Unchanged(o)
    BY <1>1, <2>1, <2>3 DEF ReclaimResume, BystanderStep, RunStep
  <2> QED BY <2>2, <2>3
<1>2. CASE ReclaimSupersede(w)
  <2> DEFINE o == observed[w]
  <2>1. task' = task
    BY <1>2 DEF ReclaimSupersede
  <2>2. CASE Unchanged(o)
    <3>1. run' = RunsWithStatus(o.run, "superseded") /\ child' = ChildrenFailed(o.run)
      BY <1>2, <2>2 DEF ReclaimSupersede
    <3>2. o.run \in Runs /\ Expired(o.run)
      BY <1>2, <2>2 DEF ReclaimSupersede, Rows, WorkerTypeOK, Observation, Unchanged
    <3> HIDE DEF o
    <3> QED BY <2>1, <3>1, <3>2, SupersedeChildren DEF TerminalStatus, BystanderStep, RunStep, SupersedeStep
  <2>3. CASE ~Unchanged(o)
    BY <1>2, <2>1, <2>3 DEF ReclaimSupersede, BystanderStep, RunStep
  <2> QED BY <2>2, <2>3
<1>3. ASSUME NEW r \in Runs, Reconcile(w, r) PROVE BystanderStep
  BY <1>3, SupersedeChildren DEF TerminalStatus, Reconcile, worker, BystanderStep, RunStep, SupersedeStep
<1>4. ASSUME NEW r \in Runs, Observe(w, r) PROVE BystanderStep
  BY <1>4 DEF Observe, store, BystanderStep, RunStep
<1>5. ASSUME NEW c \in Cohorts, Claim(w, c) PROVE BystanderStep
  <2>1. PICK r \in Runs : ClaimStep(r, c, w) /\ Dispatch(w, r, "freezing")
    BY <1>5 DEF Claim, ClaimStep
  <2>2. \A x \in Runs : run'[x].status = "superseded" => run[x].status = "superseded"
    BY <2>1 DEF ClaimStep, ClaimedRun, NoRun, Rows, StoreTypeOK
  <2>3. UNCHANGED <<child, item, evidence>>
    BY <1>5 DEF Claim
  <2> QED BY <2>1, <2>2, <2>3, DispatchStep DEF BystanderStep, RunStep
<1> QED BY <1>1, <1>2, <1>3, <1>4, <1>5 DEF Poll

LEMMA OperateStep ==
    ASSUME Rows, Operate \/ \E m \in Items : AutoAdvance(m)
    PROVE  BystanderStep
<1>1. task' = task
  BY DEF AutoAdvance, Operate, Review, Advance, TryReview, CompleteReview, Approve, ResetItem,
         EditEvidence, CohortWaits, CohortReady, Regroup, Rerun, ChangeAuthority, PauseBatch,
         ResumeBatch, worker
<1>2. CASE \E c \in Cohorts, r \in Runs : Rerun(c, r)
  <2>1. PICK c \in Cohorts, r \in Runs : Rerun(c, r)
    BY <1>2
  <2>2. Settled(r)
    <3>1. run[r] \in RunRow
      BY DEF Rows, StoreTypeOK
    <3> QED BY <2>1, <3>1 DEF Rerun, IsCurrent, Live, Settled, RunRow, RunStatus, TerminalStatus
  <2> QED BY <1>1, <2>1, <2>2, SupersedeChildren DEF TerminalStatus, Rerun, BystanderStep, RunStep, SupersedeStep
<1>3. CASE \E m \in Items : ResetItem(m)
  <2>1. PICK m \in Items : ResetItem(m)
    BY <1>3
  <2>2. run' = run /\ child' = ItemChildrenFailed(m)
    BY <2>1 DEF ResetItem
  <2>3. \A x \in Runs, i \in Items : child'[x][i].st = "running" => child[x][i].st = "running"
    BY <2>2, FailedNotRunning DEF ItemChildrenFailed, Rows, StoreTypeOK
  <2> QED BY <1>1, <2>2, <2>3 DEF BystanderStep, RunStep
<1>4. CASE run' = run /\ child' = child
  BY <1>1, <1>4 DEF BystanderStep, RunStep
<1> QED BY <1>2, <1>3, <1>4 DEF AutoAdvance, Operate, Review, Advance, TryReview, CompleteReview,
        Approve, EditEvidence, CohortWaits, CohortReady, Regroup, ChangeAuthority, PauseBatch,
        ResumeBatch

LEMMA CrashStep ==
    ASSUME Rows, NEW w \in Workers, Crash(w)
    PROVE  BystanderStep
<1>1. UNCHANGED <<run, child, item, evidence>>
  BY DEF Crash, store
<1>2. \A v \in Workers, x \in Runs : task'[v][x] # task[v][x] => task'[v][x].pc = "idle"
  BY DEF Crash, Rows, WorkerTypeOK, Idle
<1> QED BY <1>1, <1>2 DEF BystanderStep, RunStep

LEMMA TimeStep ==
    ASSUME Rows, NEW S \in SUBSET Workers, Tick(S)
    PROVE  TickStep
<1>1. run \in [Runs -> RunRow] /\ task \in [Workers -> [Runs -> Task]]
  BY DEF Rows, StoreTypeOK, WorkerTypeOK
<1>2. \A r \in Runs :
        run'[r] \in {run[r], [run[r] EXCEPT !.lease = TTL],
                     [run[r] EXCEPT !.lease = IF run[r].lease = 0 THEN 0 ELSE run[r].lease - 1]}
        /\ (~Live(r) => run'[r] = run[r])
  BY DEF Tick
<1>3. \A r \in Runs : run[r].lease \in Nat
  BY <1>1, BoundsAssumption DEF RunRow
<1>4. ASSUME NEW r \in Runs
      PROVE  /\ run'[r] = [run[r] EXCEPT !.lease = run'[r].lease]
             /\ \/ run'[r].lease = TTL
                \/ run'[r].lease = run[r].lease
                \/ run[r].lease > 0 /\ run'[r].lease = run[r].lease - 1
  <2>1. run[r] \in RunRow
    BY <1>1
  <2>2. CASE run'[r] = run[r]
    BY <2>1, <2>2 DEF RunRow
  <2>3. CASE run'[r] = [run[r] EXCEPT !.lease = TTL]
    BY <2>1, <2>3 DEF RunRow
  <2>4. CASE run'[r] = [run[r] EXCEPT !.lease = IF run[r].lease = 0 THEN 0 ELSE run[r].lease - 1]
    <3>1. run'[r].lease = IF run[r].lease = 0 THEN 0 ELSE run[r].lease - 1
      BY <2>1, <2>4 DEF RunRow
    <3> QED BY <1>3, <2>4, <3>1
  <2> QED BY <1>2, <2>2, <2>3, <2>4
<1>5. run' = [r \in Runs |-> run'[r]]
  BY DEF Tick
<1>6. ASSUME NEW v \in Workers, NEW x \in Runs
      PROVE  IF task[v][x].pc = "idle" THEN task'[v][x].pc = "idle"
             ELSE task'[v][x].age = Older(task[v][x].age)
  <2>1. task[v][x] \in Task
    BY <1>1
  <2>2. task'[v][x] = IF task[v][x].pc = "idle" THEN Idle
                      ELSE [task[v][x] EXCEPT !.age = Older(task[v][x].age),
                              !.lost = task[v][x].lost \/ (KeptBy(S, v, x) /\ ~Held(v, x))]
    BY DEF Tick
  <2>3. CASE task[v][x].pc = "idle"
    BY <2>2, <2>3 DEF Idle
  <2>4. CASE task[v][x].pc # "idle"
    BY <2>1, <2>2, <2>4 DEF Task
  <2> QED BY <2>3, <2>4
<1> QED BY <1>2, <1>4, <1>5, <1>6 DEF TickStep, Tick

\* What any step does.
LEMMA AnyStep ==
    ASSUME Rows, [Next]_vars
    PROVE  \/ BystanderStep
           \/ TickStep
           \/ \E w \in Workers, r \in Runs : /\ HolderStep(w, r) /\ TaskEffect(w, r)
                                            /\ ChildEffect(w, r) /\ task[w][r].pc # "idle"
<1>1. CASE UNCHANGED vars
  BY <1>1 DEF vars, store, worker, BystanderStep, RunStep
<1> QED BY <1>1, PollStep, OperateStep, CrashStep, TimeStep, WorkEffect, WorkChildren, WorkBusy
        DEF Next

-----------------------------------------------------------------------------
(* The invariant.                                                          *)

Blank == \A r \in Runs : run[r].status = "none" => run[r] = NoRun

Safe == RowsAndMoves /\ SkippedHeartbeatIsSafe /\ Blank /\ SupersededLeavesNoChildRunning

\* A task between heartbeats is at less than a lease, and not at its end.
LEMMA IntervalInLease == Interval < TTL
BY BoundsAssumption DEF Interval

LEMMA BusyPc ==
    ASSUME Rows, NEW w \in Workers, NEW r \in Runs
    PROVE  task[w][r].pc \in SyncPc \cup AwaitPc <=> task[w][r].pc # "idle"
<1>1. task[w][r] \in Task
  BY DEF Rows, WorkerTypeOK
<1> QED BY <1>1 DEF Task, SyncPc, AwaitPc, Ops

LEMMA AgeType ==
    ASSUME Rows, NEW w \in Workers, NEW r \in Runs
    PROVE  task[w][r].age \in Nat /\ run[r].lease \in Nat /\ run[r].lease <= TTL
<1>1. task[w][r] \in Task /\ run[r] \in RunRow
  BY DEF Rows, WorkerTypeOK, StoreTypeOK
<1>2. 0..(Interval + 1) \subseteq Nat
  BY IntervalType
<1> QED BY <1>1, <1>2, BoundsAssumption DEF Task, RunRow

LEMMA InitSafe == Init => Safe
<1> SUFFICES ASSUME Init PROVE Safe
  OBVIOUS
<1>1. \A w \in Workers, r \in Runs : task[w][r].pc = "idle"
  BY DEF Init, WorkerInit, Idle
<1>2. SkippedHeartbeatIsSafe
  BY <1>1 DEF SkippedHeartbeatIsSafe, SyncPc, AwaitPc, Ops
<1>3. Blank /\ SupersededLeavesNoChildRunning
  BY DEF Init, StoreInit, Blank, NoRun, SupersededLeavesNoChildRunning
<1> QED BY <1>2, <1>3, InitRows DEF Safe

\* The claim of w on r is in force, with this much of its lease left.
InForce(w, r) == Held(w, r) /\ run[r].lease + task[w][r].age >= TTL

LEMMA SafeMeans ==
    ASSUME Safe, NEW w \in Workers, NEW r \in Runs, task[w][r].pc # "idle"
    PROVE  task[w][r].age <= Interval => InForce(w, r) /\ run[r].lease > 0
<1>1. Rows
  BY DEF Safe, RowsAndMoves
<1>2. task[w][r].pc \in SyncPc \cup AwaitPc
  BY <1>1, BusyPc
<1> QED BY <1>1, <1>2, AgeType, IntervalType, IntervalInLease, BoundsAssumption
        DEF Safe, SkippedHeartbeatIsSafe, Overdue, InForce

LEMMA SafeAsserts ==
    ASSUME Safe, NEW w \in Workers, NEW r \in Runs, task[w][r].pc # "idle", ClaimAsserted(w, r)
    PROVE  Held(w, r)
<1>1. task[w][r].age \in Nat
  BY AgeType DEF Safe, RowsAndMoves
<1> QED BY <1>1, SafeMeans, IntervalType DEF ClaimAsserted, Overdue, InForce

LEMMA NextSkipped ==
    ASSUME Safe, Rows', [Next]_vars
    PROVE  SkippedHeartbeatIsSafe'
<1> DEFINE Kept(w, r) == task'[w][r].pc # "idle" /\ task'[w][r].age <= Interval
                         => InForce(w, r)'
<1>1. SUFFICES ASSUME NEW w \in Workers, NEW r \in Runs PROVE Kept(w, r)
  <2>1. ASSUME NEW w \in Workers, NEW r \in Runs
        PROVE  task'[w][r].age \in Nat
               /\ (task'[w][r].pc \in SyncPc \cup AwaitPc => task'[w][r].pc # "idle")
    <3>1. task'[w][r] \in Task
      BY DEF Rows, WorkerTypeOK
    <3>2. 0..(Interval + 1) \subseteq Nat
      BY IntervalType
    <3> QED BY <3>1, <3>2 DEF Task, SyncPc, AwaitPc, Ops
  <2> QED BY <2>1, IntervalType DEF SkippedHeartbeatIsSafe, Overdue, InForce
<1>2. SUFFICES ASSUME task'[w][r].pc # "idle", task'[w][r].age <= Interval
               PROVE  InForce(w, r)'
  OBVIOUS
<1> HIDE DEF Kept
<1>3. Rows /\ run \in [Runs -> RunRow]
  BY DEF Safe, RowsAndMoves, Rows, StoreTypeOK
<1>4. task[w][r].age \in Nat /\ run[r].lease \in Nat /\ run[r].lease <= TTL
  BY <1>3, AgeType
<1>b. ~(task'[w][r].age > Interval)
  <2>1. task'[w][r] \in Task /\ 0..(Interval + 1) \subseteq Nat
    BY IntervalType DEF Rows, WorkerTypeOK
  <2> QED BY <1>2, <2>1, IntervalType DEF Task
<1>5. CASE BystanderStep
  <2>1. task'[w][r] = task[w][r]
    BY <1>2, <1>b, <1>5 DEF BystanderStep
  <2>2. Held(w, r) /\ run[r].lease > 0 /\ run[r].lease + task[w][r].age >= TTL
    BY <1>2, <2>1, SafeMeans DEF InForce
  <2>3. run'[r] = run[r]
    <3>1. ASSUME NEW x \in Runs, NEW c \in Cohorts, NEW v \in Workers, ClaimStep(x, c, v)
          PROVE  run'[r] = run[r]
      BY <1>3, <2>2, <3>1 DEF ClaimStep, Held, Live, LiveStatus
    <3>2. ASSUME NEW x \in Runs, NEW v \in Workers, ResumeStep(x, v) PROVE run'[r] = run[r]
      BY <1>3, <2>2, <3>2 DEF ResumeStep, ResumedRuns, Expired
    <3>3. ASSUME NEW x \in Runs, SupersedeStep(x) PROVE run'[r] = run[r]
      BY <1>3, <2>2, <3>3 DEF SupersedeStep, RunsWithStatus, Expired, Settled, Held, Live,
                              LiveStatus, SettledStatus
    <3> QED BY <1>5, <3>1, <3>2, <3>3 DEF BystanderStep, RunStep
  <2> QED BY <2>1, <2>2, <2>3 DEF InForce, Held, Live
<1>6. CASE TickStep
  <2>1. task[w][r].pc # "idle" /\ task'[w][r].age = Older(task[w][r].age)
    BY <1>2, <1>6 DEF TickStep
  <2>2. task[w][r].age <= Interval /\ task'[w][r].age = task[w][r].age + 1
    BY <1>2, <1>4, <2>1, IntervalType DEF Older
  <2>3. Held(w, r) /\ run[r].lease > 0 /\ run[r].lease + task[w][r].age >= TTL
    BY <2>1, <2>2, SafeMeans DEF InForce
  <2>4. /\ run'[r].lease \in {TTL, run[r].lease, run[r].lease - 1}
        /\ run'[r].status = run[r].status /\ run'[r].owner = run[r].owner
    <3>1. run'[r] = [run[r] EXCEPT !.lease = run'[r].lease]
      BY <1>6 DEF TickStep
    <3>2. run[r] \in RunRow
      BY <1>3
    <3> QED BY <1>6, <3>1, <3>2 DEF TickStep, RunRow
  <2> QED BY <1>4, <2>2, <2>3, <2>4, BoundsAssumption DEF InForce, Held, Live
<1>7. ASSUME NEW v \in Workers, NEW x \in Runs, HolderStep(v, x), TaskEffect(v, x),
             task[v][x].pc # "idle"
      PROVE  InForce(w, r)'
  <2>1. CASE v = w /\ x = r
    <3>1. /\ run'[r].owner = run[r].owner /\ run'[r].lease \in {run[r].lease, TTL}
          /\ Live(r) => run'[r].status \in LiveStatus
          /\ \/ task'[w][r].age = task[w][r].age
             \/ task'[w][r].age = 0 /\ Held(w, r) /\ run'[r].lease = TTL
      BY <1>2, <1>b, <1>7, <2>1 DEF HolderStep, TaskEffect
    <3>2. CASE task'[w][r].age = task[w][r].age
      <4>1. Held(w, r) /\ run[r].lease + task[w][r].age >= TTL
        BY <1>2, <1>7, <2>1, <3>2, SafeMeans DEF InForce
      <4> QED BY <1>4, <3>1, <3>2, <4>1, BoundsAssumption DEF InForce, Held, Live
    <3>3. CASE task'[w][r].age = 0 /\ Held(w, r) /\ run'[r].lease = TTL
      BY <3>1, <3>3, BoundsAssumption DEF InForce, Held, Live
    <3> QED BY <3>1, <3>2, <3>3
  <2>2. CASE v # w \/ x # r
    <3>1. task'[w][r] = task[w][r]
      BY <1>7, <2>2 DEF TaskEffect
    <3>2. Held(w, r) /\ run[r].lease + task[w][r].age >= TTL
      BY <1>2, <3>1, SafeMeans DEF InForce
    <3>3. run'[r] = run[r]
      <4>1. CASE x # r
        BY <1>7, <4>1 DEF HolderStep
      <4>2. CASE x = r /\ v # w
        <5>1. ~Held(v, x)
          BY <3>2, <4>2 DEF Held
        <5> QED BY <1>7, <4>2, <5>1 DEF HolderStep
      <4> QED BY <2>2, <4>1, <4>2
    <3> QED BY <3>1, <3>2, <3>3 DEF InForce, Held, Live
  <2> QED BY <2>1, <2>2
<1> QED BY <1>3, <1>5, <1>6, <1>7, AnyStep

LEMMA NextBlank ==
    ASSUME Safe, [Next]_vars
    PROVE  Blank'
<1>1. Rows /\ run \in [Runs -> RunRow] /\ Blank
  BY DEF Safe, RowsAndMoves, Rows, StoreTypeOK
<1>2. SUFFICES ASSUME NEW r \in Runs, run'[r].status = "none" PROVE run'[r] = run[r] /\ run[r] = NoRun
  BY DEF Blank
<1>3. CASE RunStep
  <2>1. ASSUME NEW x \in Runs, NEW c \in Cohorts, NEW v \in Workers, ClaimStep(x, c, v)
        PROVE  run'[r] = run[r]
    BY <1>1, <1>2, <2>1 DEF ClaimStep, ClaimedRun, NoRun
  <2>2. ASSUME NEW x \in Runs, NEW v \in Workers, ResumeStep(x, v) PROVE run'[r] = run[r]
    BY <1>1, <1>2, <2>2 DEF ResumeStep, ResumedRuns, Expired, Live, LiveStatus, RunRow
  <2>3. ASSUME NEW x \in Runs, SupersedeStep(x) PROVE run'[r] = run[r]
    BY <1>1, <1>2, <2>3 DEF SupersedeStep, RunsWithStatus, RunRow
  <2>4. run'[r] = run[r]
    BY <1>3, <2>1, <2>2, <2>3 DEF RunStep
  <2> QED BY <1>1, <1>2, <2>4 DEF Blank
<1>4. CASE TickStep
  <2>1. run'[r] = [run[r] EXCEPT !.lease = run'[r].lease] /\ run[r] \in RunRow
        /\ (~Live(r) => run'[r].lease = run[r].lease)
    BY <1>1, <1>4 DEF TickStep
  <2>2. run'[r].status = run[r].status
    BY <2>1 DEF RunRow
  <2>3. ~Live(r)
    BY <1>2, <2>2 DEF Live, LiveStatus
  <2>4. run'[r] = run[r]
    BY <2>1, <2>3 DEF RunRow
  <2> QED BY <1>1, <1>2, <2>4 DEF Blank
<1>5. ASSUME NEW v \in Workers, NEW x \in Runs, HolderStep(v, x)
      PROVE  run'[r] = run[r] /\ run[r] = NoRun
  <2>1. run'[r].status = run[r].status
    BY <1>2, <1>5 DEF HolderStep, TerminalStatus, SettledStatus
  <2>2. ~Held(v, r)
    BY <1>2, <2>1 DEF Held, Live, LiveStatus
  <2>3. run'[r] = run[r]
    BY <1>5, <2>2 DEF HolderStep
  <2> QED BY <1>1, <1>2, <2>3 DEF Blank
<1> QED BY <1>1, <1>3, <1>4, <1>5, AnyStep DEF BystanderStep

LEMMA NextSuperseded ==
    ASSUME Safe, [Next]_vars
    PROVE  SupersededLeavesNoChildRunning'
<1>1. Rows /\ run \in [Runs -> RunRow] /\ SupersededLeavesNoChildRunning
  BY DEF Safe, RowsAndMoves, Rows, StoreTypeOK
<1>2. SUFFICES ASSUME NEW r \in Runs, run'[r].status = "superseded", NEW m \in Items,
                      child'[r][m].st = "running"
               PROVE  run[r].status = "superseded" /\ child[r][m].st = "running"
  <2> QED BY <1>1 DEF SupersededLeavesNoChildRunning, Members
<1>3. CASE BystanderStep
  BY <1>2, <1>3 DEF BystanderStep
<1>4. CASE TickStep
  <2>1. run'[r] = [run[r] EXCEPT !.lease = run'[r].lease] /\ run[r] \in RunRow
    BY <1>1, <1>4 DEF TickStep
  <2> QED BY <1>2, <1>4, <2>1 DEF TickStep, RunRow
<1>5. ASSUME NEW v \in Workers, NEW x \in Runs, ChildEffect(v, x), task[v][x].pc # "idle"
      PROVE  run[r].status = "superseded" /\ child[r][m].st = "running"
  <2>1. CASE x = r /\ ClaimAsserted(v, r) /\ run'[r].status = run[r].status
    <3>1. Held(v, r)
      BY <1>5, <2>1, SafeAsserts
    <3> QED BY <1>2, <2>1, <3>1 DEF Held, Live, LiveStatus
  <2> QED BY <1>2, <1>5, <2>1 DEF ChildEffect
<1> QED BY <1>1, <1>3, <1>4, <1>5, AnyStep

LEMMA NextSafe == Safe /\ [Next]_vars => Safe'
<1> SUFFICES ASSUME Safe, [Next]_vars PROVE Safe'
  OBVIOUS
<1>1. RowsAndMoves'
  BY NextRows DEF Safe
<1>2. Rows'
  BY <1>1 DEF RowsAndMoves
<1> QED BY <1>1, <1>2, NextSkipped, NextBlank, NextSuperseded DEF Safe

LEMMA AlwaysSafe == Spec => []Safe
BY InitSafe, NextSafe, PTL DEF Spec

-----------------------------------------------------------------------------
(* The theorems.                                                           *)

\* A task that skips a heartbeat within a third of the TTL of the last one
\* (cohort-curator's renewHeartbeat) holds its claim with lease to spare.
THEOREM SkippedHeartbeats == Spec => []SkippedHeartbeatIsSafe
<1>1. Safe => SkippedHeartbeatIsSafe
  BY DEF Safe
<1> QED BY <1>1, AlwaysSafe, PTL

\* No task of a superseded run leaves a child run running, at its supersession
\* or after it.
THEOREM SupersededIsClean == Spec => []SupersededLeavesNoChildRunning
<1>1. Safe => SupersededLeavesNoChildRunning
  BY DEF Safe
<1> QED BY <1>1, AlwaysSafe, PTL

\* What happens to a run that its own task does not touch.
LEMMA BystanderRuns ==
    ASSUME Rows, Blank, RunStep, NEW r \in Runs
    PROVE  \/ run'[r] = run[r]
           \/ run[r] = NoRun /\ run'[r].outputs = {} /\ run'[r].status = "freezing"
           \/ /\ Expired(r) /\ run'[r].status = run[r].status
              /\ run'[r].frozen = run[r].frozen /\ run'[r].outputs = run[r].outputs
           \/ /\ (Expired(r) \/ Settled(r)) /\ run'[r].owner = run[r].owner
              /\ run'[r].status = "superseded"
              /\ run'[r].frozen = run[r].frozen /\ run'[r].outputs = run[r].outputs
<1>1. run \in [Runs -> RunRow] /\ run[r] \in RunRow
  BY DEF Rows, StoreTypeOK
<1>2. ASSUME NEW x \in Runs, NEW c \in Cohorts, NEW v \in Workers, ClaimStep(x, c, v)
      PROVE  \/ run'[r] = run[r]
             \/ run[r] = NoRun /\ run'[r].outputs = {} /\ run'[r].status = "freezing"
  BY <1>1, <1>2 DEF ClaimStep, ClaimedRun, NoRun, Blank
<1>3. ASSUME NEW x \in Runs, NEW v \in Workers, ResumeStep(x, v)
      PROVE  \/ run'[r] = run[r]
             \/ /\ Expired(r) /\ run'[r].status = run[r].status
                /\ run'[r].frozen = run[r].frozen /\ run'[r].outputs = run[r].outputs
  BY <1>1, <1>3 DEF ResumeStep, ResumedRuns, RunRow
<1>4. ASSUME NEW x \in Runs, SupersedeStep(x)
      PROVE  \/ run'[r] = run[r]
             \/ /\ (Expired(r) \/ Settled(r)) /\ run'[r].owner = run[r].owner
                /\ run'[r].status = "superseded"
                /\ run'[r].frozen = run[r].frozen /\ run'[r].outputs = run[r].outputs
  BY <1>1, <1>4 DEF SupersedeStep, RunsWithStatus, RunRow
<1> QED BY <1>2, <1>3, <1>4 DEF RunStep

LEMMA TickRuns ==
    ASSUME Rows, TickStep, NEW r \in Runs
    PROVE  /\ run'[r] = [run[r] EXCEPT !.lease = run'[r].lease]
           /\ run'[r].status = run[r].status /\ run'[r].owner = run[r].owner
           /\ run'[r].cohort = run[r].cohort
           /\ run'[r].frozen = run[r].frozen /\ run'[r].outputs = run[r].outputs
           /\ ~Live(r) => run'[r] = run[r]
<1>1. run[r] \in RunRow
  BY DEF Rows, StoreTypeOK
<1>2. run'[r] = [run[r] EXCEPT !.lease = run'[r].lease]
  BY DEF TickStep
<1>3. ~Live(r) => run'[r].lease = run[r].lease
  BY DEF TickStep
<1> QED BY <1>1, <1>2, <1>3 DEF RunRow

\* "NO write can occur after the claim moved to another worker"
\* (cohort-lease-keeper): a writing task holds its claim.
THEOREM NoStaleWrite == Spec => NoWriteAfterLoss
<1> DEFINE NoWrite == \A w \in Workers, r \in Runs :
         /\ task[w][r].pc # "idle"
         /\ task'[w][r] # task[w][r]
         /\ <<child, item, evidence>>' # <<child, item, evidence>>
         => Held(w, r)
<1>1. Safe /\ [Next]_vars => NoWrite
  <2> SUFFICES ASSUME Safe, [Next]_vars, NEW w \in Workers, NEW r \in Runs,
                      task[w][r].pc # "idle", task'[w][r] # task[w][r],
                      <<child, item, evidence>>' # <<child, item, evidence>>
               PROVE  Held(w, r)
    OBVIOUS
  <2>1. Rows
    BY DEF Safe, RowsAndMoves
  <2>2. ~BystanderStep /\ ~TickStep
    BY DEF BystanderStep, TickStep
  <2>3. PICK v \in Workers, x \in Runs : TaskEffect(v, x)
    BY <2>1, <2>2, AnyStep
  <2>4. v = w /\ x = r
    BY <2>3 DEF TaskEffect
  <2>5. ClaimAsserted(w, r)
    BY <2>3, <2>4 DEF TaskEffect
  <2> QED BY <2>5, SafeAsserts
<1>2. Safe /\ [Next]_vars => [NoWrite]_vars
  BY <1>1
<1> QED BY <1>2, AlwaysSafe, PTL DEF Spec, NoWriteAfterLoss

\* Nobody but its holder ends or takes over a run whose lease has not run out
\* (the guards of reclaim, reconciliation and re-run).
THEOREM LiveClaims == Spec => LiveClaimsAreRespected
<1> DEFINE Respected == \A r \in Runs :
         /\ Live(r) /\ run[r].lease > 0
         /\ run'[r].owner # run[r].owner \/ run'[r].status \notin LiveStatus
         => /\ run'[r].owner = run[r].owner
            /\ task'[run[r].owner][r] # task[run[r].owner][r]
<1>1. Safe /\ [Next]_vars => Respected
  <2> SUFFICES ASSUME Safe, [Next]_vars, NEW r \in Runs, Live(r), run[r].lease > 0,
                      run'[r].owner # run[r].owner \/ run'[r].status \notin LiveStatus
               PROVE  /\ run'[r].owner = run[r].owner
                      /\ task'[run[r].owner][r] # task[run[r].owner][r]
    OBVIOUS
  <2>1. Rows /\ Blank
    BY DEF Safe, RowsAndMoves
  <2>2. run'[r] # run[r]
    BY DEF Live
  <2>3. ~BystanderStep
    <3>1. run[r].lease # 0
      BY <2>1, AgeType
    <3> QED BY <2>1, <2>2, <3>1, BystanderRuns DEF BystanderStep, Expired, Settled, Live,
                   LiveStatus, SettledStatus, NoRun
  <2>4. ~TickStep
    BY <2>1, TickRuns DEF Live
  <2>5. PICK v \in Workers, x \in Runs : /\ HolderStep(v, x) /\ TaskEffect(v, x)
                                         /\ task[v][x].pc # "idle"
    BY <2>1, <2>3, <2>4, AnyStep
  <2>6. x = r /\ Held(v, r) /\ run'[r].owner = run[r].owner
    BY <2>2, <2>5 DEF HolderStep
  <2>7. task'[v][r].pc = "idle"
    BY <2>5, <2>6 DEF TaskEffect
  <2> QED BY <2>5, <2>6, <2>7 DEF Held
<1>2. Safe /\ [Next]_vars => [Respected]_vars
  BY <1>1
<1> QED BY <1>2, AlwaysSafe, PTL DEF Spec, LiveClaimsAreRespected

\* The frozen authorities are written once, outputs only added to a live run,
\* and a decision only superseded (classification-cohort-run-repo).
THEOREM HistoryIsKept == Spec => DecisionsAreHistory
<1> DEFINE History == \A r \in Runs :
         /\ run[r].frozen # None => run'[r].frozen = run[r].frozen
         /\ run[r].outputs \subseteq run'[r].outputs
         /\ run'[r].outputs # run[r].outputs => Live(r)
         /\ Settled(r) => run'[r].status \in {run[r].status, "superseded"}
         /\ run[r].status = "superseded" => run'[r] = run[r]
<1>1. Safe /\ [Next]_vars => History
  <2> SUFFICES ASSUME Safe, [Next]_vars, NEW r \in Runs
               PROVE  /\ run[r].frozen # None => run'[r].frozen = run[r].frozen
                      /\ run[r].outputs \subseteq run'[r].outputs
                      /\ run'[r].outputs # run[r].outputs => Live(r)
                      /\ Settled(r) => run'[r].status \in {run[r].status, "superseded"}
                      /\ run[r].status = "superseded" => run'[r] = run[r]
    OBVIOUS
  <2>1. Rows /\ Blank
    BY DEF Safe, RowsAndMoves
  <2>2. CASE run'[r] = run[r]
    BY <2>2
  <2>3. CASE BystanderStep
    <3>1. CASE run[r] = NoRun /\ run'[r].outputs = {}
      BY <3>1 DEF NoRun, Settled, SettledStatus
    <3>2. CASE run'[r].frozen = run[r].frozen /\ run'[r].outputs = run[r].outputs
      <4>1. \/ Expired(r) /\ run'[r].status = run[r].status
            \/ (Expired(r) \/ Settled(r)) /\ run'[r].status = "superseded"
            \/ run'[r] = run[r]
            \/ run[r] = NoRun
        BY <2>1, <2>3, BystanderRuns DEF BystanderStep
      <4>2. Expired(r) => run[r].status # "superseded" /\ ~Settled(r)
        BY DEF Expired, Live, LiveStatus, Settled, SettledStatus
      <4>3. run[r] = NoRun => run[r].status # "superseded" /\ ~Settled(r)
        BY DEF NoRun, Settled, SettledStatus
      <4>4. Settled(r) => run[r].status # "superseded"
        BY DEF Settled, SettledStatus
      <4> QED BY <3>2, <4>1, <4>2, <4>3, <4>4
    <3> QED BY <2>1, <2>2, <2>3, <3>1, <3>2, BystanderRuns DEF BystanderStep
  <2>4. CASE TickStep
    BY <2>1, <2>4, TickRuns DEF Live, LiveStatus
  <2>5. ASSUME NEW v \in Workers, NEW x \in Runs, HolderStep(v, x), run'[r] # run[r]
        PROVE  /\ run[r].frozen # None => run'[r].frozen = run[r].frozen
               /\ run[r].outputs \subseteq run'[r].outputs
               /\ Live(r)
    BY <2>5 DEF HolderStep, Held
  <2>6. Live(r) => ~Settled(r) /\ run[r].status # "superseded"
    BY DEF Live, Settled, LiveStatus, SettledStatus
  <2> QED BY <2>1, <2>2, <2>3, <2>4, <2>5, <2>6, AnyStep
<1>2. Safe /\ [Next]_vars => [History]_vars
  BY <1>1
<1> QED BY <1>2, AlwaysSafe, PTL DEF Spec, DecisionsAreHistory
=============================================================================

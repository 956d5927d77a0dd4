-------------------------- MODULE CohortStepProofs --------------------------
(***************************************************************************)
(* The safety theorems of cohort Curation.  Everything rests on what one   *)
(* step of a task can do: HolderStep says what it does to the claims, and  *)
(* TaskEffect what it does to the tasks and when it may write.             *)
(***************************************************************************)
EXTENDS CohortTypeProofs

\* A step of worker w on run r leaves the other runs alone; it changes r only
\* while w holds it, and then in one of the few ways a holder may.
HolderStep(w, r) ==
    /\ \A x \in Runs : x # r => run'[x] = run[x]
    /\ ~Held(w, r) => run'[r] = run[r]
    /\ run'[r].owner = run[r].owner /\ run'[r].cohort = run[r].cohort
    /\ run'[r].lease \in {run[r].lease, TTL}
    /\ run[r].outputs \subseteq run'[r].outputs
    /\ run'[r].frozen = run[r].frozen \/ run[r].frozen = None
    /\ run'[r].status # run[r].status =>
         /\ run'[r].lease = run[r].lease
         /\ run'[r].status = "running" \/ run'[r].status \in TerminalStatus

\* Only the task of w for r moves.  While it goes on, the run stays live and
\* the age of its heartbeat is kept, made overdue, or reset by a renewal; and
\* it writes only with the claim asserted.
TaskEffect(w, r) ==
    /\ \A v \in Workers, x \in Runs : v # w \/ x # r => task'[v][x] = task[v][x]
    /\ task'[w][r].pc # "idle" =>
         /\ Live(r) => run'[r].status \in LiveStatus
         /\ \/ task'[w][r].age = task[w][r].age
            \/ task'[w][r].age > Interval
            \/ task'[w][r].age = 0 /\ Held(w, r) /\ run'[r].lease = TTL
    /\ <<child, item, evidence>>' # <<child, item, evidence>> => ClaimAsserted(w, r)

LEMMA HeldLive == \A w, r : Held(w, r) => Live(r) /\ run[r].owner = w
BY DEF Held

LEMMA KeptHolds ==
    ASSUME Rows, NEW w \in Workers, NEW r \in Runs, run' = run
    PROVE  HolderStep(w, r)
BY DEF HolderStep

LEMMA RenewHolds ==
    ASSUME Rows, NEW w \in Workers, NEW r \in Runs, run' = RenewedRuns(w, r)
    PROVE  HolderStep(w, r) /\ run'[r].status = run[r].status
           /\ (Held(w, r) => run'[r].lease = TTL)
<1>1. run \in [Runs -> RunRow]
  BY DEF Rows, StoreTypeOK
<1>2. CASE Held(w, r)
  <2>1. run' = [run EXCEPT ![r].lease = TTL]
    BY <1>2 DEF RenewedRuns
  <2> QED BY <1>1, <1>2, <2>1 DEF HolderStep, RunRow
<1>3. CASE ~Held(w, r)
  <2>1. run' = run
    BY <1>3 DEF RenewedRuns
  <2> QED BY <1>3, <2>1, KeptHolds
<1> QED BY <1>2, <1>3

LEMMA EndsHold ==
    ASSUME Rows, NEW w \in Workers, NEW r \in Runs, Held(w, r),
           NEW s \in TerminalStatus, run' = RunsWithStatus(r, s)
    PROVE  HolderStep(w, r)
<1>1. run \in [Runs -> RunRow]
  BY DEF Rows, StoreTypeOK
<1> QED BY <1>1 DEF RunsWithStatus, HolderStep, RunRow

LEMMA OwnedHeld ==
    ASSUME NEW w \in Workers, NEW r \in Runs, NEW s \in LiveStatus, OwnedIn(w, r, s)
    PROVE  Held(w, r)
BY DEF OwnedIn, Held, Live

LEMMA OutputHolds ==
    ASSUME Rows, NEW w \in Workers, NEW r \in Runs, Held(w, r), NEW op \in Ops,
           run' = [RenewedRuns(w, r) EXCEPT ![r].outputs = RenewedRuns(w, r)[r].outputs \cup {op}]
    PROVE  HolderStep(w, r) /\ run'[r].status = run[r].status
<1>1. run \in [Runs -> RunRow]
  BY DEF Rows, StoreTypeOK
<1>2. RenewedRuns(w, r) = [run EXCEPT ![r].lease = TTL]
  BY DEF RenewedRuns
<1> QED BY <1>1, <1>2 DEF HolderStep, RunRow

\* The run stays live through any of the steps that do not end its task.
LEMMA StaysLive ==
    ASSUME NEW r \in Runs, run'[r].status = run[r].status
    PROVE  Live(r) => run'[r].status \in LiveStatus
BY DEF Live

LEMMA EndEffect ==
    ASSUME Rows, NEW w \in Workers, NEW r \in Runs, Ends(w, r),
           <<child, item, evidence>>' # <<child, item, evidence>> => ClaimAsserted(w, r)
    PROVE  TaskEffect(w, r)
<1>1. task \in [Workers -> [Runs -> Task]]
  BY DEF Rows, WorkerTypeOK
<1>2. task' = [task EXCEPT ![w][r] = Idle]
  BY DEF Ends, Becomes
<1>3. task'[w][r].pc = "idle"
  BY <1>1, <1>2 DEF Idle
<1> QED BY <1>1, <1>2, <1>3 DEF TaskEffect

LEMMA BecomesEffect ==
    ASSUME Rows, NEW w \in Workers, NEW r \in Runs, NEW t, Becomes(w, r, t),
           t.pc # "idle" => /\ run'[r].status = run[r].status \/ run'[r].status = "running"
                            /\ \/ t.age = task[w][r].age
                               \/ t.age > Interval
                               \/ t.age = 0 /\ Held(w, r) /\ run'[r].lease = TTL,
           <<child, item, evidence>>' # <<child, item, evidence>> => ClaimAsserted(w, r)
    PROVE  TaskEffect(w, r)
<1>1. task \in [Workers -> [Runs -> Task]]
  BY DEF Rows, WorkerTypeOK
<1>2. /\ task'[w][r] = t
      /\ \A v \in Workers, x \in Runs : v # w \/ x # r => task'[v][x] = task[v][x]
  BY <1>1 DEF Becomes
<1> QED BY <1>2 DEF TaskEffect, Live, LiveStatus

LEMMA AfterOcrAge ==
    ASSUME NEW t \in Task, NEW m, NEW pc
    PROVE  AfterOcr(t, m, pc).age = t.age
BY DEF AfterOcr, Task

LEMMA KeeperAsserts ==
    ASSUME NEW w \in Workers, NEW r \in Runs, KeeperHolds(w, r)
    PROVE  Held(w, r) /\ ClaimAsserted(w, r)
BY DEF KeeperHolds, ClaimAsserted

-----------------------------------------------------------------------------
LEMMA FreezeEffect ==
    ASSUME Rows, NEW w \in Workers, NEW r \in Runs, Freeze(w, r)
    PROVE  HolderStep(w, r) /\ TaskEffect(w, r)
<1> DEFINE tk == task[w][r]
<1>0. tk.pc # "idle"
  BY DEF Freeze, FreezeAborts, FreezeLoad, FreezeMember, FreezeBlocked, OcrReturns, RankReturns,
         FreezeCommits, FreezeConflicts, FreezeDrifts, FreezeOwnershipLost, FreezeLosesClaim,
         OcrThrows, FreezeReady, At
<1>a. tk \in Task /\ run \in [Runs -> RunRow]
  BY <1>0, BusyTask DEF Rows, StoreTypeOK
<1> HIDE DEF tk
<1>1. CASE FreezeAborts(w, r) \/ FreezeOwnershipLost(w, r) \/ FreezeLosesClaim(w, r) \/ OcrThrows(w, r)
  BY <1>1, KeptHolds, EndEffect
     DEF FreezeAborts, FreezeOwnershipLost, FreezeLosesClaim, OcrThrows, store
<1>2. CASE FreezeLoad(w, r)
  <2> DEFINE t == [tk EXCEPT !.pc = "freeze", !.todo = Members(r),
                             !.auth = authority, !.view = MemberEvidence(r)]
  <2>1. t.age = tk.age
    BY <1>a DEF Task
  <2>2. Becomes(w, r, t) /\ UNCHANGED store
    BY <1>2 DEF FreezeLoad, tk
  <2> HIDE DEF t
  <2> QED BY <2>1, <2>2, KeptHolds, BecomesEffect DEF store, tk
<1>3. ASSUME NEW m \in Items, FreezeMember(w, r, m) PROVE HolderStep(w, r) /\ TaskEffect(w, r)
  <2> DEFINE t    == [tk EXCEPT !.age = IF Overdue(w, r) THEN 0 ELSE tk.age]
             t1   == OcrChecked(t, m)
  <2>1. PICK pc \in {"freeze", "rank", "ocr"} :
          /\ run' = IF Overdue(w, r) \/ pc # "freeze" THEN RenewedRuns(w, r) ELSE run
          /\ Becomes(w, r, IF pc # "freeze" /\ ~Held(w, r) THEN Idle ELSE AfterOcr(t1, m, pc))
    BY <1>3 DEF FreezeMember, tk
  <2>2. ClaimAsserted(w, r)
    BY <1>3 DEF FreezeMember
  <2>3. HolderStep(w, r) /\ run'[r].status = run[r].status
    BY <2>1, KeptHolds, RenewHolds
  <2>4. t \in Task /\ t.age = IF Overdue(w, r) THEN 0 ELSE tk.age
    BY <1>a, IntervalType DEF Task
  <2> HIDE DEF t
  <2>5. t1.age = t.age /\ t1 \in Task
    BY <2>4, OcrCheckedType
  <2> HIDE DEF t1
  <2>6. AfterOcr(t1, m, pc).age = t.age
    BY <2>5, AfterOcrAge
  <2>7. Overdue(w, r) => Held(w, r) /\ run'[r].lease = TTL
    BY <2>1, <2>2, RenewHolds DEF ClaimAsserted
  <2>8. Idle.pc = "idle"
    BY DEF Idle
  <2> DEFINE t2 == IF pc # "freeze" /\ ~Held(w, r) THEN Idle ELSE AfterOcr(t1, m, pc)
  <2>9. t2.pc # "idle" => t2.age = task[w][r].age \/ (t2.age = 0 /\ Held(w, r) /\ run'[r].lease = TTL)
    <3>1. t2 = Idle \/ t2 = AfterOcr(t1, m, pc)
      OBVIOUS
    <3>2. CASE t2 = Idle
      BY <3>2, <2>8
    <3>3. CASE t2 = AfterOcr(t1, m, pc)
      <4>1. t2.age = t.age
        BY <3>3, <2>6
      <4> HIDE DEF t2
      <4>2. CASE Overdue(w, r)
        BY <4>1, <4>2, <2>4, <2>7
      <4>3. CASE ~Overdue(w, r)
        BY <4>1, <4>3, <2>4 DEF tk
      <4> QED BY <4>2, <4>3
    <3> HIDE DEF t2
    <3> QED BY <3>1, <3>2, <3>3
  <2>10. Becomes(w, r, t2)
    BY <2>1
  <2> HIDE DEF t2
  <2> QED BY <2>2, <2>3, <2>9, <2>10, BecomesEffect
<1>4. ASSUME NEW m \in Items, FreezeBlocked(w, r, m) PROVE HolderStep(w, r) /\ TaskEffect(w, r)
  BY <1>4, KeptHolds, RenewHolds, EndEffect DEF FreezeBlocked
<1>5. CASE OcrReturns(w, r)
  <2>1. PICK t : Becomes(w, r, t) /\ t.age = tk.age
    <3>1. PICK pc \in {"freeze", "rank"} :
            Becomes(w, r, AfterOcr([tk EXCEPT !.view[tk.cur] =
              OcrReplaced(tk.view[tk.cur], tk.auth)], tk.cur, pc))
      BY <1>5 DEF OcrReturns, tk
    <3> DEFINE e == OcrReplaced(tk.view[tk.cur], tk.auth)
               u == [tk EXCEPT !.view[tk.cur] = e]
    <3>2. tk.cur \in Items
      BY <1>5 DEF OcrReturns, At, Rows, Claims, tk
    <3>3. e \in Evidence
      <4>1. tk.view[tk.cur] \in Evidence /\ tk.auth \in 0..MaxAuthority
        BY <1>a, <3>2 DEF Task
      <4> QED BY <4>1, EvidenceTypes
    <3> HIDE DEF e
    <3>4. u \in Task /\ u.age = tk.age
      <4>1. u \in Task
        BY <1>a, <3>2, <3>3, ViewType
      <4> QED BY <1>a, <4>1 DEF Task
    <3> HIDE DEF u
    <3>5. AfterOcr(u, tk.cur, pc).age = tk.age
      BY <3>4, AfterOcrAge
    <3> QED BY <3>1, <3>5 DEF u, e
  <2>2. run' = RenewedRuns(w, r) /\ KeeperHolds(w, r)
    BY <1>5 DEF OcrReturns
  <2> QED BY <2>1, <2>2, RenewHolds, KeeperAsserts, BecomesEffect DEF tk
<1>6. CASE RankReturns(w, r)
  <2>1. AfterOcr(tk, tk.cur, "freeze").age = tk.age
    BY <1>a, AfterOcrAge
  <2>2. Becomes(w, r, AfterOcr(tk, tk.cur, "freeze")) /\ UNCHANGED <<child, item, evidence>>
    BY <1>6 DEF RankReturns, tk
  <2>3. run' = run \/ run' = RenewedRuns(w, r)
    BY <1>6 DEF RankReturns
  <2>4. HolderStep(w, r) /\ run'[r].status = run[r].status
    BY <2>3, KeptHolds, RenewHolds
  <2> QED BY <2>1, <2>2, <2>4, BecomesEffect DEF tk
<1>7. CASE FreezeCommits(w, r)
  <2>1. PICK brand \in BOOLEAN :
          run' = [run EXCEPT ![r].status = "running", ![r].frozen = FrozenBy(w, r, brand)]
    BY <1>7 DEF FreezeCommits
  <2>2. Held(w, r) /\ run[r].frozen = None
    BY <1>7, OwnedHeld DEF FreezeCommits, OwnedIn, LiveStatus, Rows, Claims
  <2>3. HolderStep(w, r) /\ run'[r].status = "running"
    BY <1>a, <2>1, <2>2 DEF HolderStep, RunRow
  <2> DEFINE t == [Idle EXCEPT !.pc = "exec", !.age = Interval + 1]
  <2>4. t.age > Interval
    BY IntervalType DEF Idle
  <2>5. Becomes(w, r, t) /\ UNCHANGED <<child, item, evidence>>
    BY <1>7 DEF FreezeCommits
  <2> HIDE DEF t
  <2> QED BY <2>3, <2>4, <2>5, BecomesEffect
<1>8. CASE FreezeConflicts(w, r)
  <2>1. run' = [run EXCEPT ![r].status = "failed", ![r].frozen = FrozenBy(w, r, FALSE)]
    BY <1>8 DEF FreezeConflicts
  <2>2. Held(w, r) /\ run[r].frozen = None
    BY <1>8, OwnedHeld DEF FreezeConflicts, OwnedIn, LiveStatus, Rows, Claims
  <2>3. HolderStep(w, r)
    BY <1>a, <2>1, <2>2 DEF HolderStep, RunRow, TerminalStatus, SettledStatus
  <2> QED BY <1>8, <2>2, <2>3, EndEffect DEF FreezeConflicts, ClaimAsserted
<1>9. CASE FreezeDrifts(w, r)
  <2>1. CASE OwnedIn(w, r, "freezing")
    <3>1. Held(w, r) /\ "superseded" \in TerminalStatus
      BY <2>1, OwnedHeld DEF LiveStatus, TerminalStatus
    <3> QED BY <1>9, <2>1, <3>1, EndsHold, EndEffect DEF FreezeDrifts, ClaimAsserted
  <2>2. CASE ~OwnedIn(w, r, "freezing")
    BY <1>9, <2>2, KeptHolds, EndEffect DEF FreezeDrifts
  <2> QED BY <2>1, <2>2
<1> QED BY <1>1, <1>2, <1>3, <1>4, <1>5, <1>6, <1>7, <1>8, <1>9 DEF Freeze

-----------------------------------------------------------------------------
LEMMA NextMemberAge ==
    ASSUME NEW t \in Task, NEW m \in Items, NEW b \in BOOLEAN
    PROVE  /\ NextMember(t, m, b).age = t.age
           /\ [NextMember(t, m, b) EXCEPT !.age = 0].age = 0
           /\ [NextMember(t, m, b) EXCEPT !.done = NextMember(t, m, b).done \cup {m}].age = t.age
<1>1. NextMember(t, m, b) \in Task /\ NextMember(t, m, b).age = t.age
  <2>1. NextMember(t, m, b).age = t.age
    BY DEF NextMember, Task
  <2> QED BY <2>1, NextMemberType
<1> HIDE DEF NextMember
<1> QED BY <1>1 DEF Task

LEMMA SupersedeEffect ==
    ASSUME Rows, NEW w \in Workers, NEW r \in Runs, SupersedeOwned(w, r), Ends(w, r),
           UNCHANGED <<item, evidence>>
    PROVE  HolderStep(w, r) /\ TaskEffect(w, r)
<1>1. CASE OwnedIn(w, r, "running")
  <2>1. Held(w, r) /\ "superseded" \in TerminalStatus
    BY <1>1, OwnedHeld DEF LiveStatus, TerminalStatus
  <2> QED BY <1>1, <2>1, EndsHold, EndEffect DEF SupersedeOwned, ClaimAsserted
<1>2. CASE ~OwnedIn(w, r, "running")
  BY <1>2, KeptHolds, EndEffect DEF SupersedeOwned
<1> QED BY <1>1, <1>2

LEMMA MemberFailsEffect ==
    ASSUME Rows, NEW w \in Workers, NEW r \in Runs, NEW m \in Items, MemberFails(w, r, m),
           task[w][r].pc # "idle"
    PROVE  HolderStep(w, r) /\ TaskEffect(w, r)
<1> DEFINE t == [NextMember(task[w][r], m, TRUE) EXCEPT !.age = 0]
<1>1. t.age = 0
  BY BusyTask, NextMemberAge
<1>2. Becomes(w, r, t) /\ Held(w, r) /\ run' = RenewedRuns(w, r)
  BY DEF MemberFails
<1> HIDE DEF t
<1>3. HolderStep(w, r) /\ run'[r].status = run[r].status /\ run'[r].lease = TTL
  BY <1>2, RenewHolds
<1>4. ClaimAsserted(w, r)
  BY <1>2 DEF ClaimAsserted
<1> QED BY <1>1, <1>2, <1>3, <1>4, BecomesEffect

LEMMA ExecuteEffect ==
    ASSUME Rows, NEW w \in Workers, NEW r \in Runs, Execute(w, r)
    PROVE  HolderStep(w, r) /\ TaskEffect(w, r)
<1> DEFINE tk == task[w][r]
<1>0. tk.pc # "idle"
  BY DEF Execute, ExecLoad, OutputDrift, CopyTitles, CallOp, OpReturns, OpThrows, OpsDone,
         SkipMember, StartMember, MemberRefused, AtMember, PipelineCommits, PipelineFails,
         CheckBrands, Complete, ExecLosesClaim, At, Ops
<1>a. tk \in Task /\ run[r] \in RunRow
  BY <1>0, BusyTask
<1> HIDE DEF tk
<1>1. CASE OpThrows(w, r) \/ ExecLosesClaim(w, r)
  BY <1>1, KeptHolds, EndEffect DEF OpThrows, ExecLosesClaim, store
<1>2. CASE ExecLoad(w, r)
  <2> DEFINE sn == [m \in Items |-> IF m \in Members(r) THEN SeenItem(item[m]) ELSE None]
             t  == [tk EXCEPT !.pc = "ops", !.todo = Members(r), !.age = Interval + 1,
                              !.seen = sn]
  <2>1. t.age > Interval
    BY <1>a, IntervalType DEF Task
  <2>2. Becomes(w, r, t) /\ UNCHANGED store
    BY <1>2 DEF ExecLoad, tk
  <2> HIDE DEF t
  <2> QED BY <2>1, <2>2, KeptHolds, BecomesEffect DEF store
<1>3. CASE OutputDrift(w, r)
  BY <1>3, SupersedeEffect DEF OutputDrift
<1>4. CASE CopyTitles(w, r)
  <2>1. HolderStep(w, r) /\ run'[r].status = run[r].status
    BY <1>4, OutputHolds DEF CopyTitles, Ops
  <2> QED BY <1>4, <2>1 DEF CopyTitles, worker, TaskEffect, Live
<1>5. CASE CallOp(w, r)
  <2> DEFINE t == [tk EXCEPT !.pc = NextOp(r)]
  <2>1. t.age = task[w][r].age
    BY <1>a DEF Task, tk
  <2>2. Becomes(w, r, t) /\ run' = RenewedRuns(w, r) /\ UNCHANGED <<child, item, evidence>>
    BY <1>5 DEF CallOp, tk
  <2> HIDE DEF t
  <2> QED BY <2>1, <2>2, RenewHolds, BecomesEffect
<1>6. CASE OpReturns(w, r)
  <2>1. tk.pc \in Ops /\ UNCHANGED <<item, evidence>> /\ Held(w, r)
    BY <1>6, KeeperAsserts DEF OpReturns, tk
  <2>2. CASE tk.pc \in run[r].outputs
    BY <1>6, <2>1, <2>2, SupersedeEffect DEF OpReturns, tk
  <2>3. CASE tk.pc \notin run[r].outputs
    <3> DEFINE t == [tk EXCEPT !.pc = "ops"]
    <3>1. t.age = task[w][r].age
      BY <1>a DEF Task, tk
    <3>2. /\ run' = [RenewedRuns(w, r) EXCEPT ![r].outputs =
                       RenewedRuns(w, r)[r].outputs \cup {tk.pc}]
          /\ Becomes(w, r, t) /\ child' = child
      BY <1>6, <2>3 DEF OpReturns, tk
    <3>3. HolderStep(w, r) /\ run'[r].status = run[r].status
      BY <2>1, <3>2, OutputHolds
    <3> HIDE DEF t
    <3> QED BY <2>1, <3>1, <3>2, <3>3, BecomesEffect
  <2> QED BY <2>2, <2>3
<1>7. CASE OpsDone(w, r)
  <2> DEFINE t == [tk EXCEPT !.pc = "member", !.age = Interval + 1]
  <2>1. t.age > Interval
    BY <1>a, IntervalType DEF Task
  <2>2. Becomes(w, r, t) /\ UNCHANGED store
    BY <1>7 DEF OpsDone, tk
  <2> HIDE DEF t
  <2> QED BY <2>1, <2>2, KeptHolds, BecomesEffect DEF store
<1>8. ASSUME NEW m \in Items, SkipMember(w, r, m) PROVE HolderStep(w, r) /\ TaskEffect(w, r)
  <2> DEFINE b == tk.seen[m].blocked
             n == NextMember(tk, m, b)
             t == [n EXCEPT !.done = n.done \cup {m}]
  <2>1. b \in BOOLEAN
    BY <1>8, <1>a DEF SkipMember, Committed, Task, Seen, tk
  <2>2. t.age = tk.age
    BY <1>a, <2>1, NextMemberAge
  <2>3. Becomes(w, r, t) /\ UNCHANGED store
    BY <1>8 DEF SkipMember, tk
  <2> HIDE DEF t
  <2> QED BY <2>2, <2>3, KeptHolds, BecomesEffect DEF store, tk
<1>9. ASSUME NEW m \in Items, StartMember(w, r, m) PROVE HolderStep(w, r) /\ TaskEffect(w, r)
  <2> DEFINE n == MemberChild(child[r][m]).n
             u == [tk EXCEPT !.pc = "pipe", !.cur = m, !.att = n,
                             !.age = IF Overdue(w, r) THEN 0 ELSE tk.age]
             t == IF ~Held(w, r) THEN Idle ELSE u
  <2>1. Becomes(w, r, t) /\ run' = RenewedRuns(w, r) /\ ClaimAsserted(w, r)
    BY <1>9 DEF StartMember, tk
  <2>2. u.age = IF Overdue(w, r) THEN 0 ELSE tk.age
    BY <1>a DEF Task
  <2>3. CASE ~Held(w, r)
    <3>1. t = Idle
      BY <2>3
    <3> HIDE DEF t
    <3> QED BY <2>1, <3>1, RenewHolds, EndEffect DEF Ends
  <2>4. CASE Held(w, r)
    <3>1. t = u
      BY <2>4
    <3> HIDE DEF t, u
    <3>2. u.age = task[w][r].age \/ (u.age = 0 /\ Held(w, r))
      <4>1. CASE Overdue(w, r)
        BY <2>2, <2>4, <4>1
      <4>2. CASE ~Overdue(w, r)
        BY <2>2, <4>2 DEF tk
      <4> QED BY <4>1, <4>2
    <3> QED BY <2>1, <2>4, <3>1, <3>2, RenewHolds, BecomesEffect
  <2> QED BY <2>3, <2>4
<1>10. ASSUME NEW m \in Items, MemberRefused(w, r, m) PROVE HolderStep(w, r) /\ TaskEffect(w, r)
  BY <1>0, <1>10, MemberFailsEffect DEF MemberRefused, tk
<1>11. CASE PipelineCommits(w, r)
  <2> DEFINE m == tk.cur
  <2>1. m \in Items
    BY <1>11 DEF PipelineCommits, At, Rows, Claims, tk
  <2>2. PICK blocked \in BOOLEAN :
          Becomes(w, r, [NextMember(tk, m, blocked) EXCEPT
                           !.done = NextMember(tk, m, blocked).done \cup {m}])
    BY <1>11 DEF PipelineCommits, tk
  <2> DEFINE t == [NextMember(tk, m, blocked) EXCEPT
                     !.done = NextMember(tk, m, blocked).done \cup {m}]
  <2>3. t.age = task[w][r].age
    BY <1>a, <2>1, <2>2, NextMemberAge DEF tk
  <2>4. Becomes(w, r, t)
    BY <2>2
  <2>5. run' = RenewedRuns(w, r) /\ Held(w, r) /\ ClaimAsserted(w, r)
    BY <1>11, KeeperAsserts DEF PipelineCommits
  <2> HIDE DEF t
  <2> QED BY <2>3, <2>4, <2>5, RenewHolds, BecomesEffect
<1>12. CASE PipelineFails(w, r)
  <2>1. tk.cur \in Items
    BY <1>12 DEF PipelineFails, At, Rows, Claims, tk
  <2> QED BY <1>0, <1>12, <2>1, MemberFailsEffect DEF PipelineFails, tk
<1>13. CASE CheckBrands(w, r)
  <2> DEFINE t == [tk EXCEPT !.pc = "complete", !.age = 0,
                             !.failed = tk.failed \/ BrandBlocked(w, r) # {}]
  <2>1. t.age = 0
    BY <1>a DEF Task
  <2>2. Becomes(w, r, t) /\ run' = RenewedRuns(w, r) /\ Held(w, r) /\ ClaimAsserted(w, r)
    BY <1>13 DEF CheckBrands, ClaimAsserted, tk
  <2> HIDE DEF t
  <2> QED BY <2>1, <2>2, RenewHolds, BecomesEffect
<1>14. CASE Complete(w, r)
  <2>1. CASE Held(w, r)
    <3>1. PICK s \in TerminalStatus : run' = RunsWithStatus(r, s)
      BY <1>14, <2>1 DEF Complete, TerminalStatus, SettledStatus
    <3> QED BY <1>14, <2>1, <3>1, EndsHold, EndEffect DEF Complete
  <2>2. CASE ~Held(w, r)
    BY <1>14, <2>2, KeptHolds, EndEffect DEF Complete
  <2> QED BY <2>1, <2>2
<1> QED BY <1>1, <1>2, <1>3, <1>4, <1>5, <1>6, <1>7, <1>8, <1>9, <1>10, <1>11, <1>12, <1>13, <1>14
        DEF Execute

LEMMA WorkEffect ==
    ASSUME Rows, NEW w \in Workers, NEW r \in Runs, Work(w, r)
    PROVE  HolderStep(w, r) /\ TaskEffect(w, r)
<1>1. CASE LostDuringCall(w, r)
  BY <1>1, KeptHolds, EndEffect DEF LostDuringCall, store
<1> QED BY <1>1, FreezeEffect, ExecuteEffect DEF Work

LEMMA WorkBusy ==
    ASSUME NEW w \in Workers, NEW r \in Runs, Work(w, r)
    PROVE  task[w][r].pc # "idle"
<1>1. Freeze(w, r) => task[w][r].pc # "idle"
  BY DEF Freeze, FreezeAborts, FreezeLoad, FreezeMember, FreezeBlocked, OcrReturns, RankReturns,
         FreezeCommits, FreezeConflicts, FreezeDrifts, FreezeOwnershipLost, FreezeLosesClaim,
         OcrThrows, FreezeReady, At
<1>2. Execute(w, r) => task[w][r].pc # "idle"
  BY DEF Execute, ExecLoad, OutputDrift, CopyTitles, CallOp, OpReturns, OpThrows, OpsDone,
         SkipMember, StartMember, MemberRefused, AtMember, PipelineCommits, PipelineFails,
         CheckBrands, Complete, ExecLosesClaim, At, Ops
<1> QED BY <1>1, <1>2 DEF Work, LostDuringCall, AwaitPc, Ops

-----------------------------------------------------------------------------
\* A task starts child runs of a run it holds, and leaves none running when it
\* supersedes the run.
ChildEffect(w, r) ==
    \A x \in Runs, m \in Items : child'[x][m].st = "running" =>
        \/ /\ child[x][m].st = "running"
           /\ run'[x].status = "superseded" => run[x].status = "superseded"
        \/ x = r /\ ClaimAsserted(w, r) /\ run'[r].status = run[r].status

LEMMA FailedNotRunning == \A ch \in ChildRow : FailedChild(ch).st # "running"
BY DEF FailedChild, ChildRow

LEMMA SupersedeChildren ==
    ASSUME Rows, NEW r \in Runs, NEW s \in TerminalStatus, run' = RunsWithStatus(r, s),
           child' = ChildrenFailed(r)
    PROVE  \A x \in Runs, m \in Items : child'[x][m].st = "running" =>
             /\ child[x][m].st = "running"
             /\ run'[x].status = "superseded" => run[x].status = "superseded"
<1>1. /\ run \in [Runs -> RunRow]
      /\ child \in [Runs -> [Items -> ChildRow]]
  BY DEF Rows, StoreTypeOK
<1>2. \A m \in Items : child'[r][m].st # "running"
  BY <1>1, FailedNotRunning DEF ChildrenFailed
<1>3. \A x \in Runs : x # r => child'[x] = child[x] /\ run'[x] = run[x]
  BY <1>1 DEF ChildrenFailed, RunsWithStatus
<1> QED BY <1>2, <1>3

\* Most steps leave the children and the decision alone.
LEMMA SameChildren ==
    ASSUME NEW w, NEW r, child' = child, \A x \in Runs : run'[x].status # run[x].status =>
             run'[x].status # "superseded"
    PROVE  ChildEffect(w, r)
BY DEF ChildEffect

LEMMA RenewedStatus ==
    ASSUME Rows, NEW w, NEW r \in Runs
    PROVE  \A x \in Runs : RenewedRuns(w, r)[x].status = run[x].status
BY DEF RenewedRuns, Rows, StoreTypeOK, RunRow

\* One child of r is replaced.
LEMMA ReplacedChild ==
    ASSUME Rows, NEW w \in Workers, NEW r \in Runs, NEW m \in Items, NEW ch,
           child' = [child EXCEPT ![r][m] = ch], run' = run \/ run' = RenewedRuns(w, r),
           ch.st = "running" => child[r][m].st = "running" \/ ClaimAsserted(w, r)
    PROVE  ChildEffect(w, r)
<1>1. \A x \in Runs : run'[x].status = run[x].status
  BY RenewedStatus
<1>2. \A x \in Runs, i \in Items :
        child'[x][i] = IF x = r /\ i = m THEN ch ELSE child[x][i]
  BY DEF Rows, StoreTypeOK
<1> QED BY <1>1, <1>2 DEF ChildEffect

LEMMA ChildEndedStatus ==
    ASSUME Rows, NEW w \in Workers, NEW r \in Runs, NEW m \in Items, NEW n,
           NEW st \in {"completed", "failed"},
           child' = ChildEnded(r, m, n, st), run' = RenewedRuns(w, r)
    PROVE  ChildEffect(w, r)
<1>1. \A x \in Runs : run'[x].status = run[x].status
  BY RenewedStatus
<1>2. CASE child[r][m].n = n
  <2> DEFINE ch == [child[r][m] EXCEPT !.st = st]
  <2>1. child[r][m] \in ChildRow
    BY DEF Rows, StoreTypeOK
  <2>2. ch.st # "running"
    BY <2>1 DEF ChildRow
  <2>3. child' = [child EXCEPT ![r][m] = ch]
    BY <1>2 DEF ChildEnded
  <2> HIDE DEF ch
  <2> QED BY <2>2, <2>3, ReplacedChild
<1>3. CASE child[r][m].n # n
  BY <1>1, <1>3, SameChildren DEF ChildEnded
<1> QED BY <1>2, <1>3

LEMMA SupersedeOwnedChildren ==
    ASSUME Rows, NEW w \in Workers, NEW r \in Runs, SupersedeOwned(w, r)
    PROVE  ChildEffect(w, r)
<1>1. CASE OwnedIn(w, r, "running")
  BY <1>1, SupersedeChildren DEF SupersedeOwned, ChildEffect, TerminalStatus
<1>2. CASE ~OwnedIn(w, r, "running")
  BY <1>2 DEF SupersedeOwned, ChildEffect
<1> QED BY <1>1, <1>2

LEMMA FreezeChildren ==
    ASSUME Rows, NEW w \in Workers, NEW r \in Runs, Freeze(w, r)
    PROVE  ChildEffect(w, r)
<1>a. run \in [Runs -> RunRow]
  BY DEF Rows, StoreTypeOK
<1>1. CASE \/ FreezeAborts(w, r) \/ FreezeLoad(w, r) \/ FreezeOwnershipLost(w, r)
           \/ FreezeLosesClaim(w, r) \/ OcrThrows(w, r)
  BY <1>1, SameChildren DEF FreezeAborts, FreezeLoad, FreezeOwnershipLost, FreezeLosesClaim,
                            OcrThrows, store
<1>2. CASE OcrReturns(w, r) \/ RankReturns(w, r) \/ \E m \in Items : FreezeBlocked(w, r, m)
  <2>1. child' = child /\ (run' = run \/ run' = RenewedRuns(w, r))
    BY <1>2 DEF OcrReturns, RankReturns, FreezeBlocked
  <2> QED BY <2>1, RenewedStatus, SameChildren
<1>3. ASSUME NEW m \in Items, FreezeMember(w, r, m) PROVE ChildEffect(w, r)
  <2>1. PICK ch : /\ child' = [child EXCEPT ![r][m] = ch]
                  /\ ClaimAsserted(w, r)
                  /\ run' = run \/ run' = RenewedRuns(w, r)
    BY <1>3 DEF FreezeMember
  <2> QED BY <2>1, ReplacedChild
<1>4. CASE FreezeCommits(w, r)
  <2>1. PICK brand \in BOOLEAN :
          run' = [run EXCEPT ![r].status = "running", ![r].frozen = FrozenBy(w, r, brand)]
    BY <1>4 DEF FreezeCommits
  <2>2. \A x \in Runs : run'[x].status \in {run[x].status, "running"}
    BY <1>a, <2>1 DEF RunRow
  <2> QED BY <1>4, <2>2, SameChildren DEF FreezeCommits
<1>5. CASE FreezeConflicts(w, r)
  <2>1. run' = [run EXCEPT ![r].status = "failed", ![r].frozen = FrozenBy(w, r, FALSE)]
    BY <1>5 DEF FreezeConflicts
  <2>2. \A x \in Runs : run'[x].status \in {run[x].status, "failed"}
    BY <1>a, <2>1 DEF RunRow
  <2>3. \A x \in Runs, m \in Items : child'[x][m].st = "running" => child[x][m].st = "running"
    BY <1>5, FailedNotRunning DEF FreezeConflicts, ChildrenFailed, Rows, StoreTypeOK
  <2> QED BY <2>2, <2>3 DEF ChildEffect
<1>6. CASE FreezeDrifts(w, r)
  <2>1. CASE OwnedIn(w, r, "freezing")
    BY <1>6, <2>1, SupersedeChildren DEF FreezeDrifts, ChildEffect, TerminalStatus
  <2>2. CASE ~OwnedIn(w, r, "freezing")
    BY <1>6, <2>2 DEF FreezeDrifts, ChildEffect
  <2> QED BY <2>1, <2>2
<1> QED BY <1>1, <1>2, <1>3, <1>4, <1>5, <1>6 DEF Freeze

LEMMA ExecuteChildren ==
    ASSUME Rows, NEW w \in Workers, NEW r \in Runs, Execute(w, r)
    PROVE  ChildEffect(w, r)
<1>a. run \in [Runs -> RunRow]
  BY DEF Rows, StoreTypeOK
<1>1. CASE \/ ExecLoad(w, r) \/ OpThrows(w, r) \/ OpsDone(w, r) \/ ExecLosesClaim(w, r)
           \/ \E m \in Items : SkipMember(w, r, m)
  BY <1>1, SameChildren DEF ExecLoad, OpThrows, OpsDone, ExecLosesClaim, SkipMember, store
<1>2. CASE OutputDrift(w, r)
  BY <1>2, SupersedeOwnedChildren DEF OutputDrift
<1>3. CASE CallOp(w, r) \/ CheckBrands(w, r) \/ \E m \in Items : MemberRefused(w, r, m)
  <2>1. child' = child /\ run' = RenewedRuns(w, r)
    BY <1>3 DEF CallOp, CheckBrands, MemberRefused, MemberFails
  <2> QED BY <2>1, RenewedStatus, SameChildren
<1>4. ASSUME NEW op \in Ops, child' = child, Held(w, r),
             run' = [RenewedRuns(w, r) EXCEPT ![r].outputs = RenewedRuns(w, r)[r].outputs \cup {op}]
      PROVE  ChildEffect(w, r)
  <2>1. HolderStep(w, r) /\ run'[r].status = run[r].status
    BY <1>4, OutputHolds
  <2>2. \A x \in Runs : run'[x].status = run[x].status
    BY <2>1 DEF HolderStep
  <2> QED BY <1>4, <2>2, SameChildren
<1>5. CASE CopyTitles(w, r)
  BY <1>4, <1>5 DEF CopyTitles, Ops
<1>6. CASE OpReturns(w, r)
  <2>1. CASE task[w][r].pc \in run[r].outputs
    BY <1>6, <2>1, SupersedeOwnedChildren DEF OpReturns
  <2>2. CASE task[w][r].pc \notin run[r].outputs
    BY <1>4, <1>6, <2>2, KeeperAsserts DEF OpReturns
  <2> QED BY <2>1, <2>2
<1>7. ASSUME NEW m \in Items, StartMember(w, r, m) PROVE ChildEffect(w, r)
  <2>1. PICK ch : child' = [child EXCEPT ![r][m] = ch]
    BY <1>7 DEF StartMember
  <2> QED BY <1>7, <2>1, ReplacedChild DEF StartMember
<1>8. CASE PipelineCommits(w, r) \/ PipelineFails(w, r)
  <2>1. task[w][r].cur \in Items /\ run' = RenewedRuns(w, r)
    BY <1>8 DEF PipelineCommits, PipelineFails, MemberFails, At, Rows, Claims
  <2>2. CASE child' = child
    BY <2>1, <2>2, RenewedStatus, SameChildren
  <2>3. CASE \E st \in {"completed", "failed"} :
               child' = ChildEnded(r, task[w][r].cur, task[w][r].att, st)
    BY <2>1, <2>3, ChildEndedStatus
  <2> QED BY <1>8, <2>2, <2>3 DEF PipelineCommits, PipelineFails
<1>9. CASE Complete(w, r)
  <2>1. \A x \in Runs : run'[x].status \in {run[x].status, "member_failures", "completed"}
    BY <1>a, <1>9 DEF Complete, RunsWithStatus, RunRow
  <2> QED BY <1>9, <2>1, SameChildren DEF Complete
<1> QED BY <1>1, <1>2, <1>3, <1>5, <1>6, <1>7, <1>8, <1>9 DEF Execute

LEMMA WorkChildren ==
    ASSUME Rows, NEW w \in Workers, NEW r \in Runs, Work(w, r)
    PROVE  ChildEffect(w, r)
<1>1. CASE LostDuringCall(w, r)
  BY <1>1, SameChildren DEF LostDuringCall, store
<1> QED BY <1>1, FreezeChildren, ExecuteChildren DEF Work
=============================================================================

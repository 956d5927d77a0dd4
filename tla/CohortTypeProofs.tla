-------------------------- MODULE CohortTypeProofs --------------------------
(* Type correctness of cohort Curation, and the facts about claimed rows it
   rests on. *)
EXTENDS CohortSafety, FiniteSetTheorems, TLAPS

LEMMA FullLease == TTL \in 0..TTL
BY BoundsAssumption

LEMMA RenewedType ==
    ASSUME StoreTypeOK, NEW w, NEW r \in Runs
    PROVE  RenewedRuns(w, r) \in [Runs -> RunRow]
<1>1. [run[r] EXCEPT !.lease = TTL] \in RunRow
  BY FullLease DEF StoreTypeOK, RunRow
<1> QED BY <1>1 DEF StoreTypeOK, RenewedRuns

LEMMA StatusType ==
    ASSUME StoreTypeOK, NEW r \in Runs, NEW s \in RunStatus
    PROVE  RunsWithStatus(r, s) \in [Runs -> RunRow]
<1>1. run[r] \in RunRow
  BY DEF StoreTypeOK
<1>2. [run[r] EXCEPT !.status = s] \in RunRow
  BY <1>1 DEF RunRow
<1>3. RunsWithStatus(r, s) = [run EXCEPT ![r] = [run[r] EXCEPT !.status = s]]
  BY DEF RunsWithStatus
<1> QED BY <1>2, <1>3 DEF StoreTypeOK

LEMMA ResumedType ==
    ASSUME StoreTypeOK, NEW w \in Workers, NEW r \in Runs
    PROVE  ResumedRuns(r, w) \in [Runs -> RunRow]
<1>1. [run[r] EXCEPT !.owner = w, !.lease = TTL] \in RunRow
  BY FullLease DEF StoreTypeOK, RunRow
<1> QED BY <1>1 DEF StoreTypeOK, ResumedRuns

LEMMA ChildrenFailedType ==
    ASSUME StoreTypeOK, NEW r \in Runs
    PROVE  ChildrenFailed(r) \in [Runs -> [Items -> ChildRow]]
<1>1. \A ch \in ChildRow : FailedChild(ch) \in ChildRow
  BY DEF FailedChild, ChildRow
<1>2. [m \in Items |-> FailedChild(child[r][m])] \in [Items -> ChildRow]
  BY <1>1 DEF StoreTypeOK
<1> QED BY <1>2 DEF StoreTypeOK, ChildrenFailed

LEMMA IntervalType == Interval \in Nat
BY BoundsAssumption DEF Interval

LEMMA IdleType == Idle \in Task
<1>1. NoEvidence \in Evidence
  BY BoundsAssumption DEF NoEvidence, Evidence
<1>2. 0 \in 0..MaxAuthority /\ 0 \in 0..(Interval + 1) /\ 0 \in 0..FreezeOcrRerunCap
  BY BoundsAssumption, WorkerBoundsAssumption, IntervalType
<1>3. /\ [m \in Items |-> NoEvidence] \in [Items -> Evidence]
      /\ [m \in Items |-> None] \in [Items -> Seen \cup {None}]
  BY <1>1
<1> QED BY <1>2, <1>3 DEF Idle, Task

LEMMA BecomesType ==
    ASSUME WorkerTypeOK, NEW w \in Workers, NEW r \in Runs, NEW t \in Task, Becomes(w, r, t)
    PROVE  task' \in [Workers -> [Runs -> Task]]
BY DEF WorkerTypeOK, Becomes
-----------------------------------------------------------------------------
Claims ==
    /\ \A r \in Runs : run[r].status # "none" =>
         run[r].cohort \in Cohorts /\ run[r].owner \in Workers
    /\ \A r \in Runs : run[r].status = "freezing" => run[r].frozen = None
    /\ \A w \in Workers, r \in Runs :
         /\ task[w][r].pc # "idle" => run[r].status # "none"
         /\ task[w][r].pc \in {"ocr", "rank", "pipe"} => task[w][r].cur \in Items

Rows == StoreTypeOK /\ WorkerTypeOK /\ Claims

\* A task at pc, its heartbeat due.
LEMMA StartType ==
    ASSUME NEW pc \in SyncPc
    PROVE  /\ [Idle EXCEPT !.pc = pc, !.age = Interval + 1] \in Task
           /\ [Idle EXCEPT !.pc = pc, !.age = Interval + 1].pc = pc
<1>1. Interval + 1 \in 0..(Interval + 1)
  BY IntervalType
<1>2. pc \in {"idle"} \cup SyncPc \cup AwaitPc
  OBVIOUS
<1>3. Idle \in Task
  BY IdleType
<1> QED BY <1>1, <1>2, <1>3 DEF Task

LEMMA DispatchType ==
    ASSUME Rows, NEW w \in Workers, NEW r \in Runs, NEW s, Dispatch(w, r, s),
           \A x \in Runs : run'[x].status # "none" <=> x = r \/ run[x].status # "none"
    PROVE  /\ task' \in [Workers -> [Runs -> Task]]
           /\ \A v \in Workers, x \in Runs :
                /\ task'[v][x].pc # "idle" => run'[x].status # "none"
                /\ task'[v][x].pc \in {"ocr", "rank", "pipe"} => task'[v][x].cur \in Items
<1> DEFINE p == IF s = "freezing" THEN "load" ELSE "exec"
<1> DEFINE t == [Idle EXCEPT !.pc = p, !.age = Interval + 1]
<1>1. p \in SyncPc /\ p \notin {"ocr", "rank", "pipe"}
  BY DEF SyncPc
<1>2. t \in Task /\ t.pc \notin {"ocr", "rank", "pipe"}
  BY <1>1, StartType
<1>3. task \in [Workers -> [Runs -> Task]]
  BY DEF Rows, WorkerTypeOK
<1>4. task' = [task EXCEPT ![w][r] = t] \/ task' = task
  BY DEF Dispatch, Becomes
<1> HIDE DEF t
<1>5. task' \in [Workers -> [Runs -> Task]]
  BY <1>2, <1>3, <1>4
<1>6. ASSUME NEW v \in Workers, NEW x \in Runs
      PROVE  /\ task'[v][x].pc # "idle" => run'[x].status # "none"
             /\ task'[v][x].pc \in {"ocr", "rank", "pipe"} => task'[v][x].cur \in Items
  <2>1. task'[v][x] = task[v][x] \/ (x = r /\ task'[v][x] = t)
    BY <1>3, <1>4
  <2> QED BY <1>2, <2>1 DEF Rows, Claims
<1> QED BY <1>5, <1>6

-----------------------------------------------------------------------------
(* Steps that leave every claim where it is.                               *)

SameClaims ==
    /\ run' \in [Runs -> RunRow]
    /\ \A x \in Runs :
         /\ run'[x].cohort = run[x].cohort
         /\ run'[x].owner = run[x].owner
         /\ run'[x].status # "none" <=> run[x].status # "none"
         /\ run'[x].status = "freezing" =>
              run[x].status = "freezing" /\ run'[x].frozen = run[x].frozen

LEMMA SameRun == ASSUME Rows, run' = run PROVE SameClaims
BY DEF Rows, StoreTypeOK, SameClaims

LEMMA RenewKeeps ==
    ASSUME Rows, NEW w, NEW r \in Runs, run' = RenewedRuns(w, r)
    PROVE  SameClaims
<1>1. run' \in [Runs -> RunRow]
  BY RenewedType DEF Rows
<1>2. run \in [Runs -> RunRow]
  BY DEF Rows, StoreTypeOK
<1>3. run' = [run EXCEPT ![r].lease = TTL] \/ run' = run
  BY DEF RenewedRuns
<1> QED BY <1>1, <1>2, <1>3 DEF RunRow, SameClaims

LEMMA StatusKeeps ==
    ASSUME Rows, NEW r \in Runs, run[r].status # "none",
           NEW s \in TerminalStatus \cup {"running"}, run' = RunsWithStatus(r, s)
    PROVE  SameClaims
<1>1. s \in RunStatus /\ s \notin {"none", "freezing"}
  BY DEF RunStatus, LiveStatus, TerminalStatus, SettledStatus
<1>2. run' \in [Runs -> RunRow]
  BY <1>1, StatusType DEF Rows
<1>3. run \in [Runs -> RunRow]
  BY DEF Rows, StoreTypeOK
<1> QED BY <1>1, <1>2, <1>3 DEF RunRow, SameClaims, RunsWithStatus

\* A step of the task of worker w for run r.
LEMMA TaskStep ==
    ASSUME Rows, SameClaims,
           child' \in [Runs -> [Items -> ChildRow]], item' \in [Items -> ItemRow],
           evidence' \in [Items -> Evidence],
           UNCHANGED <<cohort, batch, authority, observed, faults>>,
           NEW w \in Workers, NEW r \in Runs, NEW t \in Task, Becomes(w, r, t),
           t.pc # "idle" => run[r].status # "none",
           t.pc \in {"ocr", "rank", "pipe"} => t.cur \in Items
    PROVE  Rows'
<1>1. task \in [Workers -> [Runs -> Task]]
  BY DEF Rows, WorkerTypeOK
<1>2. task' \in [Workers -> [Runs -> Task]]
  BY BecomesType DEF Rows
<1>3. StoreTypeOK' /\ WorkerTypeOK'
  BY <1>2 DEF Rows, SameClaims, StoreTypeOK, WorkerTypeOK
<1>4. ASSUME NEW v \in Workers, NEW x \in Runs
      PROVE  /\ task'[v][x].pc # "idle" => run'[x].status # "none"
             /\ task'[v][x].pc \in {"ocr", "rank", "pipe"} => task'[v][x].cur \in Items
  <2>1. task'[v][x] = task[v][x] \/ (x = r /\ task'[v][x] = t)
    BY <1>1 DEF Becomes
  <2> QED BY <2>1 DEF Rows, Claims, SameClaims
<1>5. Claims'
  BY <1>4 DEF Rows, Claims, SameClaims
<1> QED BY <1>3, <1>5 DEF Rows

\* A step that only ends or supersedes runs.
LEMMA StoreStep ==
    ASSUME Rows, SameClaims,
           child' \in [Runs -> [Items -> ChildRow]], item' \in [Items -> ItemRow],
           evidence' \in [Items -> Evidence],
           cohort' \in [Cohorts -> {"none", "waiting", "ready", "superseded"}],
           batch' \in BOOLEAN, authority' \in Authorities,
           task' = task, observed' \in [Workers -> Observation \cup {None}], faults' = faults
    PROVE  Rows'
<1>1. StoreTypeOK' /\ WorkerTypeOK'
  BY DEF Rows, SameClaims, StoreTypeOK, WorkerTypeOK
<1>2. Claims'
  BY DEF Rows, Claims, SameClaims
<1> QED BY <1>1, <1>2 DEF Rows

\* What a reclaim reads of an expired row is an observation, row after row.
LEMMA VerdictType ==
    ASSUME Rows, NEW r \in Runs, Expired(r)
    PROVE  Verdict(r) \in Observation
<1>1. run[r].status \in LiveStatus /\ run[r].owner \in Workers
  BY DEF Expired, Live, LiveStatus, Rows, Claims
<1>2. FrozenWorldMatches(r) \in BOOLEAN
  BY DEF FrozenWorldMatches
<1> QED BY <1>1, <1>2 DEF Verdict, Observation

LEMMA NextRowType ==
    ASSUME Rows, NEW w \in Workers, NextRow(w)
    PROVE  observed' \in [Workers -> Observation \cup {None}]
<1>1. PICK o \in {None} \cup {Verdict(r) : r \in {x \in Runs : x > observed[w].run /\ Expired(x)}} :
          observed' = [observed EXCEPT ![w] = o]
  BY DEF NextRow
<1>2. o \in Observation \cup {None}
  BY <1>1, VerdictType
<1> QED BY <1>1, <1>2 DEF Rows, WorkerTypeOK

LEMMA PollRows ==
    ASSUME Rows, NEW w \in Workers, Poll(w)
    PROVE  Rows'
<1> USE DEF Rows
<1>1. CASE ReclaimResume(w)
  <2> DEFINE o == observed[w]
  <2>1. o \in Observation /\ observed' \in [Workers -> Observation \cup {None}]
    BY <1>1, NextRowType DEF ReclaimResume, WorkerTypeOK
  <2>2. CASE Unchanged(o)
    <3>1. run' = ResumedRuns(o.run, w) /\ Dispatch(w, o.run, o.status)
      BY <1>1, <2>2 DEF ReclaimResume
    <3>2. o.run \in Runs /\ run[o.run].status \in LiveStatus
      BY <2>1, <2>2 DEF Observation, Unchanged, Expired, Live
    <3>3. /\ run' \in [Runs -> RunRow]
          /\ \A x \in Runs : /\ run'[x].status = run[x].status
                             /\ run'[x].cohort = run[x].cohort
                             /\ run'[x].frozen = run[x].frozen
                             /\ run'[x].owner \in {run[x].owner, w}
      <4>1. run' \in [Runs -> RunRow]
        BY <3>1, <3>2, ResumedType
      <4>2. run \in [Runs -> RunRow]
        BY DEF StoreTypeOK
      <4>3. \A x \in Runs : run'[x] \in {run[x], [run[x] EXCEPT !.owner = w, !.lease = TTL]}
        BY <3>1, <3>2, <4>2 DEF ResumedRuns
      <4>4. ASSUME NEW x \in Runs
            PROVE  /\ run'[x].status = run[x].status
                   /\ run'[x].cohort = run[x].cohort
                   /\ run'[x].frozen = run[x].frozen
                   /\ run'[x].owner \in {run[x].owner, w}
        <5>1. run[x] \in RunRow
          BY <4>2
        <5> QED BY <4>3, <5>1 DEF RunRow
      <4> QED BY <4>1, <4>4
    <3>4. \A x \in Runs : run'[x].status # "none" <=> x = o.run \/ run[x].status # "none"
      BY <3>2, <3>3 DEF LiveStatus
    <3> HIDE DEF o
    <3>5. /\ task' \in [Workers -> [Runs -> Task]]
          /\ \A v \in Workers, x \in Runs :
                /\ task'[v][x].pc # "idle" => run'[x].status # "none"
                /\ task'[v][x].pc \in {"ocr", "rank", "pipe"} => task'[v][x].cur \in Items
      BY <3>1, <3>2, <3>4, DispatchType
    <3>6. StoreTypeOK'
      BY <1>1, <3>3 DEF ReclaimResume, StoreTypeOK
    <3>7. WorkerTypeOK'
      BY <1>1, <2>1, <3>5 DEF ReclaimResume, WorkerTypeOK
    <3>8. Claims'
      BY <3>3, <3>5 DEF Claims
    <3> QED BY <3>6, <3>7, <3>8
  <2>3. CASE ~Unchanged(o)
    BY <1>1, <2>1, <2>3, SameRun, StoreStep DEF ReclaimResume, StoreTypeOK
  <2> QED BY <2>2, <2>3
<1>2. CASE ReclaimSupersede(w)
  <2> DEFINE o == observed[w]
  <2>1. observed' \in [Workers -> Observation \cup {None}]
    BY <1>2, NextRowType DEF ReclaimSupersede
  <2>2. CASE Unchanged(o)
    <3>1. o.run \in Runs /\ run[o.run].status # "none"
      BY <1>2, <2>2 DEF ReclaimSupersede, WorkerTypeOK, Observation, Unchanged, Expired,
                        Live, LiveStatus
    <3>2. run' = RunsWithStatus(o.run, "superseded") /\ child' = ChildrenFailed(o.run)
      BY <1>2, <2>2 DEF ReclaimSupersede
    <3> HIDE DEF o
    <3>3. SameClaims
      BY <3>1, <3>2, StatusKeeps DEF TerminalStatus
    <3>4. child' \in [Runs -> [Items -> ChildRow]]
      BY <3>1, <3>2, ChildrenFailedType
    <3> QED BY <1>2, <2>1, <3>3, <3>4, StoreStep DEF ReclaimSupersede, StoreTypeOK
  <2>3. CASE ~Unchanged(o)
    BY <1>2, <2>1, <2>3, SameRun, StoreStep DEF ReclaimSupersede, StoreTypeOK
  <2> QED BY <2>2, <2>3
<1>3. ASSUME NEW r \in Runs, Observe(w, r) PROVE Rows'
  <2>1. observed' = [observed EXCEPT ![w] = Verdict(r)] /\ Verdict(r) \in Observation
    BY <1>3, VerdictType DEF Observe
  <2>2. observed' \in [Workers -> Observation \cup {None}]
    BY <2>1 DEF WorkerTypeOK
  <2> QED BY <1>3, <2>2, SameRun, StoreStep DEF Observe, store, StoreTypeOK
<1>4. ASSUME NEW r \in Runs, Reconcile(w, r) PROVE Rows'
  <2>1. run[r].status # "none"
    BY <1>4 DEF Reconcile, Settled, SettledStatus
  <2>2. run' = RunsWithStatus(r, "superseded") /\ child' = ChildrenFailed(r)
    BY <1>4 DEF Reconcile
  <2>3. SameClaims
    BY <2>1, <2>2, StatusKeeps DEF TerminalStatus
  <2>4. child' \in [Runs -> [Items -> ChildRow]]
    BY <2>2, ChildrenFailedType
  <2> QED BY <1>4, <2>3, <2>4, StoreStep DEF Reconcile, worker, StoreTypeOK, WorkerTypeOK
<1>5. ASSUME NEW c \in Cohorts, Claim(w, c) PROVE Rows'
  <2>1. PICK r \in Runs : /\ run[r].status = "none"
                          /\ run' = [run EXCEPT ![r] = ClaimedRun(c, w)]
                          /\ Dispatch(w, r, "freezing")
    BY <1>5 DEF Claim
  <2>2. NoRun \in RunRow
    BY BoundsAssumption DEF NoRun, RunRow, RunStatus, Ops
  <2>3. /\ ClaimedRun(c, w) \in RunRow
        /\ ClaimedRun(c, w).status = "freezing" /\ ClaimedRun(c, w).frozen = None
        /\ ClaimedRun(c, w).cohort = c /\ ClaimedRun(c, w).owner = w
    <3>1. "freezing" \in RunStatus
      BY DEF RunStatus, LiveStatus
    <3>2. NoRun.frozen = None
      BY DEF NoRun
    <3> QED BY <2>2, <3>1, <3>2, FullLease DEF ClaimedRun, RunRow
  <2>4. /\ run' \in [Runs -> RunRow]
        /\ \A x \in Runs : run'[x] = IF x = r THEN ClaimedRun(c, w) ELSE run[x]
    BY <2>1, <2>3 DEF StoreTypeOK
  <2>5. \A x \in Runs : run'[x].status # "none" <=> x = r \/ run[x].status # "none"
    BY <2>3, <2>4
  <2>6. /\ task' \in [Workers -> [Runs -> Task]]
        /\ \A v \in Workers, x \in Runs :
              /\ task'[v][x].pc # "idle" => run'[x].status # "none"
              /\ task'[v][x].pc \in {"ocr", "rank", "pipe"} => task'[v][x].cur \in Items
    BY <2>1, <2>5, DispatchType
  <2>7. StoreTypeOK' /\ WorkerTypeOK'
    BY <1>5, <2>4, <2>6 DEF Claim, StoreTypeOK, WorkerTypeOK
  <2>8. Claims'
    BY <2>3, <2>4, <2>5, <2>6 DEF Claims
  <2> QED BY <2>7, <2>8
<1> QED BY <1>1, <1>2, <1>3, <1>4, <1>5 DEF Poll

-----------------------------------------------------------------------------
(* The freeze.                                                             *)

LEMMA EvidenceTypes ==
    /\ NoEvidence \in Evidence
    /\ \A e \in Evidence : Invalidated(e) \in Evidence
    /\ \A e \in Evidence, auth \in 0..MaxAuthority : OcrReplaced(e, auth) \in Evidence
<1>1. NoEvidence \in Evidence
  BY BoundsAssumption DEF NoEvidence, Evidence
<1>2. ASSUME NEW e \in Evidence PROVE Invalidated(e) \in Evidence
  BY DEF Invalidated, Evidence
<1>3. ASSUME NEW e \in Evidence, NEW auth \in 0..MaxAuthority
      PROVE  OcrReplaced(e, auth) \in Evidence
  BY DEF OcrReplaced, Evidence
<1> QED BY <1>1, <1>2, <1>3

LEMMA MemberTypes ==
    ASSUME Rows, NEW r \in Runs, run[r].status # "none"
    PROVE  Members(r) \subseteq Items /\ MemberEvidence(r) \in [Items -> Evidence]
BY MembersAssumption, EvidenceTypes
   DEF Rows, Claims, StoreTypeOK, Members, MemberEvidence

\* A busy task has a claimed run.
LEMMA BusyTask ==
    ASSUME Rows, NEW w \in Workers, NEW r \in Runs, task[w][r].pc # "idle"
    PROVE  /\ task[w][r] \in Task
           /\ run[r] \in RunRow
           /\ run[r].status # "none"
BY DEF Rows, WorkerTypeOK, StoreTypeOK, Claims

LEMMA NewChildType ==
    ASSUME NEW ch \in ChildRow, NEW snap \in 0..MaxAuthority
    PROVE  NewChild(ch, snap) \in ChildRow /\ NewChild(ch, snap).n > ch.n
BY DEF NewChild, ChildRow

LEMMA FreezeChildType ==
    ASSUME NEW ch \in ChildRow, NEW auth \in 0..MaxAuthority
    PROVE  FreezeChild(ch, auth) \in ChildRow
<1>1. [ch EXCEPT !.snap = auth] \in ChildRow
  BY DEF ChildRow
<1> QED BY <1>1, NewChildType DEF FreezeChild

LEMMA AfterOcrType ==
    ASSUME NEW t \in Task, NEW m \in Items, NEW pc \in {"freeze", "rank", "ocr"}
    PROVE  /\ AfterOcr(t, m, pc) \in Task
           /\ AfterOcr(t, m, pc).pc \in {"ocr", "rank", "pipe"} => AfterOcr(t, m, pc).cur \in Items
<1>1. pc \in {"idle"} \cup SyncPc \cup AwaitPc
  BY DEF SyncPc, AwaitPc
<1>2. CASE pc = "freeze"
  <2>1. AfterOcr(t, m, pc) = [t EXCEPT !.pc = pc, !.cur = None, !.todo = t.todo \ {m}]
    BY <1>2 DEF AfterOcr
  <2>2. t.todo \ {m} \in SUBSET Items
    BY DEF Task
  <2> QED BY <1>1, <1>2, <2>1, <2>2 DEF Task
<1>3. CASE pc # "freeze"
  <2>1. AfterOcr(t, m, pc) = [t EXCEPT !.pc = pc, !.cur = m]
    BY <1>3 DEF AfterOcr
  <2> QED BY <1>1, <1>3, <2>1 DEF Task
<1> QED BY <1>2, <1>3

LEMMA ViewType ==
    ASSUME NEW t \in Task, NEW m \in Items, NEW e \in Evidence
    PROVE  [t EXCEPT !.view[m] = e] \in Task
<1>1. [t.view EXCEPT ![m] = e] \in [Items -> Evidence]
  BY DEF Task
<1>2. [t EXCEPT !.view[m] = e] = [t EXCEPT !.view = [t.view EXCEPT ![m] = e]]
  OBVIOUS
<1> QED BY <1>1, <1>2 DEF Task

\* What the look at the stored OCR of a member changes of the task.
LEMMA OcrCheckedType ==
    ASSUME NEW t \in Task, NEW m \in Items
    PROVE  LET e == t.view[m]
               u == OcrChecked(t, m) IN
           /\ u \in Task
           /\ u.pc = t.pc /\ u.age = t.age /\ u.todo = t.todo /\ u.auth = t.auth
           /\ u.view = [t.view EXCEPT ![m] =
                          IF StaleOcr(e, t.auth) THEN Invalidated(e) ELSE e]
<1> DEFINE e == t.view[m]
           n == IF RunsOcr(t, e) THEN t.reruns + 1 ELSE t.reruns
<1>1. e \in Evidence /\ t.view \in [Items -> Evidence] /\ t.reruns \in 0..FreezeOcrRerunCap
  BY DEF Task
<1>2. CASE StaleOcr(e, t.auth)
  <2>1. n \in 0..FreezeOcrRerunCap
    BY <1>1, <1>2, WorkerBoundsAssumption DEF RunsOcr
  <2>2. [t.view EXCEPT ![m] = Invalidated(e)] \in [Items -> Evidence]
    BY <1>1, EvidenceTypes
  <2> DEFINE v == [t.view EXCEPT ![m] = Invalidated(e)]
  <2>3. OcrChecked(t, m) = [t EXCEPT !.view = v, !.reruns = n]
    BY <1>2 DEF OcrChecked
  <2>4. v = [t.view EXCEPT ![m] = IF StaleOcr(e, t.auth) THEN Invalidated(e) ELSE e]
    BY <1>2
  <2> HIDE DEF n, v
  <2> QED BY <2>1, <2>2, <2>3, <2>4 DEF Task, v
<1>3. CASE ~StaleOcr(e, t.auth)
  <2>1. OcrChecked(t, m) = t
    BY <1>3 DEF OcrChecked
  <2>2. t.view = [t.view EXCEPT ![m] = IF StaleOcr(e, t.auth) THEN Invalidated(e) ELSE e]
    BY <1>1, <1>3
  <2> QED BY <2>1, <2>2
<1> QED BY <1>2, <1>3

\* A task that ends, the run and the rows being as they were.
LEMMA EndRows ==
    ASSUME Rows, SameClaims, child' \in [Runs -> [Items -> ChildRow]],
           UNCHANGED <<item, evidence, cohort, batch, authority, observed, faults>>,
           NEW w \in Workers, NEW r \in Runs, Ends(w, r)
    PROVE  Rows'
<1>1. Idle \in Task /\ Idle.pc = "idle"
  BY IdleType DEF Idle
<1>2. Becomes(w, r, Idle)
  BY DEF Ends
<1>3. item' \in [Items -> ItemRow] /\ evidence' \in [Items -> Evidence]
  BY DEF Rows, StoreTypeOK
<1> QED BY <1>1, <1>2, <1>3, TaskStep

LEMMA SupersedeOwn ==
    ASSUME Rows, NEW r \in Runs, run[r].status # "none",
           NEW s \in TerminalStatus,
           run' = RunsWithStatus(r, s), child' = ChildrenFailed(r)
    PROVE  SameClaims /\ child' \in [Runs -> [Items -> ChildRow]]
BY StatusKeeps, ChildrenFailedType DEF Rows

LEMMA FreezeRows ==
    ASSUME Rows, NEW w \in Workers, NEW r \in Runs, Freeze(w, r)
    PROVE  Rows'
<1> DEFINE tk == task[w][r]
<1>0. tk.pc # "idle"
  BY DEF Freeze, FreezeAborts, FreezeLoad, FreezeMember, FreezeBlocked, OcrReturns, RankReturns,
         FreezeCommits, FreezeConflicts, FreezeDrifts, FreezeOwnershipLost, FreezeLosesClaim,
         OcrThrows, FreezeReady, At
<1>a. tk \in Task /\ run[r] \in RunRow /\ run[r].status # "none"
  BY <1>0, BusyTask
<1>b. /\ child \in [Runs -> [Items -> ChildRow]] /\ item \in [Items -> ItemRow]
      /\ evidence \in [Items -> Evidence] /\ authority \in Authorities
      /\ run \in [Runs -> RunRow]
  BY DEF Rows, StoreTypeOK
<1> HIDE DEF tk
<1>1. CASE FreezeAborts(w, r) \/ FreezeOwnershipLost(w, r) \/ FreezeLosesClaim(w, r) \/ OcrThrows(w, r)
  BY <1>1, <1>b, SameRun, EndRows
     DEF FreezeAborts, FreezeOwnershipLost, FreezeLosesClaim, OcrThrows, store
<1>2. CASE FreezeLoad(w, r)
  <2> DEFINE t == [tk EXCEPT !.pc = "freeze", !.todo = Members(r),
                             !.auth = authority, !.view = MemberEvidence(r)]
  <2>1. authority \in 0..MaxAuthority
    BY <1>b, BoundsAssumption DEF Authorities
  <2>2. t \in Task /\ t.pc = "freeze"
    BY <1>a, <2>1, MemberTypes DEF Task, SyncPc
  <2>3. Becomes(w, r, t)
    BY <1>2 DEF FreezeLoad, tk
  <2> HIDE DEF t
  <2> QED BY <1>2, <1>a, <1>b, <2>2, <2>3, SameRun, TaskStep DEF FreezeLoad, store
<1>3. ASSUME NEW m \in Items, FreezeMember(w, r, m) PROVE Rows'
  <2> DEFINE t    == [tk EXCEPT !.age = IF Overdue(w, r) THEN 0 ELSE tk.age]
             ch   == FreezeChild(child[r][m], t.auth)
             seen == t.view[m]
             kept == IF StaleOcr(seen, t.auth) THEN Invalidated(seen) ELSE seen
             t1   == OcrChecked(t, m)
  <2>1. t \in Task
    BY <1>a, IntervalType DEF Task
  <2>2. PICK pc \in {"freeze", "rank", "ocr"} :
          /\ child' = [child EXCEPT ![r][m] = [ch EXCEPT !.used = ch.used \/ pc # "freeze"]]
          /\ evidence' = IF StaleOcr(seen, t.auth)
                         THEN [evidence EXCEPT ![m] = Invalidated(seen)] ELSE evidence
          /\ run' = IF Overdue(w, r) \/ pc # "freeze" THEN RenewedRuns(w, r) ELSE run
          /\ Becomes(w, r, IF pc # "freeze" /\ ~Held(w, r) THEN Idle ELSE AfterOcr(t1, m, pc))
    BY <1>3 DEF FreezeMember, tk
  <2> HIDE DEF t
  <2>3. ch \in ChildRow
    BY <1>b, <2>1, FreezeChildType DEF Task
  <2> HIDE DEF ch
  <2>4. [ch EXCEPT !.used = ch.used \/ pc # "freeze"] \in ChildRow
    BY <2>3 DEF ChildRow
  <2>5. child' \in [Runs -> [Items -> ChildRow]]
    BY <1>b, <2>2, <2>4
  <2>6. seen \in Evidence /\ kept \in Evidence
    BY <2>1, EvidenceTypes DEF Task
  <2>7. evidence' \in [Items -> Evidence]
    BY <1>b, <2>2, <2>6
  <2>8. SameClaims
    BY <2>2, SameRun, RenewKeeps
  <2>9. t1 \in Task
    BY <2>1, OcrCheckedType
  <2> HIDE DEF t1
  <2> DEFINE t2 == IF pc # "freeze" /\ ~Held(w, r) THEN Idle ELSE AfterOcr(t1, m, pc)
  <2>10. t2 \in Task /\ (t2.pc \in {"ocr", "rank", "pipe"} => t2.cur \in Items)
    <3>1. Idle \in Task /\ Idle.pc = "idle"
      BY IdleType DEF Idle
    <3> QED BY <2>9, <3>1, AfterOcrType
  <2>11. Becomes(w, r, t2)
    BY <2>2
  <2> HIDE DEF t2
  <2> QED BY <1>3, <1>a, <1>b, <2>5, <2>7, <2>8, <2>10, <2>11, TaskStep DEF FreezeMember
<1>4. ASSUME NEW m \in Items, FreezeBlocked(w, r, m) PROVE Rows'
  BY <1>4, <1>b, SameRun, RenewKeeps, EndRows DEF FreezeBlocked
<1>5. CASE OcrReturns(w, r)
  <2>1. tk.cur \in Items
    BY <1>5 DEF OcrReturns, At, Rows, Claims, tk
  <2>2. PICK pc \in {"freeze", "rank"} :
          LET e == OcrReplaced(tk.view[tk.cur], tk.auth) IN
          /\ evidence' = [evidence EXCEPT ![tk.cur] = e]
          /\ Becomes(w, r, AfterOcr([tk EXCEPT !.view[tk.cur] = e], tk.cur, pc))
    BY <1>5 DEF OcrReturns, tk
  <2> DEFINE e == OcrReplaced(tk.view[tk.cur], tk.auth)
             t == AfterOcr([tk EXCEPT !.view[tk.cur] = e], tk.cur, pc)
  <2>3. e \in Evidence
    <3>1. tk.view[tk.cur] \in Evidence /\ tk.auth \in 0..MaxAuthority
      BY <1>a, <2>1 DEF Task
    <3> QED BY <3>1, EvidenceTypes
  <2>4. t \in Task /\ (t.pc \in {"ocr", "rank", "pipe"} => t.cur \in Items)
    BY <1>a, <2>1, <2>3, ViewType, AfterOcrType
  <2>5. evidence' \in [Items -> Evidence] /\ Becomes(w, r, t)
    BY <1>b, <2>2, <2>3
  <2>6. SameClaims
    BY <1>5, RenewKeeps DEF OcrReturns
  <2> HIDE DEF t
  <2> QED BY <1>5, <1>a, <1>b, <2>4, <2>5, <2>6, TaskStep DEF OcrReturns
<1>6. CASE RankReturns(w, r)
  <2>1. tk.cur \in Items
    BY <1>6 DEF RankReturns, At, Rows, Claims, tk
  <2>2. SameClaims
    BY <1>6, SameRun, RenewKeeps DEF RankReturns
  <2> DEFINE t == AfterOcr(tk, tk.cur, "freeze")
  <2>3. t \in Task /\ (t.pc \in {"ocr", "rank", "pipe"} => t.cur \in Items)
    BY <1>a, <2>1, AfterOcrType
  <2>4. Becomes(w, r, t)
    BY <1>6 DEF RankReturns, tk
  <2> HIDE DEF t
  <2> QED BY <1>6, <1>a, <1>b, <2>2, <2>3, <2>4, TaskStep DEF RankReturns
<1>7. CASE FreezeCommits(w, r)
  <2>1. PICK brand \in BOOLEAN :
          run' = [run EXCEPT ![r].status = "running", ![r].frozen = FrozenBy(w, r, brand)]
    BY <1>7 DEF FreezeCommits
  <2>2. FrozenBy(w, r, brand) \in Frozen
    BY <1>7, <1>a, <1>b DEF FreezeCommits, NothingMoved, FrozenBy, Frozen, Task, tk
  <2>3. [run[r] EXCEPT !.status = "running", !.frozen = FrozenBy(w, r, brand)] \in RunRow
    BY <1>a, <2>2 DEF RunRow, RunStatus, LiveStatus
  <2>4. SameClaims
    BY <1>a, <1>b, <2>1, <2>3 DEF SameClaims, RunRow
  <2> DEFINE t == [Idle EXCEPT !.pc = "exec", !.age = Interval + 1]
  <2>5. t \in Task /\ t.pc = "exec"
    BY StartType DEF SyncPc
  <2>6. Becomes(w, r, t)
    BY <1>7 DEF FreezeCommits
  <2> HIDE DEF t
  <2> QED BY <1>7, <1>a, <1>b, <2>4, <2>5, <2>6, TaskStep DEF FreezeCommits
<1>8. CASE FreezeConflicts(w, r)
  <2>1. run' = [run EXCEPT ![r].status = "failed", ![r].frozen = FrozenBy(w, r, FALSE)]
    BY <1>8 DEF FreezeConflicts
  <2>2. FrozenBy(w, r, FALSE) \in Frozen
    BY <1>8, <1>a, <1>b DEF FreezeConflicts, NothingMoved, FrozenBy, Frozen, Task, tk
  <2>3. [run[r] EXCEPT !.status = "failed", !.frozen = FrozenBy(w, r, FALSE)] \in RunRow
    BY <1>a, <2>2 DEF RunRow, RunStatus, TerminalStatus, SettledStatus
  <2>4. SameClaims
    BY <1>a, <1>b, <2>1, <2>3 DEF SameClaims, RunRow
  <2>5. child' \in [Runs -> [Items -> ChildRow]]
    BY <1>8, ChildrenFailedType DEF FreezeConflicts, Rows
  <2> QED BY <1>8, <2>4, <2>5, EndRows DEF FreezeConflicts
<1>9. CASE FreezeDrifts(w, r)
  <2>1. SameClaims /\ child' \in [Runs -> [Items -> ChildRow]]
    <3>1. "superseded" \in TerminalStatus
      BY DEF TerminalStatus
    <3> QED BY <1>9, <1>a, <1>b, <3>1, SupersedeOwn, SameRun DEF FreezeDrifts
  <2> QED BY <1>9, <2>1, EndRows DEF FreezeDrifts
<1> QED BY <1>1, <1>2, <1>3, <1>4, <1>5, <1>6, <1>7, <1>8, <1>9 DEF Freeze

-----------------------------------------------------------------------------
(* The execution.                                                          *)

LEMMA NextMemberType ==
    ASSUME NEW t \in Task, NEW m \in Items, NEW b \in BOOLEAN
    PROVE  /\ NextMember(t, m, b) \in Task /\ NextMember(t, m, b).pc = "member"
           /\ [NextMember(t, m, b) EXCEPT !.age = 0] \in Task
           /\ [NextMember(t, m, b) EXCEPT !.age = 0].pc = "member"
           /\ [NextMember(t, m, b) EXCEPT !.done = NextMember(t, m, b).done \cup {m}] \in Task
           /\ [NextMember(t, m, b) EXCEPT !.done = NextMember(t, m, b).done \cup {m}].pc = "member"
<1>1. "member" \in {"idle"} \cup SyncPc \cup AwaitPc
  BY DEF SyncPc
<1>2. t.todo \ {m} \in SUBSET Items /\ (t.failed \/ b) \in BOOLEAN
  BY DEF Task
<1>3. NextMember(t, m, b) \in Task /\ NextMember(t, m, b).pc = "member"
  BY <1>1, <1>2 DEF NextMember, Task
<1>4. 0 \in 0..(Interval + 1)
  BY IntervalType
<1>5. NextMember(t, m, b).done \cup {m} \in SUBSET Items
  BY <1>3 DEF Task
<1> HIDE DEF NextMember
<1> QED BY <1>3, <1>4, <1>5 DEF Task

LEMMA ChildEndedType ==
    ASSUME Rows, NEW r \in Runs, NEW m \in Items, NEW n, NEW st \in {"completed", "failed"}
    PROVE  ChildEnded(r, m, n, st) \in [Runs -> [Items -> ChildRow]]
<1>1. child \in [Runs -> [Items -> ChildRow]]
  BY DEF Rows, StoreTypeOK
<1>2. [child[r][m] EXCEPT !.st = st] \in ChildRow
  BY <1>1 DEF ChildRow
<1>3. [child EXCEPT ![r][m].st = st] = [child EXCEPT ![r][m] = [child[r][m] EXCEPT !.st = st]]
  OBVIOUS
<1> QED BY <1>1, <1>2, <1>3 DEF ChildEnded

LEMMA SupersedeOwnedType ==
    ASSUME Rows, NEW w \in Workers, NEW r \in Runs, run[r].status # "none", SupersedeOwned(w, r)
    PROVE  SameClaims /\ child' \in [Runs -> [Items -> ChildRow]]
<1>1. "superseded" \in TerminalStatus
  BY DEF TerminalStatus
<1>2. child \in [Runs -> [Items -> ChildRow]]
  BY DEF Rows, StoreTypeOK
<1> QED BY <1>1, <1>2, SupersedeOwn, SameRun DEF SupersedeOwned

\* Adding one of its outputs to a renewed run.
LEMMA OutputKeeps ==
    ASSUME Rows, NEW w, NEW r \in Runs, NEW op \in Ops,
           run' = [RenewedRuns(w, r) EXCEPT ![r].outputs = RenewedRuns(w, r)[r].outputs \cup {op}]
    PROVE  SameClaims
<1> DEFINE R == RenewedRuns(w, r)
<1>1. R \in [Runs -> RunRow]
  BY RenewedType DEF Rows
<1>2. \A x \in Runs : /\ R[x].cohort = run[x].cohort /\ R[x].owner = run[x].owner
                     /\ R[x].status = run[x].status /\ R[x].frozen = run[x].frozen
  <2>1. run \in [Runs -> RunRow]
    BY DEF Rows, StoreTypeOK
  <2> QED BY <2>1 DEF RenewedRuns, RunRow
<1> HIDE DEF R
<1>3. [R[r] EXCEPT !.outputs = R[r].outputs \cup {op}] \in RunRow
  <2>1. R[r].outputs \cup {op} \in SUBSET Ops
    BY <1>1 DEF RunRow
  <2> QED BY <1>1, <2>1 DEF RunRow
<1>4. run' = [R EXCEPT ![r] = [R[r] EXCEPT !.outputs = R[r].outputs \cup {op}]]
  BY DEF R
<1>5. run' \in [Runs -> RunRow]
  BY <1>1, <1>3, <1>4
<1> QED BY <1>1, <1>2, <1>4, <1>5 DEF SameClaims, RunRow

LEMMA MemberFailsRows ==
    ASSUME Rows, NEW w \in Workers, NEW r \in Runs, NEW m \in Items, MemberFails(w, r, m),
           task[w][r].pc # "idle", child' \in [Runs -> [Items -> ChildRow]],
           UNCHANGED <<evidence, cohort, batch, authority, observed, faults>>
    PROVE  Rows'
<1> DEFINE t == [NextMember(task[w][r], m, TRUE) EXCEPT !.age = 0]
<1>1. t \in Task /\ t.pc = "member"
  BY BusyTask, NextMemberType
<1>2. Becomes(w, r, t)
  BY DEF MemberFails
<1>3. item' \in [Items -> ItemRow]
  <2>1. item \in [Items -> ItemRow]
    BY DEF Rows, StoreTypeOK
  <2>2. \A i \in ItemRow : [i EXCEPT !.status = "failed"] \in ItemRow
    BY DEF ItemRow
  <2> QED BY <2>1, <2>2 DEF MemberFails
<1>4. SameClaims
  BY RenewKeeps DEF MemberFails
<1>5. evidence' \in [Items -> Evidence]
  BY DEF Rows, StoreTypeOK
<1> HIDE DEF t
<1> QED BY <1>1, <1>2, <1>3, <1>4, <1>5, BusyTask, TaskStep

LEMMA ExecuteRows ==
    ASSUME Rows, NEW w \in Workers, NEW r \in Runs, Execute(w, r)
    PROVE  Rows'
<1> DEFINE tk == task[w][r]
<1>0. tk.pc # "idle"
  BY DEF Execute, ExecLoad, OutputDrift, CopyTitles, CallOp, OpReturns, OpThrows, OpsDone,
         SkipMember, StartMember, MemberRefused, AtMember, PipelineCommits, PipelineFails,
         CheckBrands, Complete, ExecLosesClaim, At, Ops
<1>a. tk \in Task /\ run[r] \in RunRow /\ run[r].status # "none"
  BY <1>0, BusyTask
<1>b. /\ child \in [Runs -> [Items -> ChildRow]] /\ item \in [Items -> ItemRow]
      /\ evidence \in [Items -> Evidence] /\ run \in [Runs -> RunRow]
  BY DEF Rows, StoreTypeOK
<1>c. Interval + 1 \in 0..(Interval + 1) /\ 0 \in 0..(Interval + 1)
  BY IntervalType
<1> HIDE DEF tk
<1>1. CASE OpThrows(w, r) \/ ExecLosesClaim(w, r)
  BY <1>1, <1>b, SameRun, EndRows DEF OpThrows, ExecLosesClaim, store
<1>2. CASE ExecLoad(w, r)
  <2> DEFINE sn == [m \in Items |-> IF m \in Members(r) THEN SeenItem(item[m]) ELSE None]
             t  == [tk EXCEPT !.pc = "ops", !.todo = Members(r), !.age = Interval + 1,
                              !.seen = sn]
  <2>1. sn \in [Items -> Seen \cup {None}]
    BY <1>b DEF SeenItem, Seen, ItemRow
  <2> HIDE DEF sn
  <2>2. t \in Task /\ t.pc = "ops"
    BY <1>a, <1>c, <2>1, MemberTypes DEF Task, SyncPc
  <2>3. Becomes(w, r, t)
    BY <1>2 DEF ExecLoad, tk, sn
  <2> HIDE DEF t
  <2> QED BY <1>2, <1>a, <1>b, <2>2, <2>3, SameRun, TaskStep DEF ExecLoad, store
<1>3. CASE OutputDrift(w, r)
  <2>1. SameClaims /\ child' \in [Runs -> [Items -> ChildRow]]
    BY <1>3, <1>a, SupersedeOwnedType DEF OutputDrift
  <2> QED BY <1>3, <2>1, EndRows DEF OutputDrift
<1>4. CASE CopyTitles(w, r)
  <2>1. SameClaims
    BY <1>4, OutputKeeps DEF CopyTitles, Ops
  <2> QED BY <1>4, <1>b, <2>1, StoreStep
          DEF CopyTitles, worker, Rows, StoreTypeOK, WorkerTypeOK
<1>5. CASE CallOp(w, r)
  <2> DEFINE t == [tk EXCEPT !.pc = NextOp(r)]
  <2>1. t \in Task /\ t.pc \in Ops
    BY <1>a DEF NextOp, Ops, Task, AwaitPc
  <2>2. Becomes(w, r, t) /\ SameClaims
    BY <1>5, RenewKeeps DEF CallOp, tk
  <2>3. t.pc \notin {"ocr", "rank", "pipe"}
    BY <2>1 DEF Ops
  <2> HIDE DEF t
  <2> QED BY <1>5, <1>a, <1>b, <2>1, <2>2, <2>3, TaskStep DEF CallOp
<1>6. CASE OpReturns(w, r)
  <2>1. tk.pc \in Ops
    BY <1>6 DEF OpReturns, tk
  <2>2. CASE tk.pc \in run[r].outputs
    <3>1. SupersedeOwned(w, r) /\ Ends(w, r)
      BY <1>6, <2>2 DEF OpReturns, tk
    <3>2. SameClaims /\ child' \in [Runs -> [Items -> ChildRow]]
      BY <1>a, <3>1, SupersedeOwnedType
    <3> QED BY <1>6, <3>1, <3>2, EndRows DEF OpReturns
  <2>3. CASE tk.pc \notin run[r].outputs
    <3> DEFINE t == [tk EXCEPT !.pc = "ops"]
    <3>1. t \in Task /\ t.pc = "ops"
      BY <1>a DEF Task, SyncPc
    <3>2. /\ run' = [RenewedRuns(w, r) EXCEPT ![r].outputs =
                       RenewedRuns(w, r)[r].outputs \cup {tk.pc}]
          /\ Becomes(w, r, t) /\ child' = child
      BY <1>6, <2>3 DEF OpReturns, tk
    <3>3. SameClaims
      BY <2>1, <3>2, OutputKeeps
    <3> HIDE DEF t
    <3> QED BY <1>6, <1>a, <1>b, <3>1, <3>2, <3>3, TaskStep DEF OpReturns
  <2> QED BY <2>2, <2>3
<1>7. CASE OpsDone(w, r)
  <2> DEFINE t == [tk EXCEPT !.pc = "member", !.age = Interval + 1]
  <2>1. t \in Task /\ t.pc = "member"
    BY <1>a, <1>c DEF Task, SyncPc
  <2>2. Becomes(w, r, t)
    BY <1>7 DEF OpsDone, tk
  <2> HIDE DEF t
  <2> QED BY <1>7, <1>a, <1>b, <2>1, <2>2, SameRun, TaskStep DEF OpsDone, store
<1>8. ASSUME NEW m \in Items, SkipMember(w, r, m) PROVE Rows'
  <2> DEFINE b == tk.seen[m].blocked
             n == NextMember(tk, m, b)
             t == [n EXCEPT !.done = n.done \cup {m}]
  <2>1. b \in BOOLEAN
    BY <1>8, <1>a DEF SkipMember, Committed, Task, Seen, tk
  <2>2. t \in Task /\ t.pc = "member"
    BY <1>a, <2>1, NextMemberType
  <2>3. Becomes(w, r, t)
    BY <1>8 DEF SkipMember, tk
  <2> HIDE DEF t
  <2> QED BY <1>8, <1>a, <1>b, <2>2, <2>3, SameRun, TaskStep DEF SkipMember, store
<1>9. ASSUME NEW m \in Items, StartMember(w, r, m) PROVE Rows'
  <2> DEFINE ch == MemberChild(child[r][m])
             t  == IF ~Held(w, r) THEN Idle
                   ELSE [tk EXCEPT !.pc = "pipe", !.cur = m, !.att = ch.n,
                                   !.age = IF Overdue(w, r) THEN 0 ELSE tk.age]
  <2>1. ch \in ChildRow
    <3>1. child[r][m] \in ChildRow /\ child[r][m].snap \in 0..MaxAuthority
      BY <1>b DEF ChildRow
    <3> QED BY <3>1, NewChildType DEF MemberChild
  <2>2. /\ child' = [child EXCEPT ![r][m] = [ch EXCEPT !.used = TRUE]]
        /\ Becomes(w, r, t)
    BY <1>9 DEF StartMember, tk
  <2> HIDE DEF ch
  <2>3. [ch EXCEPT !.used = TRUE] \in ChildRow /\ ch.n \in Nat
    BY <2>1 DEF ChildRow
  <2>4. child' \in [Runs -> [Items -> ChildRow]]
    BY <1>b, <2>2, <2>3
  <2>5. t \in Task /\ (t.pc \in {"ocr", "rank", "pipe"} => t.cur \in Items)
    <3>1. CASE ~Held(w, r)
      BY <3>1, IdleType DEF Idle
    <3>2. CASE Held(w, r)
      BY <3>2, <1>a, <1>c, <2>3 DEF Task, AwaitPc
    <3> QED BY <3>1, <3>2
  <2>6. SameClaims
    BY <1>9, RenewKeeps DEF StartMember
  <2> HIDE DEF t
  <2> QED BY <1>9, <1>a, <1>b, <2>2, <2>4, <2>5, <2>6, TaskStep DEF StartMember
<1>10. ASSUME NEW m \in Items, MemberRefused(w, r, m) PROVE Rows'
  BY <1>10, <1>0, <1>b, MemberFailsRows DEF MemberRefused, tk
<1>11. CASE PipelineCommits(w, r)
  <2> DEFINE m == tk.cur
  <2>1. m \in Items
    BY <1>11 DEF PipelineCommits, At, Rows, Claims, tk
  <2>2. PICK blocked \in BOOLEAN :
          /\ item' = [item EXCEPT ![m].status = "completed", ![m].ref = <<r, tk.att>>,
                                  ![m].blocked = blocked]
          /\ child' = ChildEnded(r, m, tk.att, "completed")
          /\ Becomes(w, r, [NextMember(tk, m, blocked) EXCEPT
                              !.done = NextMember(tk, m, blocked).done \cup {m}])
    BY <1>11 DEF PipelineCommits, tk
  <2>3. <<r, tk.att>> \in Ref
    BY <1>a DEF Ref, Task
  <2>4. item' \in [Items -> ItemRow]
    <3>1. \A i \in ItemRow, x \in Ref :
            [i EXCEPT !.status = "completed", !.ref = x, !.blocked = blocked] \in ItemRow
      BY <2>2 DEF ItemRow
    <3> HIDE DEF m
    <3> QED BY <1>b, <2>1, <2>2, <2>3, <3>1
  <2>5. child' \in [Runs -> [Items -> ChildRow]]
    BY <2>1, <2>2, ChildEndedType
  <2> DEFINE n == NextMember(tk, m, blocked)
             t == [n EXCEPT !.done = n.done \cup {m}]
  <2>6. t \in Task /\ t.pc = "member"
    BY <1>a, <2>1, NextMemberType
  <2>7. Becomes(w, r, t)
    BY <2>2
  <2>8. SameClaims
    BY <1>11, RenewKeeps DEF PipelineCommits
  <2> HIDE DEF t
  <2> QED BY <1>11, <1>a, <1>b, <2>4, <2>5, <2>6, <2>7, <2>8, TaskStep DEF PipelineCommits
<1>12. CASE PipelineFails(w, r)
  <2>1. tk.cur \in Items
    BY <1>12 DEF PipelineFails, At, Rows, Claims, tk
  <2>2. child' \in [Runs -> [Items -> ChildRow]]
    BY <1>12, <1>b, <2>1, ChildEndedType DEF PipelineFails, tk
  <2> QED BY <1>12, <1>0, <2>1, <2>2, MemberFailsRows DEF PipelineFails, tk
<1>13. CASE CheckBrands(w, r)
  <2> DEFINE t == [tk EXCEPT !.pc = "complete", !.age = 0,
                             !.failed = tk.failed \/ BrandBlocked(w, r) # {}]
  <2>1. t \in Task /\ t.pc = "complete"
    BY <1>a, <1>c DEF Task, SyncPc
  <2>2. Becomes(w, r, t)
    BY <1>13 DEF CheckBrands, tk
  <2>3. item' \in [Items -> ItemRow]
    <3>1. \A i \in ItemRow : [i EXCEPT !.blocked = TRUE] \in ItemRow
      BY DEF ItemRow
    <3> QED BY <1>13, <1>b, <3>1 DEF CheckBrands
  <2>4. SameClaims
    BY <1>13, RenewKeeps DEF CheckBrands
  <2> HIDE DEF t
  <2> QED BY <1>13, <1>a, <1>b, <2>1, <2>2, <2>3, <2>4, TaskStep DEF CheckBrands
<1>14. CASE Complete(w, r)
  <2> DEFINE st == IF tk.failed THEN "member_failures" ELSE "completed"
  <2>1. st \in TerminalStatus
    BY DEF TerminalStatus, SettledStatus
  <2>2. run' = RunsWithStatus(r, st) \/ run' = run
    BY <1>14 DEF Complete, tk
  <2> HIDE DEF st
  <2>3. SameClaims
    BY <1>a, <2>1, <2>2, SameRun, StatusKeeps
  <2> QED BY <1>14, <1>b, <2>3, EndRows DEF Complete
<1> QED BY <1>1, <1>2, <1>3, <1>4, <1>5, <1>6, <1>7, <1>8, <1>9, <1>10, <1>11, <1>12, <1>13,
          <1>14 DEF Execute

-----------------------------------------------------------------------------
(* Crashes, time, and everybody else.                                      *)

LEMMA CrashRows ==
    ASSUME Rows, NEW w \in Workers, Crash(w)
    PROVE  Rows'
<1>1. Idle \in Task /\ Idle.pc = "idle"
  BY IdleType DEF Idle
<1>2. /\ task \in [Workers -> [Runs -> Task]]
      /\ observed \in [Workers -> Observation \cup {None}] /\ faults \in 0..MaxFaults
  BY DEF Rows, WorkerTypeOK
<1>3. /\ task' \in [Workers -> [Runs -> Task]]
      /\ \A v \in Workers, x \in Runs : task'[v][x] = task[v][x] \/ task'[v][x].pc = "idle"
  <2>1. [x \in Runs |-> Idle] \in [Runs -> Task]
    BY <1>1
  <2>2. task' = [task EXCEPT ![w] = [x \in Runs |-> Idle]]
    BY DEF Crash
  <2> QED BY <1>1, <1>2, <2>1, <2>2
<1>4. observed' \in [Workers -> Observation \cup {None}] /\ faults' \in 0..MaxFaults
  BY <1>2, WorkerBoundsAssumption DEF Crash
<1>5. StoreTypeOK' /\ WorkerTypeOK'
  BY <1>3, <1>4 DEF Crash, store, Rows, StoreTypeOK, WorkerTypeOK
<1>6. Claims'
  BY <1>3 DEF Crash, store, Rows, Claims
<1> QED BY <1>5, <1>6 DEF Rows

LEMMA TickRows ==
    ASSUME Rows, NEW S \in SUBSET Workers, Tick(S)
    PROVE  Rows'
<1>1. run \in [Runs -> RunRow] /\ task \in [Workers -> [Runs -> Task]] /\ faults \in 0..MaxFaults
  BY DEF Rows, StoreTypeOK, WorkerTypeOK
<1>2. SameClaims
  <2>1. ASSUME NEW x \in RunRow
        PROVE  /\ [x EXCEPT !.lease = TTL] \in RunRow
               /\ [x EXCEPT !.lease = IF x.lease = 0 THEN 0 ELSE x.lease - 1] \in RunRow
    <3>1. (IF x.lease = 0 THEN 0 ELSE x.lease - 1) \in 0..TTL
      BY BoundsAssumption DEF RunRow
    <3> QED BY <3>1, FullLease DEF RunRow
  <2>2. \A r \in Runs :
          run'[r] \in {run[r], [run[r] EXCEPT !.lease = TTL],
                      [run[r] EXCEPT !.lease = IF run[r].lease = 0 THEN 0 ELSE run[r].lease - 1]}
    BY DEF Tick
  <2>3. run' \in [Runs -> RunRow]
    <3>1. run' = [r \in Runs |-> run'[r]]
      BY DEF Tick
    <3>2. ASSUME NEW r \in Runs PROVE run'[r] \in RunRow
      <4>1. run[r] \in RunRow
        BY <1>1
      <4> QED BY <2>1, <2>2, <4>1
    <3> QED BY <3>1, <3>2
  <2>4. ASSUME NEW r \in Runs
        PROVE  /\ run'[r].status = run[r].status /\ run'[r].owner = run[r].owner
               /\ run'[r].cohort = run[r].cohort /\ run'[r].frozen = run[r].frozen
    <3>1. run[r] \in RunRow
      BY <1>1
    <3> QED BY <2>2, <3>1 DEF RunRow
  <2> QED BY <2>3, <2>4 DEF SameClaims
<1>3. \A v \in Workers, x \in Runs :
        task'[v][x] \in Task /\ task'[v][x].pc = task[v][x].pc /\
        (task[v][x].pc # "idle" => task'[v][x].cur = task[v][x].cur)
  <2> SUFFICES ASSUME NEW v \in Workers, NEW x \in Runs
               PROVE  /\ task'[v][x] \in Task /\ task'[v][x].pc = task[v][x].pc
                      /\ task[v][x].pc # "idle" => task'[v][x].cur = task[v][x].cur
    OBVIOUS
  <2> DEFINE tk == task[v][x]
             l  == tk.lost \/ (KeptBy(S, v, x) /\ ~Held(v, x))
  <2>1. task'[v][x] = IF tk.pc = "idle" THEN Idle
                      ELSE [tk EXCEPT !.age = Older(tk.age), !.lost = l]
    BY DEF Tick
  <2>2. Older(tk.age) \in 0..(Interval + 1)
    BY <1>1, IntervalType DEF Older, Task
  <2>3. l \in BOOLEAN
    BY <1>1 DEF Task
  <2>4. Idle \in Task /\ Idle.pc = "idle"
    BY IdleType DEF Idle
  <2>5. tk \in Task
    BY <1>1
  <2> HIDE DEF l, tk
  <2>6. CASE tk.pc = "idle"
    BY <2>1, <2>4, <2>6 DEF tk
  <2>7. CASE tk.pc # "idle"
    <3>1. /\ [tk EXCEPT !.age = Older(tk.age), !.lost = l] \in Task
          /\ [tk EXCEPT !.age = Older(tk.age), !.lost = l].pc = tk.pc
          /\ [tk EXCEPT !.age = Older(tk.age), !.lost = l].cur = tk.cur
      BY <2>2, <2>3, <2>5 DEF Task
    <3> QED BY <2>1, <2>7, <3>1 DEF tk
  <2> QED BY <2>6, <2>7
<1>4. task' \in [Workers -> [Runs -> Task]]
  <2>1. task' = [v \in Workers |-> [x \in Runs |-> task'[v][x]]]
    BY DEF Tick
  <2> QED BY <1>3, <2>1
<1>5. faults' \in 0..MaxFaults
  <2>1. Cardinality(S) \in Nat
    BY WorkersAssumption, FS_Subset, FS_CardinalityType
  <2>2. faults' = faults + Cardinality(S) /\ faults + Cardinality(S) <= MaxFaults
    BY DEF Tick
  <2> QED BY <1>1, <2>1, <2>2, WorkerBoundsAssumption
<1>6. StoreTypeOK' /\ WorkerTypeOK'
  BY <1>2, <1>4, <1>5 DEF Tick, Rows, StoreTypeOK, WorkerTypeOK, SameClaims
<1>7. Claims'
  BY <1>2, <1>3 DEF Rows, Claims, SameClaims
<1> QED BY <1>6, <1>7 DEF Rows

\* A step that writes items, and possibly their evidence, and nothing else.
LEMMA ItemStep ==
    ASSUME Rows, item' \in [Items -> ItemRow], evidence' \in [Items -> Evidence],
           UNCHANGED <<run, child, cohort, batch, authority, worker>>
    PROVE  Rows'
BY SameRun, StoreStep DEF worker, Rows, StoreTypeOK, WorkerTypeOK

LEMMA ReviewRows ==
    ASSUME Rows, NEW m \in Items,
           AutoAdvance(m) \/ Advance(m) \/ TryReview(m) \/ CompleteReview(m) \/ Approve(m)
    PROVE  Rows'
<1>1. item \in [Items -> ItemRow] /\ evidence \in [Items -> Evidence]
  BY DEF Rows, StoreTypeOK
<1>2. ASSUME NEW i \in ItemRow
      PROVE  /\ [i EXCEPT !.stage = "review", !.status = "pending"] \in ItemRow
             /\ [i EXCEPT !.stage = "promotion", !.status = "pending"] \in ItemRow
             /\ [i EXCEPT !.accepted = i.ref] \in ItemRow
             /\ [i EXCEPT !.status = "completed", !.accepted = i.ref, !.reviewed = i.ref,
                          !.approved = FALSE] \in ItemRow
             /\ [i EXCEPT !.approved = TRUE] \in ItemRow
  <2>1. /\ [i EXCEPT !.stage = "review", !.status = "pending"] \in ItemRow
        /\ [i EXCEPT !.stage = "promotion", !.status = "pending"] \in ItemRow
    BY DEF ItemRow
  <2>2. [i EXCEPT !.accepted = i.ref] \in ItemRow
    BY DEF ItemRow
  <2>3. [i EXCEPT !.status = "completed", !.accepted = i.ref, !.reviewed = i.ref,
                  !.approved = FALSE] \in ItemRow
    BY DEF ItemRow
  <2>4. [i EXCEPT !.approved = TRUE] \in ItemRow
    BY DEF ItemRow
  <2> QED BY <2>1, <2>2, <2>3, <2>4
<1>3. Onward(m, "review") \in [Items -> ItemRow] /\ Onward(m, "promotion") \in [Items -> ItemRow]
  BY <1>1, <1>2 DEF Onward
<1>4. item' \in [Items -> ItemRow]
  <2>1. CASE AutoAdvance(m) \/ Advance(m)
    BY <1>3, <2>1 DEF AutoAdvance, Advance
  <2>2. CASE TryReview(m)
    BY <1>1, <1>2, <2>2 DEF TryReview
  <2>3. CASE CompleteReview(m)
    BY <1>1, <1>2, <2>3 DEF CompleteReview
  <2>4. CASE Approve(m)
    BY <1>2, <1>3, <2>4 DEF Approve
  <2> QED BY <2>1, <2>2, <2>3, <2>4
<1>5. UNCHANGED <<run, child, evidence, cohort, batch, authority, worker>>
  BY DEF AutoAdvance, Advance, TryReview, CompleteReview, Approve
<1> QED BY <1>1, <1>4, <1>5, ItemStep

LEMMA OperateRows ==
    ASSUME Rows, Operate
    PROVE  Rows'
<1>1. /\ item \in [Items -> ItemRow] /\ evidence \in [Items -> Evidence]
      /\ child \in [Runs -> [Items -> ChildRow]] /\ authority \in Authorities
      /\ cohort \in [Cohorts -> {"none", "waiting", "ready", "superseded"}]
      /\ observed \in [Workers -> Observation \cup {None}] /\ batch \in BOOLEAN
  BY DEF Rows, StoreTypeOK, WorkerTypeOK
<1>2. \A i \in ItemRow : CurationReset(i) \in ItemRow
  BY DEF CurationReset, ItemRow
<1>3. ASSUME NEW m \in Items, Review(m) PROVE Rows'
  BY <1>3, ReviewRows DEF Review
<1>4. ASSUME NEW m \in Items, ResetItem(m) PROVE Rows'
  <2>1. child' \in [Runs -> [Items -> ChildRow]]
    <3>1. \A ch \in ChildRow : FailedChild(ch) \in ChildRow
      BY DEF FailedChild, ChildRow
    <3> QED BY <1>1, <1>4, <3>1 DEF ResetItem, ItemChildrenFailed
  <2>2. item' \in [Items -> ItemRow]
    <3>1. \A i \in ItemRow : [i EXCEPT !.status = "pending"] \in ItemRow
      BY DEF ItemRow
    <3> QED BY <1>1, <1>2, <1>4, <3>1 DEF ResetItem
  <2> QED BY <1>1, <1>4, <2>1, <2>2, SameRun, StoreStep DEF ResetItem, worker
<1>5. ASSUME NEW m \in Items, EditEvidence(m) PROVE Rows'
  <2>1. evidence' \in [Items -> Evidence]
    <3>1. evidence[m].edit + 1 \in 0..MaxEdits
      BY <1>1, <1>5, BoundsAssumption DEF EditEvidence, Evidence
    <3>2. [evidence[m] EXCEPT !.edit = evidence[m].edit + 1] \in Evidence
      BY <1>1, <3>1 DEF Evidence
    <3> QED BY <1>1, <1>5, <3>2 DEF EditEvidence
  <2>2. item' \in [Items -> ItemRow]
    <3>1. ASSUME NEW i \in ItemRow PROVE Unreviewed(i) \in ItemRow
      <4>1. [i EXCEPT !.reviewed = None, !.approved = FALSE] \in ItemRow
        BY DEF ItemRow
      <4>2. [i EXCEPT !.reviewed = None, !.approved = FALSE, !.stage = "review",
                      !.status = "pending"] \in ItemRow
        BY DEF ItemRow
      <4> QED BY <4>1, <4>2 DEF Unreviewed
    <3> QED BY <1>1, <1>5, <3>1 DEF EditEvidence
  <2> QED BY <1>5, <2>1, <2>2, ItemStep DEF EditEvidence
<1>6. ASSUME NEW c \in Cohorts, NEW r \in Runs, Rerun(c, r) PROVE Rows'
  <2>1. run[r].status # "none" /\ "superseded" \in TerminalStatus
    BY <1>6 DEF Rerun, IsCurrent, TerminalStatus
  <2>2. SameClaims /\ child' \in [Runs -> [Items -> ChildRow]]
    BY <1>6, <2>1, SupersedeOwn DEF Rerun
  <2>3. item' \in [Items -> ItemRow]
    BY <1>1, <1>2, <1>6 DEF Rerun, MembersReset
  <2> QED BY <1>1, <1>6, <2>2, <2>3, StoreStep DEF Rerun, worker
<1>7. ASSUME NEW c \in Cohorts, CohortWaits(c) \/ CohortReady(c) \/ Regroup(c) PROVE Rows'
  <2>1. cohort' \in [Cohorts -> {"none", "waiting", "ready", "superseded"}]
    BY <1>1, <1>7 DEF CohortWaits, CohortReady, Regroup
  <2> QED BY <1>1, <1>7, <2>1, SameRun, StoreStep DEF CohortWaits, CohortReady, Regroup, worker
<1>8. CASE ChangeAuthority
  <2>1. authority' \in Authorities
    BY <1>1, <1>8, BoundsAssumption DEF ChangeAuthority, Authorities
  <2> QED BY <1>1, <1>8, <2>1, SameRun, StoreStep DEF ChangeAuthority, worker
<1>9. CASE PauseBatch \/ ResumeBatch
  BY <1>1, <1>9, SameRun, StoreStep DEF PauseBatch, ResumeBatch, worker
<1> QED BY <1>3, <1>4, <1>5, <1>6, <1>7, <1>8, <1>9 DEF Operate

-----------------------------------------------------------------------------
(* Type correctness.                                                       *)

RowsAndMoves == Rows /\ moves \in 0..MaxMoves

LEMMA InitRows == Init => RowsAndMoves
<1> SUFFICES ASSUME Init PROVE RowsAndMoves
  OBVIOUS
<1>1. NoRun \in RunRow /\ NoRun.status = "none"
  BY BoundsAssumption DEF NoRun, RunRow, RunStatus, Ops
<1>2. NoChild \in ChildRow
  BY BoundsAssumption DEF NoChild, ChildRow
<1>3. NewItem \in ItemRow
  BY DEF NewItem, ItemRow
<1>4. StoreTypeOK
  BY <1>1, <1>2, <1>3, EvidenceTypes, BoundsAssumption DEF Init, StoreInit, StoreTypeOK, Authorities
<1>5. Idle.pc = "idle"
  BY DEF Idle
<1>6. WorkerTypeOK
  BY IdleType, WorkerBoundsAssumption DEF Init, WorkerInit, WorkerTypeOK
<1>7. Claims
  BY <1>1, <1>5 DEF Init, StoreInit, WorkerInit, Claims
<1>8. moves \in 0..MaxMoves
  BY MovesAssumption DEF Init
<1> QED BY <1>4, <1>6, <1>7, <1>8 DEF RowsAndMoves, Rows

LEMMA NextRows == RowsAndMoves /\ [Next]_vars => RowsAndMoves'
<1> SUFFICES ASSUME RowsAndMoves, [Next]_vars PROVE RowsAndMoves'
  OBVIOUS
<1>1. Rows /\ moves \in 0..MaxMoves
  BY DEF RowsAndMoves
<1>2. moves' \in 0..MaxMoves
  BY <1>1, MovesAssumption
     DEF Next, vars, Operate, Review, ResetItem, EditEvidence, CohortWaits, CohortReady, Regroup,
         Rerun, ChangeAuthority, PauseBatch, ResumeBatch, Move
<1>3. CASE \E w \in Workers : Poll(w)
  BY <1>1, <1>2, <1>3, PollRows DEF RowsAndMoves
<1>4. CASE \E w \in Workers, r \in Runs : Work(w, r)
  <2> SUFFICES ASSUME NEW w \in Workers, NEW r \in Runs, Work(w, r) PROVE Rows'
    BY <1>2, <1>4 DEF RowsAndMoves
  <2>1. CASE LostDuringCall(w, r)
    BY <1>1, <2>1, SameRun, EndRows DEF LostDuringCall, store, Rows, StoreTypeOK
  <2> QED BY <1>1, <2>1, FreezeRows, ExecuteRows DEF Work
<1>5. CASE \E m \in Items : AutoAdvance(m)
  BY <1>1, <1>2, <1>5, ReviewRows DEF RowsAndMoves
<1>6. CASE Operate
  BY <1>1, <1>2, <1>6, OperateRows DEF RowsAndMoves
<1>7. CASE \E w \in Workers : Crash(w)
  BY <1>1, <1>2, <1>7, CrashRows DEF RowsAndMoves
<1>8. CASE \E S \in SUBSET Workers : Tick(S)
  BY <1>1, <1>2, <1>8, TickRows DEF RowsAndMoves
<1>9. CASE UNCHANGED vars
  BY <1>1, <1>2, <1>9 DEF RowsAndMoves, Rows, StoreTypeOK, WorkerTypeOK, Claims, vars, store, worker
<1> QED BY <1>3, <1>4, <1>5, <1>6, <1>7, <1>8, <1>9 DEF Next

\* Every row and every task has its shape, whatever the number of workers,
\* items, families and runs, and whatever is crashed, stalled or disturbed.
THEOREM TypeCorrect == Spec => []TypeOK
<1>1. RowsAndMoves => TypeOK
  BY DEF RowsAndMoves, Rows, TypeOK
<1> QED BY <1>1, InitRows, NextRows, PTL DEF Spec
=============================================================================

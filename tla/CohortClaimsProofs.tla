------------------------- MODULE CohortClaimsProofs -------------------------
(***************************************************************************)
(* The theorems about what a run freezes, executes and commits, whoever    *)
(* resumes it and however often.  A task that kept its claim is alone in   *)
(* writing for its run: everybody else leaves the children and the items   *)
(* of the run as they are, but for the marks of an operator (Aside).  So   *)
(* what the task has walked through, what it remembers of its items and    *)
(* what it is about to commit stay true until it acts itself.              *)
(***************************************************************************)
EXTENDS CohortClaims, CohortSafetyProofs

FreezePc == {"freeze", "ocr", "rank"}
LoopPc   == {"ops", "member", "pipe", "complete"} \cup Ops

Underway(r) == run[r].status \notin {"none", "freezing"}

\* A task nobody has taken the run from since it began, and one whose run is
\* live and was never written for by a task of an earlier claim.
Fresh(w, r) == task[w][r].pc # "idle" /\ ~taken[w][r]
Good(w, r)  == Fresh(w, r) /\ Live(r) /\ ~astray[r]

\* m stands completed in what r committed for it.
Stands(r, m) == CommittedBy(r, m) /\ item[m].status = "completed"

-----------------------------------------------------------------------------
(* The history variables.                                                  *)

FreshOwns == \A w \in Workers, r \in Runs : Fresh(w, r) => run[r].owner = w

\* All that a step does to them.
Marks ==
    /\ \A w \in Workers, r \in Runs : task'[w][r].pc # "idle" /\ ~taken'[w][r] =>
         run'[r].owner = w /\ ~taken[w][r]
    /\ \A r \in Runs : ~astray'[r] =>
         ~astray[r] /\ \A w \in Workers : taken[w][r] => ~Writes(w, r)
    /\ \A r \in Runs : ~crossed'[r] => ~crossed[r] /\ ~BlockedFor(r)

LEMMA StepMarks ==
    ASSUME FreshOwns, [HistoryNext]_claimVars
    PROVE  Marks
<1>1. CASE HistoryNext
  BY <1>1 DEF HistoryNext, Marks
<1>2. CASE UNCHANGED claimVars
  <2>1. UNCHANGED <<run, child, item, evidence, task, taken, astray, crossed>>
    BY <1>2 DEF claimVars, vars, store, worker
  <2>2. \A r \in Runs : ~BlockedFor(r)
    BY <2>1 DEF BlockedFor
  <2>3. \A w \in Workers, r \in Runs : ~Writes(w, r)
    BY <2>1 DEF Writes
  <2> QED BY <2>1, <2>2, <2>3 DEF Marks, FreshOwns, Fresh
<1> QED BY <1>1, <1>2

-----------------------------------------------------------------------------
(* What a step that is not the fresh task's own does to a run.             *)

Stays(w, r) ==
    LET t == task[w][r]
        u == task'[w][r]
    IN  /\ u.pc = t.pc /\ u.todo = t.todo /\ u.cur = t.cur /\ u.att = t.att
        /\ u.auth = t.auth /\ u.view = t.view
        /\ u.seen = t.seen /\ u.failed = t.failed

Starts(w, r) ==
    /\ task[w][r].pc = "idle"
    /\ \/ task'[w][r].pc = "load" /\ run'[r].status = "freezing"
       \/ task'[w][r].pc = "exec" /\ run'[r].status = "running"

RunAside(r) ==
    /\ run'[r].frozen = run[r].frozen
    /\ run[r].status = "none" => run'[r].status \in {"none", "freezing"}
    /\ run[r].status # "none" => /\ run'[r].cohort = run[r].cohort
                                 /\ run'[r].status \in {run[r].status, "superseded"}

ChildAside(r) ==
    \A m \in Items : child'[r][m] \in {child[r][m], FailedChild(child[r][m])}

ItemsAside(r) ==
    \A m \in Items : item'[m].ref # None /\ item'[m].ref[1] = r =>
        /\ item'[m].ref = item[m].ref
        /\ item'[m].status = "completed" /\ Live(r) => item[m].status = "completed"
        /\ item'[m].blocked = item[m].blocked \/ crossed'[r]

Aside(r) == RunAside(r) /\ ChildAside(r) /\ ItemsAside(r)

\* A step of no task.
Background ==
    /\ \A r \in Runs : Aside(r)
    /\ \A w \in Workers, r \in Runs : Stays(w, r) \/ task'[w][r].pc = "idle" \/ Starts(w, r)
    /\ authority <= authority'

LEMMA RunsAside ==
    ASSUME Rows, Blank, RunStep, NEW r \in Runs
    PROVE  RunAside(r)
<1>1. run \in [Runs -> RunRow] /\ run[r] \in RunRow
  BY DEF Rows, StoreTypeOK
<1>2. ASSUME NEW x \in Runs, NEW c \in Cohorts, NEW w \in Workers, ClaimStep(x, c, w)
      PROVE  RunAside(r)
  <2>1. CASE x = r
    <3>1. run'[r] = ClaimedRun(c, w) /\ run[r] = NoRun
      BY <1>1, <1>2, <2>1 DEF ClaimStep, Blank
    <3> QED BY <3>1 DEF ClaimedRun, NoRun, RunAside
  <2>2. CASE x # r
    BY <1>1, <1>2, <2>2 DEF ClaimStep, RunAside
  <2> QED BY <2>1, <2>2
<1>3. ASSUME NEW x \in Runs, NEW w \in Workers, ResumeStep(x, w) PROVE RunAside(r)
  BY <1>1, <1>3 DEF ResumeStep, ResumedRuns, RunRow, RunAside
<1>4. ASSUME NEW x \in Runs, SupersedeStep(x) PROVE RunAside(r)
  <2>1. run[x].status # "none"
    BY <1>4 DEF SupersedeStep, Expired, Settled, Live, LiveStatus, SettledStatus
  <2> QED BY <1>1, <1>4, <2>1 DEF SupersedeStep, RunsWithStatus, RunRow, RunAside
<1>5. CASE run' = run
  BY <1>5 DEF RunAside
<1> QED BY <1>2, <1>3, <1>4, <1>5 DEF RunStep

LEMMA TickAside ==
    ASSUME Rows, TickStep, NEW r \in Runs
    PROVE  RunAside(r)
<1>1. run[r] \in RunRow
  BY DEF Rows, StoreTypeOK
<1> QED BY <1>1, TickRuns DEF RunAside, Live, LiveStatus

\* Children and items as they are: nothing to say.
LEMMA SameAside ==
    ASSUME NEW r \in Runs, child'[r] = child[r], item' = item
    PROVE  ChildAside(r) /\ ItemsAside(r)
BY DEF ChildAside, ItemsAside

LEMMA FailedAside ==
    ASSUME Rows, NEW r \in Runs, child' = ChildrenFailed(r), NEW x \in Runs
    PROVE  ChildAside(x)
<1>1. child \in [Runs -> [Items -> ChildRow]]
  BY DEF Rows, StoreTypeOK
<1> QED BY <1>1 DEF ChildrenFailed, ChildAside

\* Tasks of nobody's step.
LEMMA SameStays == ASSUME NEW w \in Workers, NEW r \in Runs, task'[w][r] = task[w][r] PROVE Stays(w, r)
BY DEF Stays

LEMMA DispatchStarts ==
    ASSUME Rows, NEW w \in Workers, NEW r \in Runs, NEW s \in LiveStatus, Dispatch(w, r, s),
           run'[r].status = s
    PROVE  \A v \in Workers, x \in Runs : Stays(v, x) \/ Starts(v, x)
<1> DEFINE t == [Idle EXCEPT !.pc = IF s = "freezing" THEN "load" ELSE "exec",
                             !.age = Interval + 1]
<1>1. task \in [Workers -> [Runs -> Task]]
  BY DEF Rows, WorkerTypeOK
<1>2. t.pc = IF s = "freezing" THEN "load" ELSE "exec"
  BY DEF Idle
<1>3. task' = task \/ (task[w][r].pc = "idle" /\ task' = [task EXCEPT ![w][r] = t])
  BY DEF Dispatch, Becomes
<1> HIDE DEF t
<1>4. ASSUME NEW v \in Workers, NEW x \in Runs PROVE Stays(v, x) \/ Starts(v, x)
  <2>1. task'[v][x] = task[v][x] \/ (v = w /\ x = r /\ task[w][r].pc = "idle" /\ task'[v][x] = t)
    BY <1>1, <1>3
  <2> QED BY <1>2, <2>1, SameStays DEF Starts, LiveStatus
<1> QED BY <1>4

LEMMA PollBackground ==
    ASSUME Safe, NEW w \in Workers, Poll(w)
    PROVE  Background
<1>1. Rows /\ Blank /\ authority \in Nat
  BY DEF Safe, RowsAndMoves, Rows, StoreTypeOK, Authorities
<1>2. \A r \in Runs : RunAside(r)
  BY <1>1, PollStep, RunsAside DEF BystanderStep
<1>3. item' = item /\ authority' = authority
  BY DEF Poll, ReclaimResume, ReclaimSupersede, Observe, Reconcile, Claim, store
<1>4. \A r \in Runs : ChildAside(r)
  <2>1. CASE \E r \in Runs : child' = ChildrenFailed(r)
    BY <1>1, <2>1, FailedAside
  <2>2. CASE child' = child
    BY <2>2 DEF ChildAside
  <2>3. ReclaimSupersede(w) => child' = child \/ \E r \in Runs : child' = ChildrenFailed(r)
    BY <1>1 DEF ReclaimSupersede, Rows, WorkerTypeOK, Observation
  <2> QED BY <2>1, <2>2, <2>3 DEF Poll, ReclaimResume, Observe, Reconcile, Claim, store
<1>5. \A v \in Workers, x \in Runs : Stays(v, x) \/ Starts(v, x)
  <2>1. CASE task' = task
    BY <2>1, SameStays
  <2>2. ASSUME NEW c \in Cohorts, Claim(w, c) PROVE \A v \in Workers, x \in Runs : Stays(v, x) \/ Starts(v, x)
    <3>1. PICK r \in Runs : run' = [run EXCEPT ![r] = ClaimedRun(c, w)] /\ Dispatch(w, r, "freezing")
      BY <2>2 DEF Claim
    <3>2. run'[r].status = "freezing" /\ "freezing" \in LiveStatus
      BY <1>1, <3>1 DEF ClaimedRun, NoRun, Rows, StoreTypeOK, LiveStatus
    <3> QED BY <1>1, <3>1, <3>2, DispatchStarts
  <2>3. CASE ReclaimResume(w) /\ Unchanged(observed[w])
    <3> DEFINE o == observed[w]
    <3>1. o \in Observation /\ run' = ResumedRuns(o.run, w) /\ Dispatch(w, o.run, o.status)
      BY <1>1, <2>3 DEF ReclaimResume, Rows, WorkerTypeOK
    <3>2. o.run \in Runs /\ o.status \in LiveStatus /\ run[o.run].status = o.status
      BY <2>3, <3>1 DEF Observation, Unchanged
    <3>3. run \in [Runs -> RunRow] /\ run[o.run] \in RunRow
      BY <1>1, <3>2 DEF Rows, StoreTypeOK
    <3>4. run'[o.run].status = o.status
      BY <3>1, <3>2, <3>3 DEF ResumedRuns, RunRow
    <3> HIDE DEF o
    <3> QED BY <1>1, <3>1, <3>2, <3>4, DispatchStarts
  <2>4. CASE ReclaimResume(w) /\ ~Unchanged(observed[w])
    BY <2>1, <2>4 DEF ReclaimResume
  <2> QED BY <2>1, <2>2, <2>3, <2>4 DEF Poll, ReclaimSupersede, Observe, Reconcile, worker
<1> QED BY <1>1, <1>2, <1>3, <1>4, <1>5, SameAside DEF Background, Aside, ItemsAside

\* An operator's step keeps what an item refers to, or clears it; it lets an
\* item stand again only when the run behind it is decided.
ItemKept(m) ==
    item'[m].ref # None =>
        /\ item'[m].ref = item[m].ref /\ item'[m].blocked = item[m].blocked
        /\ item'[m].status = "completed" =>
             item[m].status = "completed" \/ ~Live(item[m].ref[1])

LEMMA KeptItems ==
    ASSUME \A m \in Items : ItemKept(m), NEW r \in Runs
    PROVE  ItemsAside(r)
BY DEF ItemKept, ItemsAside

\* One row of the table is replaced.
LEMMA OneItem ==
    ASSUME Rows, NEW m \in Items, NEW i, item' = [item EXCEPT ![m] = i],
           i.ref # None => /\ i.ref = item[m].ref /\ i.blocked = item[m].blocked
                           /\ i.status = "completed" =>
                                item[m].status = "completed" \/ ~Live(item[m].ref[1])
    PROVE  \A n \in Items : ItemKept(n)
<1>1. \A n \in Items : item'[n] = IF n = m THEN i ELSE item[n]
  BY DEF Rows, StoreTypeOK
<1> QED BY <1>1 DEF ItemKept

LEMMA ReviewItems ==
    ASSUME Rows, NEW m \in Items,
           AutoAdvance(m) \/ Advance(m) \/ TryReview(m) \/ CompleteReview(m) \/ Approve(m)
    PROVE  \A n \in Items : ItemKept(n)
<1> DEFINE i == item[m]
<1>1. i \in ItemRow
  BY DEF Rows, StoreTypeOK
<1>2. ASSUME NEW stage \in {"review", "promotion"}
      PROVE  LET j == [i EXCEPT !.stage = stage, !.status = "pending"]
             IN  j.ref = i.ref /\ j.blocked = i.blocked /\ j.status = "pending"
                 /\ Onward(m, stage) = [item EXCEPT ![m] = j]
  BY <1>1 DEF ItemRow, Onward
<1>3. CASE AutoAdvance(m) \/ Advance(m)
  <2>1. PICK stage \in {"review", "promotion"} : item' = Onward(m, stage)
    BY <1>3 DEF AutoAdvance, Advance
  <2> QED BY <1>2, <2>1, OneItem
<1>4. CASE TryReview(m)
  <2>1. LET j == [i EXCEPT !.accepted = i.ref]
        IN  j.ref = i.ref /\ j.blocked = i.blocked /\ j.status = i.status
            /\ item' = [item EXCEPT ![m] = j]
    BY <1>1, <1>4 DEF ItemRow, TryReview
  <2> QED BY <2>1, OneItem
<1>5. CASE CompleteReview(m)
  <2>1. LET j == [i EXCEPT !.status = "completed", !.accepted = i.ref, !.reviewed = i.ref,
                           !.approved = FALSE]
        IN  j.ref = i.ref /\ j.blocked = i.blocked /\ item' = [item EXCEPT ![m] = j]
    BY <1>1, <1>5 DEF ItemRow, CompleteReview
  <2>2. ~Live(i.ref[1])
    BY <1>5 DEF CompleteReview, ReviewGate, ParentReviewable, Live, LiveStatus
  <2> QED BY <2>1, <2>2, OneItem
<1>6. CASE Approve(m)
  <2>1. item' = [Onward(m, "promotion") EXCEPT ![m].approved = TRUE]
    BY <1>6 DEF Approve
  <2>2. LET j == [i EXCEPT !.stage = "promotion", !.status = "pending", !.approved = TRUE]
        IN  j.ref = i.ref /\ j.blocked = i.blocked /\ j.status = "pending"
            /\ item' = [item EXCEPT ![m] = j]
    BY <1>1, <2>1 DEF ItemRow, Onward, Rows, StoreTypeOK
  <2> QED BY <2>2, OneItem
<1> QED BY <1>3, <1>4, <1>5, <1>6

LEMMA ResetsItem ==
    /\ \A i \in ItemRow : CurationReset(i).ref = None
    /\ \A i \in ItemRow : LET j == [i EXCEPT !.status = "pending"]
                          IN  j.ref = i.ref /\ j.blocked = i.blocked /\ j.status = "pending"
BY DEF CurationReset, ItemRow

LEMMA UnreviewsItem ==
    \A i \in ItemRow : /\ Unreviewed(i).ref = i.ref /\ Unreviewed(i).blocked = i.blocked
                       /\ Unreviewed(i).status \in {i.status, "pending"}
<1> SUFFICES ASSUME NEW i \in ItemRow
             PROVE  /\ Unreviewed(i).ref = i.ref /\ Unreviewed(i).blocked = i.blocked
                    /\ Unreviewed(i).status \in {i.status, "pending"}
  OBVIOUS
<1>1. CASE i.stage = "promotion" /\ i.approved /\ i.reviewed # None
  BY <1>1 DEF Unreviewed, ItemRow
<1>2. CASE ~(i.stage = "promotion" /\ i.approved /\ i.reviewed # None) /\ i.reviewed # None
  <2>1. Unreviewed(i) = [i EXCEPT !.reviewed = None, !.approved = FALSE]
    BY <1>2 DEF Unreviewed
  <2> QED BY <2>1 DEF ItemRow
<1>3. CASE i.reviewed = None
  BY <1>3 DEF Unreviewed
<1> QED BY <1>1, <1>2, <1>3

LEMMA OperateItems ==
    ASSUME Rows, Operate \/ \E m \in Items : AutoAdvance(m)
    PROVE  \A n \in Items : ItemKept(n)
<1>1. item \in [Items -> ItemRow]
  BY DEF Rows, StoreTypeOK
<1>2. CASE \E m \in Items : AutoAdvance(m) \/ Review(m)
  BY <1>2, ReviewItems DEF Review
<1>3. ASSUME NEW m \in Items, ResetItem(m) PROVE \A n \in Items : ItemKept(n)
  <2> DEFINE i == item[m]
  <2>1. item' = [item EXCEPT ![m] = IF i.stage = "curation" THEN CurationReset(i)
                                    ELSE [i EXCEPT !.status = "pending"]]
    BY <1>3 DEF ResetItem
  <2>2. CASE i.stage = "curation"
    <3>1. item' = [item EXCEPT ![m] = CurationReset(i)] /\ CurationReset(i).ref = None
      BY <1>1, <2>1, <2>2, ResetsItem
    <3> QED BY <3>1, OneItem
  <2>3. CASE i.stage # "curation"
    <3> DEFINE j == [i EXCEPT !.status = "pending"]
    <3>1. item' = [item EXCEPT ![m] = j]
      BY <2>1, <2>3
    <3>2. j.ref = i.ref /\ j.blocked = i.blocked /\ j.status = "pending"
      BY <1>1, ResetsItem
    <3> HIDE DEF j
    <3> QED BY <3>1, <3>2, OneItem
  <2> QED BY <2>2, <2>3
<1>4. ASSUME NEW m \in Items, EditEvidence(m) PROVE \A n \in Items : ItemKept(n)
  <2> DEFINE j == Unreviewed(item[m])
  <2>1. item' = [item EXCEPT ![m] = j]
    BY <1>4 DEF EditEvidence
  <2>2. j.ref = item[m].ref /\ j.blocked = item[m].blocked /\ j.status \in {item[m].status, "pending"}
    BY <1>1, UnreviewsItem
  <2> HIDE DEF j
  <2> QED BY <2>1, <2>2, OneItem
<1>5. ASSUME NEW c \in Cohorts, NEW r \in Runs, Rerun(c, r) PROVE \A n \in Items : ItemKept(n)
  <2>1. \A n \in Items : item'[n] = item[n] \/ item'[n] = CurationReset(item[n])
    BY <1>5 DEF Rerun, MembersReset
  <2> QED BY <1>1, <2>1, ResetsItem DEF ItemKept
<1>6. CASE item' = item
  BY <1>6 DEF ItemKept
<1> QED BY <1>2, <1>3, <1>4, <1>5, <1>6 DEF Operate, CohortWaits, CohortReady, Regroup,
        ChangeAuthority, PauseBatch, ResumeBatch

LEMMA OperateBackground ==
    ASSUME Safe, Operate \/ \E m \in Items : AutoAdvance(m)
    PROVE  Background
<1>1. Rows /\ Blank /\ authority \in Nat
  BY DEF Safe, RowsAndMoves, Rows, StoreTypeOK, Authorities
<1>2. \A r \in Runs : RunAside(r)
  BY <1>1, OperateStep, RunsAside DEF BystanderStep
<1>3. \A r \in Runs : ItemsAside(r)
  BY <1>1, OperateItems, KeptItems
<1>4. \A r \in Runs : ChildAside(r)
  <2>1. CASE \E r \in Runs : child' = ChildrenFailed(r)
    BY <1>1, <2>1, FailedAside
  <2>2. CASE child' = child
    BY <2>2 DEF ChildAside
  <2>3. CASE \E m \in Items : child' = ItemChildrenFailed(m)
    <3>1. child \in [Runs -> [Items -> ChildRow]]
      BY <1>1 DEF Rows, StoreTypeOK
    <3> QED BY <2>3, <3>1 DEF ItemChildrenFailed, ChildAside
  <2> QED BY <2>1, <2>2, <2>3 DEF AutoAdvance, Operate, Review, Advance, TryReview,
          CompleteReview, Approve, ResetItem, EditEvidence, CohortWaits, CohortReady, Regroup,
          Rerun, ChangeAuthority, PauseBatch, ResumeBatch
<1>5. task' = task
  BY DEF AutoAdvance, Operate, Review, Advance, TryReview, CompleteReview, Approve, ResetItem,
         EditEvidence, CohortWaits, CohortReady, Regroup, Rerun, ChangeAuthority, PauseBatch,
         ResumeBatch, worker
<1>6. authority <= authority'
  <2>1. authority' \in {authority, authority + 1}
    BY DEF AutoAdvance, Operate, Review, Advance, TryReview, CompleteReview, Approve, ResetItem,
           EditEvidence, CohortWaits, CohortReady, Regroup, Rerun, ChangeAuthority, PauseBatch,
           ResumeBatch
  <2> QED BY <1>1, <2>1
<1> QED BY <1>2, <1>3, <1>4, <1>5, <1>6, SameStays DEF Background, Aside

LEMMA CrashBackground ==
    ASSUME Safe, NEW w \in Workers, Crash(w)
    PROVE  Background
<1>1. Rows /\ Blank /\ authority \in Nat
  BY DEF Safe, RowsAndMoves, Rows, StoreTypeOK, Authorities
<1>2. \A r \in Runs : RunAside(r)
  BY <1>1, CrashStep, RunsAside DEF BystanderStep
<1>3. UNCHANGED <<child, item, authority>>
  BY DEF Crash, store
<1>4. \A v \in Workers, x \in Runs : task'[v][x] = task[v][x] \/ task'[v][x].pc = "idle"
  BY <1>1 DEF Crash, Rows, WorkerTypeOK, Idle
<1> QED BY <1>1, <1>2, <1>3, <1>4, SameAside, SameStays DEF Background, Aside

LEMMA TickBackground ==
    ASSUME Safe, NEW S \in SUBSET Workers, Tick(S)
    PROVE  Background
<1>1. Rows /\ authority \in Nat
  BY DEF Safe, RowsAndMoves, Rows, StoreTypeOK, Authorities
<1>2. \A r \in Runs : RunAside(r)
  BY <1>1, TimeStep, TickAside
<1>3. UNCHANGED <<child, item, authority>>
  BY DEF Tick
<1>4. ASSUME NEW v \in Workers, NEW x \in Runs PROVE Stays(v, x) \/ task'[v][x].pc = "idle"
  <2>1. task[v][x] \in Task
    BY <1>1 DEF Rows, WorkerTypeOK
  <2>2. task'[v][x] = IF task[v][x].pc = "idle" THEN Idle
                      ELSE [task[v][x] EXCEPT !.age = Older(task[v][x].age),
                              !.lost = task[v][x].lost \/ (KeptBy(S, v, x) /\ ~Held(v, x))]
    BY DEF Tick
  <2>3. CASE task[v][x].pc = "idle"
    BY <2>2, <2>3 DEF Idle
  <2>4. CASE task[v][x].pc # "idle"
    BY <2>1, <2>2, <2>4 DEF Task, Stays
  <2> QED BY <2>3, <2>4
<1> QED BY <1>1, <1>2, <1>3, <1>4, SameAside DEF Background, Aside

\* A step is no task's, or one task's.
LEMMA StepSorts ==
    ASSUME Safe, [Next]_vars
    PROVE  Background \/ \E w \in Workers, r \in Runs : Work(w, r)
<1>1. CASE UNCHANGED vars
  <2>1. authority \in Nat
    BY DEF Safe, RowsAndMoves, Rows, StoreTypeOK, Authorities
  <2>2. UNCHANGED <<run, child, item, task, authority>>
    BY <1>1 DEF vars, store, worker
  <2>3. \A r \in Runs : RunAside(r)
    BY <2>2 DEF RunAside
  <2> QED BY <2>1, <2>2, <2>3, SameAside, SameStays DEF Background, Aside
<1> QED BY <1>1, PollBackground, OperateBackground, CrashBackground, TickBackground DEF Next

-----------------------------------------------------------------------------
(* What one task's step does to the tasks, the items and the other runs.   *)

LEMMA BecomesIs ==
    ASSUME Rows, NEW w \in Workers, NEW r \in Runs, NEW t, Becomes(w, r, t)
    PROVE  task'[w][r] = t
BY DEF Becomes, Rows, WorkerTypeOK

LEMMA EndsIdle ==
    ASSUME Rows, NEW w \in Workers, NEW r \in Runs, Ends(w, r)
    PROVE  task'[w][r].pc = "idle"
BY BecomesIs DEF Ends, Idle

\* What the next member makes of a task, whatever else is noted in it.
LEMMA NextMemberIs ==
    ASSUME NEW t \in Task, NEW m \in Items, NEW b \in BOOLEAN
    PROVE  LET u == NextMember(t, m, b) IN
           /\ u.pc = "member" /\ u.todo = t.todo \ {m} /\ u.seen = t.seen
           /\ u.failed = (t.failed \/ b)
           /\ LET v == [u EXCEPT !.age = 0] IN
                v.pc = u.pc /\ v.todo = u.todo /\ v.seen = u.seen /\ v.failed = u.failed
           /\ LET v == [u EXCEPT !.done = u.done \cup {m}] IN
                v.pc = u.pc /\ v.todo = u.todo /\ v.seen = u.seen /\ v.failed = u.failed
<1> DEFINE u == NextMember(t, m, b)
<1>1. u \in Task
  BY NextMemberType
<1>2. u.pc = "member" /\ u.todo = t.todo \ {m} /\ u.seen = t.seen /\ u.failed = (t.failed \/ b)
  BY DEF NextMember, Task
<1> HIDE DEF u
<1>3. LET v == [u EXCEPT !.age = 0] IN
        v.pc = u.pc /\ v.todo = u.todo /\ v.seen = u.seen /\ v.failed = u.failed
  BY <1>1 DEF Task
<1>4. LET v == [u EXCEPT !.done = u.done \cup {m}] IN
        v.pc = u.pc /\ v.todo = u.todo /\ v.seen = u.seen /\ v.failed = u.failed
  BY <1>1 DEF Task
<1> QED BY <1>2, <1>3, <1>4 DEF u

LEMMA MissIs ==
    ASSUME NEW t \in Task, NEW m \in Items
    PROVE  LET u == [NextMember(t, m, TRUE) EXCEPT !.age = 0] IN
           u.pc = "member" /\ u.todo = t.todo \ {m} /\ u.seen = t.seen /\ u.failed = TRUE
BY DEF NextMember, Task

\* A task that ends writes no item, and no child but to end it.
Stops(w, r) ==
    /\ task'[w][r].pc = "idle" /\ item' = item
    /\ child' = child \/ child' = ChildrenFailed(r)

\* The steps of a freeze, told by what they do to the task, the children and
\* the items of its run.
Captures(w, r) ==
    /\ UNCHANGED <<run, child, item>>
    /\ task[w][r].pc = "load" /\ task'[w][r].pc = "freeze"
    /\ task'[w][r].todo = Members(r) /\ task'[w][r].auth = authority

\* One member more is walked through, or is about to be.
WalksOn(w, r, m) ==
    LET t == task[w][r]
        u == task'[w][r]
    IN  /\ u.auth = t.auth
        /\ \/ u.pc = "freeze" /\ u.todo = t.todo \ {m}
           \/ u.pc \in {"ocr", "rank"} /\ u.cur = m /\ u.todo = t.todo
        /\ u.pc \in {"freeze", "rank"} => OcrTold(u.view[m], t.auth)
        /\ \A n \in Items : n # m => u.view[n] = t.view[n]

Enters(w, r, m) ==
    /\ item' = item /\ run'[r].status = run[r].status
    /\ Held(w, r)
    /\ task[w][r].pc = "freeze" /\ m \in task[w][r].todo
    /\ \E used \in BOOLEAN :
         child' = [child EXCEPT ![r][m] =
                     [FreezeChild(child[r][m], task[w][r].auth) EXCEPT !.used = used]]
    /\ WalksOn(w, r, m)

Answers(w, r) ==
    /\ UNCHANGED <<child, item>> /\ run'[r].status = run[r].status
    /\ task[w][r].pc = "ocr" /\ task[w][r].cur \in Items /\ task'[w][r].pc # "ocr"
    /\ WalksOn(w, r, task[w][r].cur)

Freezes(w, r) ==
    /\ UNCHANGED <<child, item>>
    /\ task[w][r].pc = "freeze" /\ task'[w][r].pc = "exec"
    /\ run'[r].status = "running"

\* The ranking result changes nothing the freeze remembers.
Ranks(w, r) ==
    LET t == task[w][r]
        u == task'[w][r]
    IN  /\ UNCHANGED <<child, item>> /\ run'[r].status = run[r].status
        /\ t.pc = "rank" /\ t.cur \in Items /\ u.pc = "freeze"
        /\ u.auth = t.auth /\ u.view = t.view /\ u.todo = t.todo \ {t.cur}

LEMMA AfterOcrIs ==
    ASSUME NEW s \in Task, NEW m \in Items, NEW pc \in FreezePc
    PROVE  LET u == AfterOcr(s, m, pc)
           IN  /\ u.pc = pc /\ u.auth = s.auth /\ u.view = s.view
               /\ pc = "freeze" => u.todo = s.todo \ {m}
               /\ pc # "freeze" => u.todo = s.todo /\ u.cur = m
<1>1. CASE pc = "freeze"
  BY <1>1 DEF AfterOcr, Task
<1>2. CASE pc # "freeze"
  BY <1>2 DEF AfterOcr, Task
<1> QED BY <1>1, <1>2

LEMMA FreezeMoves ==
    ASSUME Safe, NEW w \in Workers, NEW r \in Runs, Freeze(w, r)
    PROVE  \/ Stops(w, r) \/ Captures(w, r) \/ Answers(w, r) \/ Ranks(w, r) \/ Freezes(w, r)
           \/ \E m \in Items : Enters(w, r, m)
<1> DEFINE t == task[w][r]
<1>a. Rows /\ run \in [Runs -> RunRow] /\ run[r] \in RunRow /\ t \in Task
  BY DEF Safe, RowsAndMoves, Rows, StoreTypeOK, WorkerTypeOK
<1>c. RenewedRuns(w, r)[r].status = run[r].status
  BY <1>a, RenewedStatus
<1>1. CASE \/ FreezeAborts(w, r) \/ FreezeOwnershipLost(w, r) \/ FreezeLosesClaim(w, r)
           \/ OcrThrows(w, r) \/ FreezeConflicts(w, r) \/ FreezeDrifts(w, r)
           \/ \E m \in Items : FreezeBlocked(w, r, m)
  <2>1. Ends(w, r) /\ item' = item /\ (child' = child \/ child' = ChildrenFailed(r))
    BY <1>1 DEF FreezeAborts, FreezeOwnershipLost, FreezeLosesClaim, OcrThrows, FreezeConflicts,
                FreezeDrifts, FreezeBlocked, store
  <2> QED BY <1>a, <2>1, EndsIdle DEF Stops
<1>2. CASE FreezeLoad(w, r)
  <2> DEFINE u == [t EXCEPT !.pc = "freeze", !.todo = Members(r), !.auth = authority,
                            !.view = MemberEvidence(r)]
  <2>1. Becomes(w, r, u) /\ UNCHANGED store /\ t.pc = "load"
    BY <1>2 DEF FreezeLoad, At
  <2>2. u.pc = "freeze" /\ u.todo = Members(r) /\ u.auth = authority
    BY <1>a DEF Task
  <2>3. task'[w][r] = u
    BY <1>a, <2>1, BecomesIs
  <2> HIDE DEF u
  <2> QED BY <2>1, <2>2, <2>3 DEF Captures, store
<1>3. ASSUME NEW m \in Items, FreezeMember(w, r, m) PROVE Enters(w, r, m)
  <2> DEFINE a == IF Overdue(w, r) THEN 0 ELSE t.age
             s == [t EXCEPT !.age = a]
             seen == t.view[m]
             e == IF StaleOcr(seen, t.auth) THEN Invalidated(seen) ELSE seen
  <2>1. t.pc = "freeze" /\ m \in t.todo /\ item' = item /\ ClaimAsserted(w, r)
    BY <1>3 DEF FreezeMember, At, IsFirst
  <2>2. Held(w, r)
    BY <2>1, SafeAsserts
  <2>0. t.age \in 0..(Interval + 1) /\ 0 \in 0..(Interval + 1)
    BY <1>a, IntervalType DEF Task
  <2>3. s \in Task /\ s.auth = t.auth /\ s.view = t.view /\ s.todo = t.todo
    <3> a \in 0..(Interval + 1)
      BY <2>0
    <3> HIDE DEF a
    <3> QED BY <1>a DEF Task
  <2>4. PICK pc \in IF RunsOcr(s, s.view[m]) THEN {"ocr"} ELSE {"freeze", "rank"} :
          /\ child' = [child EXCEPT ![r][m] =
               [FreezeChild(child[r][m], s.auth) EXCEPT
                  !.used = FreezeChild(child[r][m], s.auth).used \/ pc # "freeze"]]
          /\ run' = IF Overdue(w, r) \/ pc # "freeze" THEN RenewedRuns(w, r) ELSE run
          /\ Becomes(w, r, IF pc # "freeze" /\ ~Held(w, r) THEN Idle
               ELSE AfterOcr(OcrChecked(s, m), m, pc))
    BY <1>3 DEF FreezeMember
  <2> DEFINE c == OcrChecked(s, m)
             u == AfterOcr(c, m, pc)
  <2>5. Becomes(w, r, u)
    BY <2>2, <2>3, <2>4
  <2>6. pc \in FreezePc
    BY <2>4 DEF FreezePc
  <2>7. /\ u.pc = pc /\ u.auth = t.auth
        /\ pc = "freeze" => u.todo = t.todo \ {m}
        /\ pc # "freeze" => u.todo = t.todo /\ u.cur = m
        /\ u.view[m] = e
        /\ \A n \in Items : n # m => u.view[n] = t.view[n]
    <3> HIDE DEF s
    <3>1. /\ c \in Task /\ c.auth = t.auth /\ c.todo = t.todo
          /\ c.view = [t.view EXCEPT ![m] = e]
      BY <2>3, OcrCheckedType
    <3>2. t.view \in [Items -> Evidence]
      BY <1>a DEF Task
    <3> HIDE DEF c, e
    <3> QED BY <2>6, <3>1, <3>2, AfterOcrIs
  <2>8. pc \in {"freeze", "rank"} => OcrTold(e, t.auth)
    <3>1. seen \in Evidence
      BY <1>a DEF Task
    <3>2. pc \in {"freeze", "rank"} => ~RunsOcr(s, seen)
      BY <2>3, <2>4
    <3>3. CASE StaleOcr(seen, t.auth)
      <4>1. e = [seen EXCEPT !.stale = TRUE]
        BY <3>3 DEF Invalidated
      <4>2. e.stale /\ e.ocr = seen.ocr
        BY <3>1, <4>1 DEF Evidence
      <4> QED BY <3>3, <4>2 DEF OcrTold, StaleOcr
    <3>4. CASE ~StaleOcr(seen, t.auth)
      BY <2>3, <3>2, <3>4 DEF RunsOcr, ReusableOcr, OcrTold
    <3> QED BY <3>3, <3>4
  <2>9. (FreezeChild(child[r][m], s.auth).used \/ pc # "freeze") \in BOOLEAN
    <3>1. FreezeChild(child[r][m], s.auth) \in ChildRow
      BY <1>a, <2>3, FreezeChildType, SMTT(40) DEF Rows, StoreTypeOK, Task
    <3> QED BY <3>1 DEF ChildRow
  <2>10. task'[w][r] = u
    BY <1>a, <2>5, BecomesIs
  <2>11. run'[r].status = run[r].status
    BY <1>c, <2>4
  <2>12. WalksOn(w, r, m)
    <3> HIDE DEF u, c, e
    <3> QED BY <2>6, <2>7, <2>8, <2>10 DEF WalksOn, FreezePc
  <2>13. \E used \in BOOLEAN :
           child' = [child EXCEPT ![r][m] = [FreezeChild(child[r][m], t.auth) EXCEPT !.used = used]]
    BY <2>3, <2>4, <2>9
  <2> HIDE DEF s, e, c, u
  <2> QED BY <2>1, <2>2, <2>11, <2>12, <2>13 DEF Enters
<1>4. CASE OcrReturns(w, r)
  <2>1. t.pc = "ocr" /\ t.cur \in Items /\ UNCHANGED <<child, item>> /\ run' = RenewedRuns(w, r)
    BY <1>a, <1>4 DEF OcrReturns, At, Rows, Claims
  <2>2. PICK pc \in {"freeze", "rank"} :
           Becomes(w, r, AfterOcr([t EXCEPT !.view[t.cur] = OcrReplaced(t.view[t.cur], t.auth)],
                                  t.cur, pc))
    BY <1>4 DEF OcrReturns
  <2> DEFINE m == t.cur
             e == OcrReplaced(t.view[m], t.auth)
             u == AfterOcr([t EXCEPT !.view[m] = e], m, pc)
  <2>4. /\ u.pc = pc /\ u.auth = t.auth
        /\ pc = "freeze" => u.todo = t.todo \ {m}
        /\ pc # "freeze" => u.todo = t.todo /\ u.cur = m
        /\ u.view[m] = e
        /\ \A n \in Items : n # m => u.view[n] = t.view[n]
    <3>1. m \in Items /\ t \in Task
      BY <1>a, <2>1
    <3> HIDE DEF m, e, t
    <3>2. CASE pc = "freeze"
      BY <3>1, <3>2 DEF AfterOcr, Task
    <3>3. CASE pc = "rank"
      BY <3>1, <3>3 DEF AfterOcr, Task
    <3> QED BY <3>2, <3>3
  <2>5. task'[w][r] = u
    BY <1>a, <2>2, BecomesIs
  <2>6. OcrTold(e, t.auth) /\ pc # "ocr"
    <3>1. t.view[m] \in Evidence
      BY <1>a, <2>1 DEF Task
    <3> QED BY <3>1 DEF OcrTold, OcrReplaced, Evidence
  <2>7. WalksOn(w, r, t.cur)
    <3> HIDE DEF u, e
    <3> QED BY <2>4, <2>5, <2>6 DEF WalksOn
  <2>8. task'[w][r].pc # "ocr"
    BY <2>4, <2>5, <2>6
  <2> QED BY <1>c, <2>1, <2>7, <2>8 DEF Answers
<1>5. CASE RankReturns(w, r)
  <2> DEFINE u == [t EXCEPT !.pc = "freeze", !.cur = None, !.todo = t.todo \ {t.cur}]
  <2>1. t.pc = "rank" /\ t.cur \in Items /\ UNCHANGED <<child, item>>
    BY <1>a, <1>5 DEF RankReturns, At, Rows, Claims
  <2>2. Becomes(w, r, u)
    BY <1>5 DEF RankReturns, AfterOcr
  <2>3. u.pc = "freeze" /\ u.auth = t.auth /\ u.view = t.view /\ u.todo = t.todo \ {t.cur}
    BY <1>a DEF Task
  <2>4. task'[w][r] = u
    BY <1>a, <2>2, BecomesIs
  <2>5. run'[r].status = run[r].status
    BY <1>c, <1>5 DEF RankReturns
  <2> HIDE DEF u
  <2> QED BY <2>1, <2>3, <2>4, <2>5 DEF Ranks
<1>6. CASE FreezeCommits(w, r)
  <2>1. PICK brand \in BOOLEAN :
          run' = [run EXCEPT ![r].status = "running", ![r].frozen = FrozenBy(w, r, brand)]
    BY <1>6 DEF FreezeCommits
  <2>2. Becomes(w, r, [Idle EXCEPT !.pc = "exec", !.age = Interval + 1]) /\ t.pc = "freeze"
        /\ UNCHANGED <<child, item>>
    BY <1>6 DEF FreezeCommits, FreezeReady, At
  <2>3. [Idle EXCEPT !.pc = "exec", !.age = Interval + 1].pc = "exec"
    BY DEF Idle
  <2>4. run'[r].status = "running"
    BY <1>a, <2>1 DEF RunRow
  <2> QED BY <1>a, <2>2, <2>3, <2>4, BecomesIs DEF Freezes
<1> QED BY <1>1, <1>2, <1>3, <1>4, <1>5, <1>6 DEF Freeze

\* The steps of an execution, told by what they do to the task, the children
\* and the items of its run.
Loads(w, r) ==
    /\ UNCHANGED <<run, child, item>>
    /\ task[w][r].pc = "exec" /\ task'[w][r].pc = "ops"
    /\ task'[w][r].todo = Members(r)
    /\ \A m \in Members(r) : task'[w][r].seen[m] = SeenItem(item[m])

Proceeds(w, r) ==
    /\ UNCHANGED <<child, item>>
    /\ task[w][r].pc \in {"ops", "title", "page"}
    /\ task'[w][r].pc \in {"ops", "title", "page", "member"}
    /\ task'[w][r].todo = task[w][r].todo /\ task'[w][r].seen = task[w][r].seen
    /\ task'[w][r].failed = task[w][r].failed

Skips(w, r, m) ==
    /\ UNCHANGED <<run, child, item>>
    /\ task[w][r].pc = "member" /\ task'[w][r].pc = "member"
    /\ m \in task[w][r].todo /\ Committed(w, r, m)
    /\ task'[w][r].todo = task[w][r].todo \ {m} /\ task'[w][r].seen = task[w][r].seen
    /\ task'[w][r].failed = (task[w][r].failed \/ task[w][r].seen[m].blocked)

Begins(w, r, m) ==
    /\ item' = item
    /\ child' = [child EXCEPT ![r][m] = [MemberChild(child[r][m]) EXCEPT !.used = TRUE]]
    /\ task[w][r].pc = "member" /\ task'[w][r].pc = "pipe"
    /\ m \in task[w][r].todo /\ ~Committed(w, r, m)
    /\ task'[w][r].cur = m /\ task'[w][r].att = MemberChild(child[r][m]).n
    /\ task'[w][r].todo = task[w][r].todo /\ task'[w][r].seen = task[w][r].seen
    /\ task'[w][r].failed = task[w][r].failed

Misses(w, r, m) ==
    /\ task'[w][r].pc = "member"
    /\ \/ task[w][r].pc = "member" /\ m \in task[w][r].todo /\ child' = child
       \/ /\ task[w][r].pc = "pipe" /\ m = task[w][r].cur
          /\ child' = child \/ child' = ChildEnded(r, m, task[w][r].att, "failed")
    /\ item' = [item EXCEPT ![m].status = "failed"]
    /\ task'[w][r].todo = task[w][r].todo \ {m} /\ task'[w][r].seen = task[w][r].seen
    /\ task'[w][r].failed = TRUE

Delivers(w, r, blocked) ==
    LET t == task[w][r] IN
    /\ t.pc = "pipe" /\ task'[w][r].pc = "member"
    /\ child' = ChildEnded(r, t.cur, t.att, "completed")
    /\ item' = [item EXCEPT ![t.cur].status = "completed", ![t.cur].ref = <<r, t.att>>,
                            ![t.cur].blocked = blocked]
    /\ task'[w][r].todo = t.todo \ {t.cur} /\ task'[w][r].seen = t.seen
    /\ task'[w][r].failed = (t.failed \/ blocked)

Checks(w, r) ==
    /\ child' = child
    /\ task[w][r].pc = "member" /\ task'[w][r].pc = "complete"
    /\ task[w][r].todo = {} /\ task'[w][r].todo = {}
    /\ item' = [m \in Items |-> IF m \in BrandBlocked(w, r)
                                THEN [item[m] EXCEPT !.blocked = TRUE] ELSE item[m]]
    /\ task'[w][r].failed = (task[w][r].failed \/ BrandBlocked(w, r) # {})

LEMMA ExecuteMoves ==
    ASSUME Safe, NEW w \in Workers, NEW r \in Runs, Execute(w, r)
    PROVE  \/ Stops(w, r) \/ Loads(w, r) \/ Proceeds(w, r) \/ Checks(w, r)
           \/ \E m \in Items : Skips(w, r, m) \/ Begins(w, r, m) \/ Misses(w, r, m)
           \/ \E blocked \in BOOLEAN : Delivers(w, r, blocked)
<1> DEFINE t == task[w][r]
<1>a. Rows /\ t \in Task
  BY DEF Safe, RowsAndMoves, Rows, WorkerTypeOK
<1>b. \A pc : [t EXCEPT !.pc = pc].pc = pc /\ [t EXCEPT !.pc = pc].todo = t.todo
              /\ [t EXCEPT !.pc = pc].seen = t.seen /\ [t EXCEPT !.pc = pc].failed = t.failed
  BY <1>a DEF Task
<1>c. ASSUME Ends(w, r), item' = item, child' = child PROVE Stops(w, r)
  BY <1>a, <1>c, EndsIdle DEF Stops
<1>d. ASSUME SupersedeOwned(w, r), Ends(w, r), item' = item PROVE Stops(w, r)
  <2>1. child' = child \/ child' = ChildrenFailed(r)
    BY <1>d DEF SupersedeOwned
  <2> QED BY <1>a, <1>d, <2>1, EndsIdle DEF Stops
<1>1. CASE OpThrows(w, r) \/ Complete(w, r) \/ ExecLosesClaim(w, r)
  BY <1>1, <1>c DEF OpThrows, Complete, ExecLosesClaim, store
<1>2. CASE OutputDrift(w, r)
  BY <1>2, <1>d DEF OutputDrift
<1>3. CASE ExecLoad(w, r)
  <2> DEFINE seen == [m \in Items |-> IF m \in Members(r) THEN SeenItem(item[m]) ELSE None]
             u == [t EXCEPT !.pc = "ops", !.todo = Members(r), !.age = Interval + 1, !.seen = seen]
  <2>1. Becomes(w, r, u) /\ UNCHANGED store /\ t.pc = "exec"
    BY <1>3 DEF ExecLoad, At
  <2>2. u.pc = "ops" /\ u.todo = Members(r) /\ u.seen = seen
    BY <1>a DEF Task
  <2>3. Members(r) \subseteq Items
    BY <1>a, <2>1, BusyTask, MemberTypes
  <2>4. task'[w][r] = u
    BY <1>a, <2>1, BecomesIs
  <2> HIDE DEF u
  <2> QED BY <2>1, <2>2, <2>3, <2>4 DEF Loads, store
<1>4. CASE CopyTitles(w, r)
  BY <1>4 DEF CopyTitles, At, worker, Proceeds
<1>5. CASE CallOp(w, r)
  <2>1. Becomes(w, r, [t EXCEPT !.pc = NextOp(r)]) /\ t.pc = "ops" /\ UNCHANGED <<child, item>>
    BY <1>5 DEF CallOp, At
  <2>2. NextOp(r) \in {"title", "page"}
    BY DEF NextOp
  <2>3. task'[w][r] = [t EXCEPT !.pc = NextOp(r)]
    BY <1>a, <2>1, BecomesIs
  <2> QED BY <1>b, <2>1, <2>2, <2>3 DEF Proceeds
<1>6. CASE OpReturns(w, r)
  <2>1. CASE t.pc \in run[r].outputs
    BY <1>6, <1>d, <2>1 DEF OpReturns
  <2>2. CASE t.pc \notin run[r].outputs
    <3>1. Becomes(w, r, [t EXCEPT !.pc = "ops"]) /\ t.pc \in Ops /\ UNCHANGED <<child, item>>
      BY <1>6, <2>2 DEF OpReturns
    <3>2. task'[w][r] = [t EXCEPT !.pc = "ops"]
      BY <1>a, <3>1, BecomesIs
    <3> QED BY <1>b, <3>1, <3>2 DEF Proceeds, Ops
  <2> QED BY <2>1, <2>2
<1>7. CASE OpsDone(w, r)
  <2> DEFINE u == [t EXCEPT !.pc = "member", !.age = Interval + 1]
  <2>1. Becomes(w, r, u) /\ t.pc = "ops" /\ UNCHANGED <<child, item>>
    BY <1>7 DEF OpsDone, At, store
  <2>2. u.pc = "member" /\ u.todo = t.todo /\ u.seen = t.seen /\ u.failed = t.failed
    BY <1>a DEF Task
  <2>3. task'[w][r] = u
    BY <1>a, <2>1, BecomesIs
  <2> HIDE DEF u
  <2> QED BY <2>1, <2>2, <2>3 DEF Proceeds
<1>8. ASSUME NEW m \in Items, SkipMember(w, r, m) PROVE Skips(w, r, m)
  <2> DEFINE b == t.seen[m].blocked
             u == [NextMember(t, m, b) EXCEPT !.done = NextMember(t, m, b).done \cup {m}]
  <2>1. Becomes(w, r, u) /\ AtMember(w, r, m) /\ Committed(w, r, m) /\ UNCHANGED store
    BY <1>8 DEF SkipMember
  <2>2. b \in BOOLEAN
    BY <1>a, <2>1 DEF Task, Seen, Committed
  <2>3. u.pc = "member" /\ u.todo = t.todo \ {m} /\ u.seen = t.seen /\ u.failed = (t.failed \/ b)
    <3> DEFINE v == NextMember(t, m, b)
    <3>1. v \in Task
      BY <1>a, <2>2, NextMemberType
    <3>2. v.pc = "member" /\ v.todo = t.todo \ {m} /\ v.seen = t.seen /\ v.failed = (t.failed \/ b)
      BY <1>a DEF NextMember, Task
    <3>3. u = [v EXCEPT !.done = v.done \cup {m}]
      OBVIOUS
    <3> HIDE DEF v, u, b
    <3> QED BY <3>1, <3>2, <3>3 DEF Task
  <2>4. task'[w][r] = u
    BY <1>a, <2>1, BecomesIs
  <2> HIDE DEF u
  <2> QED BY <2>1, <2>3, <2>4 DEF Skips, AtMember, At, IsFirst, store
<1>9. ASSUME NEW m \in Items, StartMember(w, r, m) PROVE Begins(w, r, m)
  <2> DEFINE ch == MemberChild(child[r][m])
             u == [t EXCEPT !.pc = "pipe", !.cur = m, !.att = ch.n,
                            !.age = IF Overdue(w, r) THEN 0 ELSE t.age]
  <2>1. t.pc = "member" /\ m \in t.todo /\ ~Committed(w, r, m) /\ ClaimAsserted(w, r)
    BY <1>9 DEF StartMember, AtMember, At, IsFirst
  <2>2. Held(w, r)
    BY <2>1, SafeAsserts
  <2>3. Becomes(w, r, u) /\ item' = item
        /\ child' = [child EXCEPT ![r][m] = [ch EXCEPT !.used = TRUE]]
    BY <1>9, <2>2 DEF StartMember
  <2>4. /\ u.pc = "pipe" /\ u.cur = m /\ u.att = ch.n /\ u.todo = t.todo /\ u.seen = t.seen
        /\ u.failed = t.failed
    BY <1>a DEF Task
  <2>5. task'[w][r] = u
    BY <1>a, <2>3, BecomesIs
  <2> HIDE DEF u
  <2> QED BY <2>1, <2>3, <2>4, <2>5 DEF Begins
<1>f. ASSUME NEW m \in Items, MemberFails(w, r, m)
      PROVE  /\ task'[w][r].pc = "member" /\ task'[w][r].todo = t.todo \ {m}
             /\ task'[w][r].seen = t.seen /\ task'[w][r].failed = TRUE
             /\ item' = [item EXCEPT ![m].status = "failed"]
  <2> DEFINE u == [NextMember(t, m, TRUE) EXCEPT !.age = 0]
  <2>1. Becomes(w, r, u) /\ item' = [item EXCEPT ![m].status = "failed"]
    BY <1>f DEF MemberFails
  <2>2. u.pc = "member" /\ u.todo = t.todo \ {m} /\ u.seen = t.seen /\ u.failed = TRUE
    BY <1>a, MissIs
  <2>3. task'[w][r] = u
    BY <1>a, <2>1, BecomesIs
  <2> HIDE DEF u
  <2> QED BY <2>1, <2>2, <2>3
<1>10. ASSUME NEW m \in Items, MemberRefused(w, r, m) PROVE Misses(w, r, m)
  <2>1. t.pc = "member" /\ m \in t.todo /\ MemberFails(w, r, m) /\ child' = child
    BY <1>10 DEF MemberRefused, AtMember, At, IsFirst
  <2> QED BY <2>1, <1>f DEF Misses
<1>11. CASE PipelineFails(w, r)
  <2>1. t.pc = "pipe" /\ MemberFails(w, r, t.cur)
        /\ (child' = child \/ child' = ChildEnded(r, t.cur, t.att, "failed"))
    BY <1>11 DEF PipelineFails, At
  <2>2. t.cur \in Items
    BY <1>a, <2>1 DEF Rows, Claims
  <2>3. Misses(w, r, t.cur)
    BY <2>1, <2>2, <1>f DEF Misses
  <2> QED BY <2>2, <2>3
<1>12. CASE PipelineCommits(w, r)
  <2>1. PICK b \in BOOLEAN :
          /\ item' = [item EXCEPT ![t.cur].status = "completed", ![t.cur].ref = <<r, t.att>>,
                                  ![t.cur].blocked = b]
          /\ child' = ChildEnded(r, t.cur, t.att, "completed")
          /\ Becomes(w, r, [NextMember(t, t.cur, b) EXCEPT
                              !.done = NextMember(t, t.cur, b).done \cup {t.cur}])
    BY <1>12 DEF PipelineCommits
  <2> DEFINE u == [NextMember(t, t.cur, b) EXCEPT !.done = NextMember(t, t.cur, b).done \cup {t.cur}]
  <2>2. t.pc = "pipe" /\ t.cur \in Items
    BY <1>a, <1>12 DEF PipelineCommits, At, Rows, Claims
  <2>3. u.pc = "member" /\ u.todo = t.todo \ {t.cur} /\ u.seen = t.seen /\ u.failed = (t.failed \/ b)
    BY <1>a, <2>2, NextMemberIs
  <2>4. task'[w][r] = u
    BY <1>a, <2>1, BecomesIs
  <2> HIDE DEF u
  <2>5. Delivers(w, r, b)
    BY <2>1, <2>2, <2>3, <2>4 DEF Delivers
  <2> QED BY <2>5
<1>13. CASE CheckBrands(w, r)
  <2> DEFINE u == [t EXCEPT !.pc = "complete", !.age = 0,
                            !.failed = t.failed \/ BrandBlocked(w, r) # {}]
  <2>1. Becomes(w, r, u) /\ t.pc = "member" /\ t.todo = {} /\ child' = child
        /\ item' = [m \in Items |-> IF m \in BrandBlocked(w, r)
                                    THEN [item[m] EXCEPT !.blocked = TRUE] ELSE item[m]]
    BY <1>13 DEF CheckBrands, At
  <2>2. u.pc = "complete" /\ u.todo = t.todo /\ u.failed = (t.failed \/ BrandBlocked(w, r) # {})
    BY <1>a DEF Task
  <2>3. task'[w][r] = u
    BY <1>a, <2>1, BecomesIs
  <2> HIDE DEF u
  <2> QED BY <2>1, <2>2, <2>3 DEF Checks
<1> QED BY <1>1, <1>2, <1>3, <1>4, <1>5, <1>6, <1>7, <1>8, <1>9, <1>10, <1>11, <1>12, <1>13
        DEF Execute

LEMMA WorkMoves ==
    ASSUME Safe, NEW w \in Workers, NEW r \in Runs, Work(w, r)
    PROVE  \/ Stops(w, r) \/ Captures(w, r) \/ Answers(w, r) \/ Ranks(w, r) \/ Freezes(w, r)
           \/ Loads(w, r) \/ Proceeds(w, r) \/ Checks(w, r)
           \/ \E m \in Items : \/ Enters(w, r, m) \/ Skips(w, r, m)
                               \/ Begins(w, r, m) \/ Misses(w, r, m)
           \/ \E blocked \in BOOLEAN : Delivers(w, r, blocked)
<1>1. CASE LostDuringCall(w, r)
  BY <1>1, EndsIdle DEF LostDuringCall, store, Stops, Safe, RowsAndMoves
<1> QED BY <1>1, FreezeMoves, ExecuteMoves DEF Work

-----------------------------------------------------------------------------
(* What one task's step leaves alone.                                      *)

LEMMA QuietOthers ==
    ASSUME Safe, NEW w \in Workers, NEW r \in Runs, Work(w, r), ~Held(w, r)
    PROVE  UNCHANGED <<child, item>> /\ \A x \in Runs : run'[x] = run[x]
<1>1. Rows
  BY DEF Safe, RowsAndMoves
<1>2. HolderStep(w, r) /\ TaskEffect(w, r) /\ task[w][r].pc # "idle"
  BY <1>1, WorkEffect, WorkBusy
<1>3. ~ClaimAsserted(w, r)
  BY <1>2, SafeAsserts
<1> QED BY <1>2, <1>3 DEF HolderStep, TaskEffect

LEMMA SteppingMoves ==
    ASSUME Safe, NEW w \in Workers, NEW r \in Runs, Work(w, r)
    PROVE  task'[w][r] = task[w][r] => UNCHANGED <<child, item>>
<1>1. task[w][r].pc # "idle"
  BY WorkBusy
<1>2. \A m \in Items : Enters(w, r, m) => task'[w][r] # task[w][r]
  BY DEF Enters, WalksOn
<1>3. \A m \in Items : Misses(w, r, m) => task'[w][r] # task[w][r]
  BY DEF Misses
<1>4. Stops(w, r) \/ Checks(w, r) \/ (\E m \in Items : Begins(w, r, m))
        \/ (\E blocked \in BOOLEAN : Delivers(w, r, blocked)) => task'[w][r] # task[w][r]
  BY <1>1 DEF Stops, Checks, Begins, Delivers
<1> QED BY <1>2, <1>3, <1>4, WorkMoves DEF Captures, Answers, Ranks, Freezes, Loads, Proceeds, Skips

LEMMA ItemFields ==
    ASSUME NEW row \in ItemRow, NEW st, NEW ref, NEW b
    PROVE  /\ [row EXCEPT !.status = st, !.ref = ref, !.blocked = b].ref = ref
           /\ [row EXCEPT !.status = st, !.ref = ref, !.blocked = b].blocked = b
           /\ [row EXCEPT !.status = st, !.ref = ref, !.blocked = b].status = st
           /\ [row EXCEPT !.blocked = b].ref = row.ref
           /\ [row EXCEPT !.blocked = b].status = row.status
           /\ [row EXCEPT !.blocked = b].blocked = b
BY DEF ItemRow

LEMMA DeliversItem ==
    ASSUME Rows, NEW w \in Workers, NEW r \in Runs, NEW b \in BOOLEAN, Delivers(w, r, b)
    PROVE  /\ task[w][r].cur \in Items
           /\ item'[task[w][r].cur].ref = <<r, task[w][r].att>>
           /\ item'[task[w][r].cur].blocked = b
           /\ \A n \in Items : n # task[w][r].cur => item'[n] = item[n]
<1> DEFINE c == task[w][r].cur
           ref == <<r, task[w][r].att>>
<1>1. item \in [Items -> ItemRow] /\ c \in Items
  BY DEF Delivers, Rows, Claims, StoreTypeOK
<1>2. item' = [item EXCEPT ![c].status = "completed", ![c].ref = ref, ![c].blocked = b]
  BY DEF Delivers
<1> HIDE DEF c, ref
<1>3. /\ item'[c] = [item[c] EXCEPT !.status = "completed", !.ref = ref, !.blocked = b]
      /\ \A n \in Items : n # c => item'[n] = item[n]
  BY <1>1, <1>2
<1>4. item[c] \in ItemRow
  BY <1>1
<1>5. item'[c].ref = ref /\ item'[c].blocked = b
  BY <1>3, <1>4, ItemFields
<1> QED BY <1>1, <1>3, <1>5 DEF c, ref

LEMMA WorkElsewhere ==
    ASSUME Safe, Marks, NEW w \in Workers, NEW r \in Runs, Work(w, r), NEW x \in Runs, x # r
    PROVE  run'[x] = run[x] /\ child'[x] = child[x] /\ ItemsAside(x)
<1>a. Rows
  BY DEF Safe, RowsAndMoves
<1>b. child \in [Runs -> [Items -> ChildRow]] /\ item \in [Items -> ItemRow]
  BY <1>a DEF Rows, StoreTypeOK
<1>1. run'[x] = run[x]
  BY <1>a, WorkEffect DEF HolderStep
<1>2. \A ch : [child EXCEPT ![r] = ch][x] = child[x]
  BY <1>b
<1>3. \A m \in Items : \A n, st : ChildEnded(r, m, n, st)[x] = child[x]
  BY <1>b DEF ChildEnded
<1>4. \A m \in Items : \A ch : [child EXCEPT ![r][m] = ch][x] = child[x]
  BY <1>b
<1>5. child'[x] = child[x]
  <2>1. child' = child
        \/ (\E ch : child' = [child EXCEPT ![r] = ch])
        \/ (\E m \in Items : \E ch : child' = [child EXCEPT ![r][m] = ch])
        \/ (\E m \in Items : \E n, st : child' = ChildEnded(r, m, n, st))
    <3>1. Stops(w, r) => child' = child \/ \E ch : child' = [child EXCEPT ![r] = ch]
      BY DEF Stops, ChildrenFailed
    <3>2. ASSUME NEW m \in Items, Enters(w, r, m) \/ Begins(w, r, m)
          PROVE  \E ch : child' = [child EXCEPT ![r][m] = ch]
      BY <3>2 DEF Enters, Begins
    <3>3. ASSUME NEW m \in Items, Misses(w, r, m)
          PROVE  child' = child \/ \E n, st : child' = ChildEnded(r, m, n, st)
      BY <3>3 DEF Misses
    <3>4. ASSUME NEW blocked \in BOOLEAN, Delivers(w, r, blocked)
          PROVE  \E m \in Items : \E n, st : child' = ChildEnded(r, m, n, st)
      <4>1. task[w][r].cur \in Items
        BY <1>a, <3>4 DEF Delivers, Rows, Claims
      <4> QED BY <3>4, <4>1 DEF Delivers
    <3> QED BY <3>1, <3>2, <3>3, <3>4, WorkMoves
            DEF Captures, Answers, Ranks, Freezes, Loads, Proceeds, Skips, Checks
  <2>2. CASE child' = child
    BY <2>2
  <2>3. ASSUME NEW ch, child' = [child EXCEPT ![r] = ch] PROVE child'[x] = child[x]
    BY <1>2, <2>3
  <2>4. ASSUME NEW m \in Items, NEW ch, child' = [child EXCEPT ![r][m] = ch]
        PROVE  child'[x] = child[x]
    BY <1>4, <2>4
  <2>5. ASSUME NEW m \in Items, NEW n, NEW st, child' = ChildEnded(r, m, n, st)
        PROVE  child'[x] = child[x]
    BY <1>3, <2>5
  <2> QED BY <2>1, <2>2, <2>3, <2>4, <2>5
<1>6. ItemsAside(x)
  <2>1. CASE item' = item
    BY <2>1 DEF ItemsAside
  <2>2. ASSUME NEW m \in Items, Misses(w, r, m) PROVE ItemsAside(x)
    <3>1. \A n \in Items : /\ item'[n].ref = item[n].ref /\ item'[n].blocked = item[n].blocked
                           /\ item'[n].status \in {item[n].status, "failed"}
      BY <1>b, <2>2 DEF Misses, ItemRow
    <3> QED BY <3>1 DEF ItemsAside
  <2>3. ASSUME NEW blocked \in BOOLEAN, Delivers(w, r, blocked) PROVE ItemsAside(x)
    <3> DEFINE m == task[w][r].cur
    <3>1. m \in Items
      BY <1>a, <2>3 DEF Delivers, Rows, Claims
    <3>2. item'[m].ref = <<r, task[w][r].att>> /\ \A n \in Items : n # m => item'[n] = item[n]
      BY <1>a, <2>3, DeliversItem
    <3>3. item'[m].ref[1] = r
      BY <3>2
    <3> HIDE DEF m
    <3> QED BY <3>2, <3>3 DEF ItemsAside
  <2>4. CASE Checks(w, r)
    <3>1. \A n \in Items : /\ item'[n].ref = item[n].ref /\ item'[n].status = item[n].status
                           /\ item'[n].blocked = item[n].blocked \/ item'[n].blocked = TRUE
                           /\ item[n].blocked \in BOOLEAN
      <4>1. ASSUME NEW n \in Items
            PROVE  item'[n] \in {item[n], [item[n] EXCEPT !.blocked = TRUE]}
                   /\ item[n] \in ItemRow
        BY <1>b, <2>4 DEF Checks
      <4>2. ASSUME NEW n \in Items
            PROVE  /\ item'[n].ref = item[n].ref /\ item'[n].status = item[n].status
                   /\ item'[n].blocked = item[n].blocked \/ item'[n].blocked = TRUE
                   /\ item[n].blocked \in BOOLEAN
        <5>1. item[n].blocked \in BOOLEAN
          BY <4>1 DEF ItemRow
        <5>2. CASE item'[n] = item[n]
          BY <5>1, <5>2
        <5>3. CASE item'[n] = [item[n] EXCEPT !.blocked = TRUE]
          <6>1. item[n] \in ItemRow
            BY <4>1
          <6> QED BY <5>1, <5>3, <6>1 DEF ItemRow
        <5> QED BY <4>1, <5>2, <5>3
      <4> QED BY <4>2
    <3>2. task'[w][r] # task[w][r]
      BY <2>4 DEF Checks
    <3>3. ASSUME NEW n \in Items, item[n].ref # None, item[n].ref[1] = x,
                 item'[n].blocked # item[n].blocked
          PROVE  crossed'[x]
      <4>1. BlockedFor(x)
        <5>1. r \in Runs \ {x} /\ w \in Workers
          OBVIOUS
        <5>2. \E v \in Workers, y \in Runs \ {x} : task'[v][y] # task[v][y]
          BY <3>2, <5>1
        <5>3. /\ CommittedBy(x, n) /\ item'[n].ref = item[n].ref
              /\ ~item[n].blocked /\ item'[n].blocked
          BY <3>1, <3>3 DEF CommittedBy
        <5>4. \E m \in Items : CommittedBy(x, m) /\ item'[m].ref = item[m].ref
                                /\ ~item[m].blocked /\ item'[m].blocked
          BY <5>3
        <5> QED BY <5>2, <5>4 DEF BlockedFor
      <4> QED BY <4>1 DEF Marks
    <3> QED BY <3>1, <3>3 DEF ItemsAside
  <2> QED BY <2>1, <2>2, <2>3, <2>4, WorkMoves
          DEF Stops, Captures, Answers, Ranks, Freezes, Loads, Proceeds, Skips, Enters, Begins
<1> QED BY <1>1, <1>5, <1>6

\* A task somebody took the run from writes for it at the cost of the run
\* going astray.
LEMMA GoodWrites ==
    ASSUME Safe, Marks, NEW w \in Workers, NEW r \in Runs, Work(w, r), ~astray'[r]
    PROVE  UNCHANGED <<child, item>> \/ (Good(w, r) /\ Held(w, r))
<1>1. CASE ~Held(w, r)
  BY <1>1, QuietOthers
<1>2. CASE taken[w][r]
  <2>1. ~Writes(w, r)
    BY <1>2 DEF Marks
  <2> QED BY <2>1, SteppingMoves DEF Writes
<1>3. CASE Held(w, r) /\ ~taken[w][r]
  BY <1>3, WorkBusy, HeldLive DEF Marks, Good, Fresh
<1> QED BY <1>1, <1>2, <1>3

-----------------------------------------------------------------------------
(* What any step makes of a claimed run and of the tasks that have it.     *)

LEMMA AuthorityGrows ==
    ASSUME Safe, [Next]_vars
    PROVE  authority \in Nat /\ authority' \in Nat /\ authority <= authority'
<1>1. authority \in Nat
  BY DEF Safe, RowsAndMoves, Rows, StoreTypeOK, Authorities
<1>2. authority' \in Nat
  BY NextSafe DEF Safe, RowsAndMoves, Rows, StoreTypeOK, Authorities
<1>3. ASSUME NEW w \in Workers, NEW r \in Runs, Work(w, r) PROVE authority' = authority
  <2>1. Freeze(w, r) => authority' = authority
    BY DEF Freeze, FreezeAborts, FreezeLoad, FreezeMember, FreezeBlocked, OcrReturns, RankReturns,
           FreezeCommits, FreezeConflicts, FreezeDrifts, FreezeOwnershipLost, FreezeLosesClaim,
           OcrThrows, store
  <2>2. Execute(w, r) => authority' = authority
    BY DEF Execute, ExecLoad, OutputDrift, CopyTitles, CallOp, OpReturns, OpThrows, OpsDone,
           SkipMember, StartMember, MemberRefused, PipelineCommits, PipelineFails, CheckBrands,
           Complete, ExecLosesClaim, store
  <2> QED BY <1>3, <2>1, <2>2 DEF Work, LostDuringCall, store
<1> QED BY <1>1, <1>2, <1>3, StepSorts DEF Background

\* A run is never taken back to an earlier phase, nor brought back to life.
LEMMA RunProgress ==
    ASSUME Safe, [Next]_vars, NEW r \in Runs, run[r].status # "none"
    PROVE  /\ run'[r].cohort = run[r].cohort
           /\ run'[r].status \in {run[r].status, "running"} \cup TerminalStatus
           /\ run'[r].status \in LiveStatus => Live(r)
<1>1. CASE Background
  BY <1>1 DEF Background, Aside, RunAside, Live, LiveStatus, TerminalStatus
<1>2. ASSUME NEW w \in Workers, NEW x \in Runs, Work(w, x)
      PROVE  /\ run'[r].cohort = run[r].cohort
             /\ run'[r].status \in {run[r].status, "running"} \cup TerminalStatus
             /\ run'[r].status \in LiveStatus => Live(r)
  <2>1. HolderStep(w, x)
    BY <1>2, WorkEffect DEF Safe, RowsAndMoves
  <2> QED BY <2>1 DEF HolderStep, Held, Live
<1> QED BY <1>1, <1>2, StepSorts

LEMMA StaysUnderway ==
    ASSUME Safe, [Next]_vars, NEW r \in Runs, Underway(r)
    PROVE  run'[r].status \notin {"none", "freezing"}
BY RunProgress DEF Underway, TerminalStatus, SettledStatus

\* A task goes on by its own step only.
LEMMA AnyTask ==
    ASSUME Safe, [Next]_vars, NEW w \in Workers, NEW r \in Runs, task'[w][r].pc # "idle"
    PROVE  Starts(w, r) \/ Stays(w, r) \/ Work(w, r)
<1>1. CASE Background
  BY <1>1 DEF Background
<1>2. ASSUME NEW v \in Workers, NEW x \in Runs, Work(v, x), w # v \/ r # x PROVE Stays(w, r)
  BY <1>2, WorkEffect, SameStays DEF TaskEffect, Safe, RowsAndMoves
<1> QED BY <1>1, <1>2, StepSorts

\* What a task that kept its claim relies on, when it is not its own turn.
Undisturbed(w, r) ==
    /\ Stays(w, r) /\ Fresh(w, r)
    /\ run'[r].cohort = run[r].cohort /\ run'[r].status \in {run[r].status, "superseded"}
    /\ ChildAside(r) /\ ItemsAside(r)

LEMMA FreshTask ==
    ASSUME Safe, Marks, [Next]_vars, NEW w \in Workers, NEW r \in Runs,
           task'[w][r].pc # "idle", ~taken'[w][r]
    PROVE  Starts(w, r) \/ Undisturbed(w, r) \/ Work(w, r)
<1>a. Rows
  BY DEF Safe, RowsAndMoves
<1>b. run'[r].owner = w /\ ~taken[w][r]
  BY DEF Marks
<1>1. ASSUME Background, Stays(w, r) PROVE Undisturbed(w, r)
  <2>1. task[w][r].pc # "idle" /\ run[r].status # "none"
    BY <1>a, <1>1 DEF Stays, Rows, Claims
  <2> QED BY <1>b, <1>1, <2>1 DEF Background, Aside, RunAside, Undisturbed, Fresh
<1>2. ASSUME NEW v \in Workers, NEW x \in Runs, Work(v, x), w # v \/ r # x
      PROVE  Undisturbed(w, r)
  <2>1. task'[w][r] = task[w][r] /\ HolderStep(v, x)
    BY <1>a, <1>2, WorkEffect DEF TaskEffect
  <2>2. run'[r] = run[r] /\ child'[r] = child[r] /\ ItemsAside(r)
    <3>1. CASE r # x
      BY <1>2, <3>1, WorkElsewhere
    <3>2. CASE r = x
      <4>1. ~Held(v, r)
        BY <1>b, <1>2, <2>1, <3>2 DEF HolderStep, Held
      <4> QED BY <1>2, <3>2, <4>1, QuietOthers, SameAside
    <3> QED BY <3>1, <3>2
  <2>3. ChildAside(r)
    BY <2>2 DEF ChildAside
  <2> QED BY <1>b, <2>1, <2>2, <2>3, SameStays DEF Undisturbed, Fresh
<1> QED BY <1>1, <1>2, StepSorts DEF Background

-----------------------------------------------------------------------------
(* What a step makes of one child and of one item.                         *)

LEMMA EntersChild ==
    ASSUME Rows, NEW w \in Workers, NEW r \in Runs, NEW m \in Items, Enters(w, r, m)
    PROVE  /\ child'[r][m].snap = task[w][r].auth /\ child'[r][m].st = "running"
           /\ \/ (child'[r][m].n = child[r][m].n /\ child[r][m].st = "running")
              \/ child'[r][m].n = child[r][m].n + 1
           /\ \A n \in Items : n # m => child'[r][n] = child[r][n]
<1> DEFINE ch == child[r][m]
           new == FreezeChild(ch, task[w][r].auth)
<1>1. ch \in ChildRow /\ task[w][r].auth \in 0..MaxAuthority
  BY DEF Rows, StoreTypeOK, WorkerTypeOK, Task
<1>2. new.snap = task[w][r].auth /\ new.st = "running"
      /\ ((new.n = ch.n /\ ch.st = "running") \/ new.n = ch.n + 1)
  BY <1>1 DEF FreezeChild, NewChild, ChildRow
<1>3. new \in ChildRow
  BY <1>1, FreezeChildType
<1>4. PICK used \in BOOLEAN : child' = [child EXCEPT ![r][m] = [new EXCEPT !.used = used]]
  BY DEF Enters
<1>5. child'[r][m] = [new EXCEPT !.used = used]
      /\ \A n \in Items : n # m => child'[r][n] = child[r][n]
  BY <1>4 DEF Rows, StoreTypeOK
<1> HIDE DEF new
<1>6. child'[r][m].snap = new.snap /\ child'[r][m].st = new.st /\ child'[r][m].n = new.n
  BY <1>3, <1>5 DEF ChildRow
<1> QED BY <1>2, <1>5, <1>6

LEMMA BeginsChild ==
    ASSUME Rows, NEW w \in Workers, NEW r \in Runs, NEW m \in Items, Begins(w, r, m)
    PROVE  /\ child'[r][m].snap = child[r][m].snap /\ child'[r][m].st = "running"
           /\ \/ (child'[r][m].n = child[r][m].n /\ child[r][m].st = "running")
              \/ child'[r][m].n = child[r][m].n + 1
           /\ task'[w][r].att = child'[r][m].n
           /\ \A n \in Items : n # m => child'[r][n] = child[r][n]
<1> DEFINE ch == child[r][m]
           new == MemberChild(ch)
<1>1. ch \in ChildRow
  BY DEF Rows, StoreTypeOK
<1>2. new.snap = ch.snap /\ new.st = "running"
      /\ ((new.n = ch.n /\ ch.st = "running") \/ new.n = ch.n + 1)
  BY <1>1 DEF MemberChild, NewChild, ChildRow
<1>3. new \in ChildRow
  BY <1>1, NewChildType DEF MemberChild, ChildRow
<1>4. child' = [child EXCEPT ![r][m] = [new EXCEPT !.used = TRUE]] /\ task'[w][r].att = new.n
  BY DEF Begins
<1>5. child'[r][m] = [new EXCEPT !.used = TRUE]
      /\ \A n \in Items : n # m => child'[r][n] = child[r][n]
  BY <1>4 DEF Rows, StoreTypeOK
<1> HIDE DEF new
<1>6. child'[r][m].snap = new.snap /\ child'[r][m].st = new.st /\ child'[r][m].n = new.n
  BY <1>3, <1>5 DEF ChildRow
<1> QED BY <1>2, <1>4, <1>5, <1>6

\* The child the task is at work on ends, if it is the newest of its member.
LEMMA EndedChild ==
    ASSUME Rows, NEW r \in Runs, NEW m \in Items, NEW n, NEW st, child' = ChildEnded(r, m, n, st)
    PROVE  /\ \A i \in Items : i # m => child'[r][i] = child[r][i]
           /\ child'[r][m].n = child[r][m].n /\ child'[r][m].snap = child[r][m].snap
           /\ child[r][m].n = n => child'[r][m].st = st
           /\ child[r][m].n # n => child'[r][m] = child[r][m]
<1>1. child \in [Runs -> [Items -> ChildRow]] /\ child[r][m] \in ChildRow
  BY DEF Rows, StoreTypeOK
<1>2. CASE child[r][m].n = n
  BY <1>1, <1>2 DEF ChildEnded, ChildRow
<1>3. CASE child[r][m].n # n
  BY <1>3 DEF ChildEnded
<1> QED BY <1>2, <1>3

LEMMA FailedFields ==
    \A ch \in ChildRow : /\ FailedChild(ch).n = ch.n /\ FailedChild(ch).snap = ch.snap
                         /\ FailedChild(ch).st = IF ch.st = "running" THEN "failed" ELSE ch.st
BY DEF FailedChild, ChildRow

\* The task of r is ending the child of m.
Closing(w, r, m) ==
    /\ task[w][r].pc = "pipe" /\ m = task[w][r].cur
    /\ child[r][m].n = task[w][r].att
    /\ child'[r][m].n = child[r][m].n /\ child'[r][m].snap = child[r][m].snap
    /\ \/ (Misses(w, r, m) /\ child'[r][m].st = "failed")
       \/ ((\E blocked \in BOOLEAN : Delivers(w, r, blocked)) /\ child'[r][m].st = "completed")

LEMMA ChildMoves ==
    ASSUME Safe, Marks, [Next]_vars, NEW r \in Runs, NEW m \in Items
    PROVE  \/ child'[r][m] \in {child[r][m], FailedChild(child[r][m])}
           \/ \E w \in Workers : /\ Work(w, r)
                                 /\ (Enters(w, r, m) \/ Begins(w, r, m) \/ Closing(w, r, m))
<1>a. Rows
  BY DEF Safe, RowsAndMoves
<1>1. CASE Background
  BY <1>1 DEF Background, Aside, ChildAside
<1>2. ASSUME NEW w \in Workers, NEW x \in Runs, Work(w, x), x # r
      PROVE  child'[r][m] = child[r][m]
  BY <1>2, WorkElsewhere
<1>3. ASSUME NEW w \in Workers, Work(w, r)
      PROVE  \/ child'[r][m] \in {child[r][m], FailedChild(child[r][m])}
             \/ Enters(w, r, m) \/ Begins(w, r, m) \/ Closing(w, r, m)
  <2>1. CASE Stops(w, r)
    <3>1. child' = child \/ ChildAside(r)
      BY <1>a, <2>1, FailedAside DEF Stops
    <3> QED BY <3>1 DEF ChildAside
  <2>2. ASSUME NEW n \in Items, Enters(w, r, n) \/ Begins(w, r, n)
        PROVE  child'[r][m] = child[r][m] \/ Enters(w, r, m) \/ Begins(w, r, m)
    BY <1>a, <2>2, EntersChild, BeginsChild
  <2>3. ASSUME NEW n \in Items, Misses(w, r, n)
        PROVE  child'[r][m] = child[r][m] \/ Closing(w, r, m)
    <3>1. CASE child' = child
      BY <3>1
    <3>2. CASE task[w][r].pc = "pipe" /\ n = task[w][r].cur
               /\ child' = ChildEnded(r, n, task[w][r].att, "failed")
      <4> DEFINE a == task[w][r].att
      <4>1. child' = ChildEnded(r, n, a, "failed")
        BY <3>2
      <4> HIDE DEF a
      <4>2. /\ m # n => child'[r][m] = child[r][m]
            /\ child[r][n].n # a => child'[r][n] = child[r][n]
            /\ child'[r][n].n = child[r][n].n /\ child'[r][n].snap = child[r][n].snap
            /\ child[r][n].n = a => child'[r][n].st = "failed"
        BY <1>a, <4>1, EndedChild
      <4> QED BY <2>3, <3>2, <4>2 DEF Closing, a
    <3> QED BY <2>3, <3>1, <3>2 DEF Misses
  <2>4. ASSUME NEW blocked \in BOOLEAN, Delivers(w, r, blocked)
        PROVE  child'[r][m] = child[r][m] \/ Closing(w, r, m)
    <3> DEFINE n == task[w][r].cur
    <3>1. n \in Items /\ task[w][r].pc = "pipe"
          /\ child' = ChildEnded(r, n, task[w][r].att, "completed")
      BY <1>a, <2>4 DEF Delivers, Rows, Claims
    <3> DEFINE a == task[w][r].att
    <3>2. child' = ChildEnded(r, n, a, "completed")
      BY <3>1
    <3>3. n \in Items
      BY <3>1
    <3>4. ASSUME NEW c \in Items, c = n
          PROVE  child'[r][m] = child[r][m] \/ Closing(w, r, m)
      <4>1. child' = ChildEnded(r, c, a, "completed")
        BY <3>2, <3>4
      <4>2. /\ m # c => child'[r][m] = child[r][m]
            /\ child[r][c].n # a => child'[r][c] = child[r][c]
            /\ child'[r][c].n = child[r][c].n /\ child'[r][c].snap = child[r][c].snap
            /\ child[r][c].n = a => child'[r][c].st = "completed"
        <5> HIDE DEF a, n
        <5> QED BY <1>a, <4>1, EndedChild
      <4> QED BY <2>4, <3>1, <3>4, <4>2 DEF Closing
    <3> QED BY <3>3, <3>4
  <2> QED BY <1>3, <2>1, <2>2, <2>3, <2>4, WorkMoves
          DEF Captures, Answers, Ranks, Freezes, Loads, Proceeds, Skips, Checks
<1> QED BY <1>1, <1>2, <1>3, StepSorts

\* The task of r commits m.
Committing(w, r, m) ==
    /\ \E blocked \in BOOLEAN : Delivers(w, r, blocked)
    /\ m = task[w][r].cur /\ item'[m].ref = <<r, task[w][r].att>>

LEMMA RefMoves ==
    ASSUME Safe, [Next]_vars, NEW m \in Items, item'[m].ref # None
    PROVE  \/ item'[m].ref = item[m].ref
           \/ \E w \in Workers, r \in Runs : Work(w, r) /\ Committing(w, r, m)
<1>a. Rows /\ Rows'
  BY NextSafe DEF Safe, RowsAndMoves
<1>b. item \in [Items -> ItemRow] /\ item'[m] \in ItemRow
  BY <1>a DEF Rows, StoreTypeOK
<1>1. CASE Background
  <2>1. item'[m].ref[1] \in Runs
    BY <1>b DEF ItemRow, Ref
  <2> QED BY <1>1, <2>1 DEF Background, Aside, ItemsAside
<1>2. ASSUME NEW w \in Workers, NEW r \in Runs, Work(w, r)
      PROVE  item'[m].ref = item[m].ref \/ Committing(w, r, m)
  <2>1. ASSUME NEW n \in Items, Misses(w, r, n) PROVE item'[m].ref = item[m].ref
    BY <1>b, <2>1 DEF Misses, ItemRow
  <2>2. CASE Checks(w, r)
    BY <1>b, <2>2 DEF Checks, ItemRow
  <2>3. ASSUME NEW blocked \in BOOLEAN, Delivers(w, r, blocked)
        PROVE  item'[m].ref = item[m].ref \/ Committing(w, r, m)
    <3> QED BY <1>a, <2>3, DeliversItem DEF Committing
  <2> QED BY <1>2, <2>1, <2>2, <2>3, WorkMoves
          DEF Stops, Captures, Answers, Ranks, Freezes, Loads, Proceeds, Skips, Enters, Begins
<1> QED BY <1>1, <1>2, StepSorts

-----------------------------------------------------------------------------
(* The phases of a run and of the tasks that have it.                      *)

Started == \A w \in Workers, r \in Runs : task[w][r].pc \in LoopPc \cup {"exec"} => Underway(r)

Freezing == \A w \in Workers, r \in Runs :
    task[w][r].pc \in FreezePc \cup {"load"} /\ Fresh(w, r) /\ Live(r)
    => run[r].status = "freezing"

Executed == \A m \in Items : item[m].ref # None => Underway(item[m].ref[1])

Phases == Started /\ Freezing /\ Executed

LEMMA NextStarted ==
    ASSUME Safe, Started, [Next]_vars
    PROVE  Started'
<1> SUFFICES ASSUME NEW w \in Workers, NEW r \in Runs, task'[w][r].pc \in LoopPc \cup {"exec"}
             PROVE  run'[r].status \notin {"none", "freezing"}
  BY DEF Started, Underway
<1>1. Underway(r) => run'[r].status \notin {"none", "freezing"}
  BY StaysUnderway
<1>2. CASE Starts(w, r)
  BY <1>2 DEF Starts, LoopPc, Ops
<1>3. CASE Stays(w, r)
  BY <1>1, <1>3 DEF Stays, Started
<1>4. CASE Work(w, r)
  <2>1. CASE Freezes(w, r)
    BY <2>1 DEF Freezes
  <2>2. CASE task[w][r].pc \in LoopPc \cup {"exec"}
    BY <1>1, <2>2 DEF Started
  <2> QED BY <1>4, <2>1, <2>2, WorkMoves
          DEF Stops, Captures, Answers, Ranks, Enters, WalksOn, Loads, Proceeds, Checks, Skips,
              Begins, Misses, Delivers, LoopPc, Ops
<1> QED BY <1>2, <1>3, <1>4, AnyTask DEF LoopPc, Ops

LEMMA NextFreezing ==
    ASSUME Safe, Freezing, Marks, [Next]_vars
    PROVE  Freezing'
<1> SUFFICES ASSUME NEW w \in Workers, NEW r \in Runs, task'[w][r].pc \in FreezePc \cup {"load"},
                    ~taken'[w][r], run'[r].status \in LiveStatus
             PROVE  run'[r].status = "freezing"
  BY DEF Freezing, Fresh, Live
<1>1. task'[w][r].pc # "idle"
  BY DEF FreezePc
<1>2. CASE Starts(w, r)
  BY <1>2 DEF Starts, FreezePc
<1>3. CASE Undisturbed(w, r)
  BY <1>3 DEF Undisturbed, Stays, Freezing, Live, LiveStatus
<1>4. CASE Work(w, r)
  <2>1. Fresh(w, r)
    BY <1>1, <1>4, WorkBusy DEF Marks, Fresh
  <2>2. Live(r)
    BY <2>1, RunProgress DEF Fresh, Safe, RowsAndMoves, Rows, Claims
  <2>3. CASE Captures(w, r) \/ Answers(w, r) \/ Ranks(w, r) \/ \E m \in Items : Enters(w, r, m)
    BY <2>1, <2>2, <2>3 DEF Captures, Answers, Ranks, Enters, Freezing, FreezePc
  <2> QED BY <1>4, <2>3, WorkMoves
          DEF Stops, Freezes, Loads, Proceeds, Checks, Skips, Begins, Misses, Delivers, FreezePc
<1> QED BY <1>1, <1>2, <1>3, <1>4, FreshTask

LEMMA NextExecuted ==
    ASSUME Safe, Started, Executed, [Next]_vars
    PROVE  Executed'
<1> SUFFICES ASSUME NEW m \in Items, item'[m].ref # None
             PROVE  run'[item'[m].ref[1]].status \notin {"none", "freezing"}
  BY DEF Executed, Underway
<1>1. item[m] \in ItemRow
  BY DEF Safe, RowsAndMoves, Rows, StoreTypeOK
<1>2. CASE item'[m].ref = item[m].ref
  <2>1. item[m].ref[1] \in Runs /\ Underway(item[m].ref[1])
    BY <1>1, <1>2 DEF Executed, ItemRow, Ref
  <2> QED BY <1>2, <2>1, StaysUnderway
<1>3. ASSUME NEW w \in Workers, NEW r \in Runs, Committing(w, r, m)
      PROVE  run'[item'[m].ref[1]].status \notin {"none", "freezing"}
  <2>1. Underway(r)
    BY <1>3 DEF Committing, Delivers, Started, LoopPc
  <2>2. item'[m].ref[1] = r
    BY <1>3 DEF Committing
  <2> QED BY <2>1, <2>2, StaysUnderway
<1> QED BY <1>2, <1>3, RefMoves

-----------------------------------------------------------------------------
(* What a freeze has captured.                                             *)

Views == \A w \in Workers, r \in Runs : task[w][r].pc \in FreezePc =>
    /\ task[w][r].auth \in 1..authority
    /\ \A m \in Members(r) \ task[w][r].todo : OcrTold(task[w][r].view[m], task[w][r].auth)
    /\ task[w][r].pc = "rank" => OcrTold(task[w][r].view[task[w][r].cur], task[w][r].auth)

LEMMA NextViews ==
    ASSUME Safe, Views, [Next]_vars
    PROVE  Views'
<1> SUFFICES ASSUME NEW w \in Workers, NEW r \in Runs, task'[w][r].pc \in FreezePc
             PROVE  LET u == task'[w][r] IN
                    /\ u.auth \in 1..authority'
                    /\ \A m \in MembersOf[run'[r].cohort] \ u.todo : OcrTold(u.view[m], u.auth)
                    /\ u.pc = "rank" => OcrTold(u.view[u.cur], u.auth)
  BY DEF Views, Members
<1> DEFINE t == task[w][r]
           u == task'[w][r]
<1>1. u.pc # "idle" /\ ~Starts(w, r)
  BY DEF FreezePc, Starts
<1>2. t.pc # "idle"
  BY <1>1, AnyTask, WorkBusy DEF Stays
<1>3. run[r].status # "none"
  BY <1>2 DEF Safe, RowsAndMoves, Rows, Claims
<1>4. MembersOf[run'[r].cohort] = Members(r) /\ Members(r) \subseteq Items
  BY <1>3, RunProgress, MemberTypes DEF Members, Safe, RowsAndMoves
<1>5. /\ t.auth \in 1..authority => t.auth \in 1..authority'
      /\ authority \in 1..authority'
  BY AuthorityGrows DEF Safe, RowsAndMoves, Rows, StoreTypeOK, Authorities
<1>6. CASE Stays(w, r)
  BY <1>4, <1>5, <1>6 DEF Stays, Views
<1>7. CASE Work(w, r)
  <2>1. CASE Captures(w, r)
    BY <1>4, <1>5, <2>1 DEF Captures
  <2>2. ASSUME NEW m \in Items, t.pc \in FreezePc, WalksOn(w, r, m), m \in t.todo \/ u.pc # "ocr"
        PROVE  /\ u.auth \in 1..authority'
               /\ \A n \in Members(r) \ u.todo : OcrTold(u.view[n], u.auth)
               /\ u.pc = "rank" => OcrTold(u.view[u.cur], u.auth)
    <3>1. u.auth = t.auth /\ u.auth \in 1..authority'
      BY <1>5, <2>2 DEF WalksOn, Views
    <3>2. ASSUME NEW n \in Members(r) \ u.todo PROVE OcrTold(u.view[n], u.auth)
      <4>1. CASE n = m
        BY <2>2, <3>1, <3>2, <4>1 DEF WalksOn
      <4>2. CASE n # m
        BY <1>4, <2>2, <3>1, <3>2, <4>2 DEF WalksOn, Views
      <4> QED BY <4>1, <4>2
    <3>3. u.pc = "rank" => OcrTold(u.view[u.cur], u.auth)
      BY <2>2, <3>1 DEF WalksOn
    <3> QED BY <3>1, <3>2, <3>3
  <2>3. CASE Answers(w, r)
    BY <1>4, <2>2, <2>3 DEF Answers, FreezePc
  <2>4. ASSUME NEW m \in Items, Enters(w, r, m)
        PROVE  /\ u.auth \in 1..authority'
               /\ \A n \in Members(r) \ u.todo : OcrTold(u.view[n], u.auth)
               /\ u.pc = "rank" => OcrTold(u.view[u.cur], u.auth)
    BY <2>2, <2>4 DEF Enters, FreezePc
  <2>5. CASE Ranks(w, r)
    <3>1. \A n \in Members(r) \ u.todo : n \in Members(r) \ t.todo \/ n = t.cur
      BY <2>5 DEF Ranks
    <3> QED BY <1>4, <1>5, <2>5, <3>1 DEF Ranks, Views, FreezePc
  <2> QED BY <1>4, <1>7, <2>1, <2>3, <2>4, <2>5, WorkMoves
          DEF Stops, Freezes, Loads, Proceeds, Checks, Skips, Begins, Misses, Delivers, FreezePc
<1> QED BY <1>1, <1>6, <1>7, AnyTask

\* A child run has a number, and a snapshot taken under some authority so far.
Snaps ==
    /\ \A r \in Runs, m \in Items : /\ child[r][m].snap <= authority
                                    /\ child[r][m].st # "none" => child[r][m].n > 0
    /\ \A w \in Workers, r \in Runs : task[w][r].pc = "pipe" => task[w][r].att > 0

LEMMA NextSnaps ==
    ASSUME Safe, Marks, Views, Snaps, [Next]_vars
    PROVE  Snaps'
<1>a. Rows /\ Rows'
  BY NextSafe DEF Safe, RowsAndMoves
<1>b. authority \in Nat /\ authority' \in Nat /\ authority <= authority'
  BY AuthorityGrows
<1>1. ASSUME NEW r \in Runs, NEW m \in Items
      PROVE  child'[r][m].snap <= authority' /\ (child'[r][m].st # "none" => child'[r][m].n > 0)
  <2>1. /\ child[r][m] \in ChildRow /\ child[r][m].n \in Nat /\ child[r][m].snap \in Nat
        /\ child'[r][m].n \in Nat /\ child'[r][m].snap \in Nat
    BY <1>a, BoundsAssumption DEF Rows, StoreTypeOK, ChildRow
  <2>2. CASE child'[r][m] \in {child[r][m], FailedChild(child[r][m])}
    BY <1>b, <2>1, <2>2, FailedFields DEF Snaps
  <2>3. ASSUME NEW w \in Workers, Enters(w, r, m)
        PROVE  child'[r][m].snap <= authority' /\ child'[r][m].n > 0
    <3>1. task[w][r].auth \in 1..authority
      BY <2>3 DEF Enters, Views, FreezePc
    <3> QED BY <1>a, <1>b, <2>1, <2>3, <3>1, EntersChild DEF Snaps
  <2>4. ASSUME NEW w \in Workers, Begins(w, r, m)
        PROVE  child'[r][m].snap <= authority' /\ child'[r][m].n > 0
    BY <1>a, <1>b, <2>1, <2>4, BeginsChild DEF Snaps
  <2>5. ASSUME NEW w \in Workers, Closing(w, r, m)
        PROVE  child'[r][m].snap <= authority' /\ child'[r][m].n > 0
    <3>1. child'[r][m].n = child[r][m].n /\ child'[r][m].snap = child[r][m].snap
          /\ child[r][m].n = task[w][r].att /\ task[w][r].pc = "pipe"
      BY <2>5 DEF Closing
    <3>2. task[w][r].att > 0 /\ child[r][m].snap <= authority
      BY <3>1 DEF Snaps
    <3> QED BY <1>b, <2>1, <3>1, <3>2
  <2> QED BY <2>2, <2>3, <2>4, <2>5, ChildMoves
<1>2. ASSUME NEW w \in Workers, NEW r \in Runs, task'[w][r].pc = "pipe"
      PROVE  task'[w][r].att > 0
  <2>1. CASE Stays(w, r)
    BY <1>2, <2>1 DEF Stays, Snaps
  <2>2. ASSUME NEW m \in Items, Begins(w, r, m) PROVE task'[w][r].att > 0
    BY <1>1, <1>a, <2>2, BeginsChild
  <2> QED BY <1>2, <2>1, <2>2, AnyTask, WorkMoves
          DEF Starts, Stops, Captures, Answers, Ranks, Freezes, Enters, WalksOn, Loads, Proceeds,
              Checks, Skips, Misses, Delivers
<1> QED BY <1>1, <1>2 DEF Snaps

-----------------------------------------------------------------------------
(* What the freezes of a run have done to its children.                    *)

\* The freeze of w has been at m, or is.
Touches(w, r, m) ==
    /\ task[w][r].pc \in FreezePc
    /\ \/ m \in Members(r) /\ m \notin task[w][r].todo
       \/ task[w][r].pc \in {"ocr", "rank"} /\ m = task[w][r].cur

\* The freeze whose claim stands captured its authority last.
Order == \A v, w \in Workers, r \in Runs, m \in Items :
    task[v][r].pc \in FreezePc /\ Fresh(v, r) /\ Touches(w, r, m)
    => task[w][r].auth <= task[v][r].auth

Walks == \A w \in Workers, r \in Runs, m \in Items : Touches(w, r, m) /\ ~astray[r] =>
    child[r][m].n > 0 /\ child[r][m].snap >= task[w][r].auth

LEMMA TouchMoves ==
    ASSUME Safe, [Next]_vars, NEW w \in Workers, NEW r \in Runs, NEW m \in Items,
           Touches(w, r, m)'
    PROVE  /\ task'[w][r].auth = task[w][r].auth
           /\ Touches(w, r, m) \/ (Work(w, r) /\ Enters(w, r, m))
<1> DEFINE t == task[w][r]
           u == task'[w][r]
<1>1. /\ u.pc \in FreezePc
      /\ \/ m \in MembersOf[run'[r].cohort] /\ m \notin u.todo
         \/ u.pc \in {"ocr", "rank"} /\ m = u.cur
  BY DEF Touches, Members
<1>2. u.pc # "idle" /\ ~Starts(w, r)
  BY <1>1 DEF FreezePc, Starts
<1>3. t.pc # "idle"
  BY <1>2, AnyTask, WorkBusy DEF Stays
<1>4. MembersOf[run'[r].cohort] = Members(r)
  BY <1>3, RunProgress DEF Members, Safe, RowsAndMoves, Rows, Claims
<1>5. CASE Stays(w, r)
  BY <1>1, <1>4, <1>5 DEF Stays, Touches
<1>6. CASE Work(w, r)
  <2>1. CASE Captures(w, r)
    BY <1>1, <1>4, <2>1 DEF Captures
  <2>2. CASE Answers(w, r)
    BY <1>1, <1>4, <2>2 DEF Answers, WalksOn, Touches, FreezePc
  <2>3. CASE Ranks(w, r)
    BY <1>1, <1>4, <2>3 DEF Ranks, Touches, FreezePc
  <2>4. ASSUME NEW n \in Items, Enters(w, r, n)
        PROVE  u.auth = t.auth /\ (Touches(w, r, m) \/ Enters(w, r, m))
    BY <1>1, <1>4, <2>4 DEF Enters, WalksOn, Touches, FreezePc
  <2> QED BY <1>1, <1>6, <2>1, <2>2, <2>3, <2>4, WorkMoves
          DEF Stops, Freezes, Loads, Proceeds, Checks, Skips, Begins, Misses, Delivers, FreezePc
<1> QED BY <1>2, <1>5, <1>6, AnyTask

LEMMA NextOrder ==
    ASSUME Safe, Marks, Views, Order, [Next]_vars
    PROVE  Order'
<1> SUFFICES ASSUME NEW v \in Workers, NEW w \in Workers, NEW r \in Runs, NEW m \in Items,
                    task'[v][r].pc \in FreezePc, ~taken'[v][r], Touches(w, r, m)', v # w
             PROVE  task'[w][r].auth <= task'[v][r].auth
  <2>1. \A x \in Workers, r \in Runs : task'[x][r] \in Task
    BY NextSafe DEF Safe, RowsAndMoves, Rows, WorkerTypeOK
  <2>2. \A x \in Workers, r \in Runs : task'[x][r].auth <= task'[x][r].auth
    BY <2>1, BoundsAssumption DEF Task
  <2> QED BY <2>2 DEF Order, Fresh
<1>a. Rows
  BY DEF Safe, RowsAndMoves
<1>1. task'[v][r].pc # "idle" /\ ~Starts(v, r) /\ run'[r].owner = v /\ ~taken[v][r]
  BY DEF FreezePc, Starts, Marks
<1>2. task'[w][r].auth = task[w][r].auth
      /\ (Touches(w, r, m) \/ (Work(w, r) /\ Enters(w, r, m)))
  BY TouchMoves
<1>3. Touches(w, r, m)
  <2>1. ASSUME Work(w, r), Enters(w, r, m) PROVE FALSE
    <3>1. run[r].owner = v
      BY <1>a, <1>1, <2>1, WorkEffect DEF HolderStep
    <3> QED BY <2>1, <3>1 DEF Enters, Held
  <2> QED BY <1>2, <2>1
<1>4. CASE Work(v, r) /\ Captures(v, r)
  <2>1. task[w][r].auth \in 1..authority /\ task'[v][r].auth = authority
    BY <1>3, <1>4 DEF Touches, Views, Captures
  <2> QED BY <1>2, <2>1
<1>5. ASSUME Fresh(v, r), task[v][r].pc \in FreezePc, task'[v][r].auth = task[v][r].auth
      PROVE  task'[w][r].auth <= task'[v][r].auth
  BY <1>2, <1>3, <1>5 DEF Order
<1>6. CASE Undisturbed(v, r)
  BY <1>5, <1>6 DEF Undisturbed, Stays
<1>7. CASE Work(v, r) /\ ~Captures(v, r)
  <2>1. Fresh(v, r)
    BY <1>1, <1>7, WorkBusy DEF Fresh
  <2>2. task[v][r].pc \in FreezePc /\ task'[v][r].auth = task[v][r].auth
    BY <1>7, WorkMoves
       DEF Stops, Answers, Ranks, Enters, WalksOn, Freezes, Loads, Proceeds, Checks, Skips,
           Begins, Misses, Delivers, FreezePc
  <2> QED BY <1>5, <2>1, <2>2
<1> QED BY <1>1, <1>4, <1>6, <1>7, FreshTask

LEMMA NextWalks ==
    ASSUME Safe, Marks, Views, Order, Walks, Snaps', [Next]_vars
    PROVE  Walks'
<1> SUFFICES ASSUME NEW w \in Workers, NEW r \in Runs, NEW m \in Items,
                    Touches(w, r, m)', ~astray'[r]
             PROVE  child'[r][m].n > 0 /\ child'[r][m].snap >= task'[w][r].auth
  BY DEF Walks
<1>a. Rows /\ Rows'
  BY NextSafe DEF Safe, RowsAndMoves
<1>b. ~astray[r]
  BY DEF Marks
<1>c. /\ child[r][m] \in ChildRow /\ child[r][m].n \in Nat /\ child[r][m].snap \in Nat
      /\ child'[r][m].n \in Nat /\ child'[r][m].snap \in Nat
  BY <1>a, BoundsAssumption DEF Rows, StoreTypeOK, ChildRow
<1>d. task'[w][r].auth = task[w][r].auth /\ task[w][r].auth \in Nat
  BY <1>a, TouchMoves, BoundsAssumption DEF Rows, WorkerTypeOK, Task
<1>1. CASE Enters(w, r, m)
  <2>1. child'[r][m].snap = task[w][r].auth /\ child'[r][m].n > 0
    BY <1>a, <1>1, EntersChild DEF Snaps
  <2> QED BY <1>c, <1>d, <2>1
<1>2. CASE Touches(w, r, m)
  <2>1. child[r][m].n > 0 /\ child[r][m].snap >= task[w][r].auth
    BY <1>b, <1>2 DEF Walks
  <2>2. CASE child'[r][m] \in {child[r][m], FailedChild(child[r][m])}
    BY <1>c, <1>d, <2>1, <2>2, FailedFields
  <2>3. ASSUME NEW v \in Workers, Work(v, r), Enters(v, r, m)
        PROVE  child'[r][m].n > 0 /\ child'[r][m].snap >= task'[w][r].auth
    <3>1. CASE child' = child
      BY <1>d, <2>1, <3>1
    <3>2. CASE Good(v, r)
      <4>1. task[w][r].auth <= task[v][r].auth /\ task[v][r].auth \in Nat
        BY <1>a, <1>2, <2>3, <3>2, BoundsAssumption
           DEF Order, Good, Enters, FreezePc, Rows, WorkerTypeOK, Task
      <4>2. child'[r][m].snap = task[v][r].auth /\ child'[r][m].n > 0
        BY <1>a, <2>3, EntersChild DEF Snaps
      <4> QED BY <1>c, <1>d, <4>1, <4>2
    <3> QED BY <2>3, <3>1, <3>2, GoodWrites
  <2>4. ASSUME NEW v \in Workers, Begins(v, r, m) \/ Closing(v, r, m)
        PROVE  child'[r][m].n > 0 /\ child'[r][m].snap >= task'[w][r].auth
    BY <1>a, <1>c, <1>d, <2>1, <2>4, BeginsChild, SMTT(40) DEF Closing
  <2> QED BY <2>2, <2>3, <2>4, ChildMoves
<1> QED BY <1>1, <1>2, TouchMoves

-----------------------------------------------------------------------------
(* What a run has frozen.                                                  *)

LEMMA SameFrozen ==
    ASSUME Rows, NEW w, NEW r \in Runs
    PROVE  /\ RenewedRuns(w, r)[r].frozen = run[r].frozen
           /\ \A s : RunsWithStatus(r, s)[r].frozen = run[r].frozen
           /\ \A o : [RenewedRuns(w, r) EXCEPT ![r].outputs = o][r].frozen = run[r].frozen
<1>1. run \in [Runs -> RunRow] /\ run[r] \in RunRow
  BY DEF Rows, StoreTypeOK
<1>2. RenewedRuns(w, r)[r].frozen = run[r].frozen
  BY <1>1 DEF RenewedRuns, RunRow
<1>3. RenewedRuns(w, r) \in [Runs -> RunRow]
  BY RenewedType DEF Rows
<1>4. \A s : RunsWithStatus(r, s)[r].frozen = run[r].frozen
  BY <1>1 DEF RunsWithStatus, RunRow
<1>5. \A o : [RenewedRuns(w, r) EXCEPT ![r].outputs = o][r].frozen = run[r].frozen
  <2> DEFINE R == RenewedRuns(w, r)
  <2>1. R \in [Runs -> RunRow] /\ R[r].frozen = run[r].frozen
    BY <1>2, <1>3
  <2> HIDE DEF R
  <2>2. R[r] \in RunRow
    BY <2>1
  <2>3. \A o : [R[r] EXCEPT !.outputs = o].frozen = R[r].frozen
    BY <2>2 DEF RunRow
  <2>4. \A o : [R EXCEPT ![r].outputs = o][r] = [R[r] EXCEPT !.outputs = o]
    BY <2>1
  <2>5. ASSUME NEW o PROVE [R EXCEPT ![r].outputs = o][r].frozen = run[r].frozen
    BY <2>1, <2>3, <2>4
  <2> QED BY <2>5 DEF R
<1> QED BY <1>2, <1>4, <1>5

\* Only the transaction that ends a freeze writes what a run froze.
LEMMA FrozenMoves ==
    ASSUME Safe, [Next]_vars, NEW r \in Runs, run'[r].frozen # run[r].frozen
    PROVE  \E w \in Workers :
             /\ FreezeReady(w, r) /\ NothingMoved(w, r)
             /\ \E brand \in BOOLEAN : run'[r].frozen = FrozenBy(w, r, brand)
             /\ child' = child \/ child' = ChildrenFailed(r)
<1>a. Rows /\ run \in [Runs -> RunRow] /\ run[r] \in RunRow
  BY DEF Safe, RowsAndMoves, Rows, StoreTypeOK
<1>1. ~Background
  BY DEF Background, Aside, RunAside
<1>2. PICK w \in Workers : Work(w, r)
  <2>1. \A w \in Workers, x \in Runs : Work(w, x) => x = r
    BY <1>a, WorkEffect DEF HolderStep
  <2> QED BY <1>1, <2>1, StepSorts
<1>3. ~LostDuringCall(w, r)
  BY DEF LostDuringCall, store
<1>4. ~Execute(w, r)
  <2>1. run' = run \/ run' = RenewedRuns(w, r) \/ (\E s : run' = RunsWithStatus(r, s))
        \/ (\E o : run' = [RenewedRuns(w, r) EXCEPT ![r].outputs = o])
        \/ ~Execute(w, r)
    BY DEF Execute, ExecLoad, OutputDrift, CopyTitles, CallOp, OpReturns, OpThrows, OpsDone,
           SkipMember, StartMember, MemberRefused, MemberFails, PipelineCommits, PipelineFails,
           CheckBrands, Complete, ExecLosesClaim, SupersedeOwned, store
  <2>2. ASSUME NEW s, run' = RunsWithStatus(r, s) PROVE FALSE
    BY <1>a, <2>2, SameFrozen
  <2>3. ASSUME NEW o, run' = [RenewedRuns(w, r) EXCEPT ![r].outputs = o] PROVE FALSE
    BY <1>a, <2>3, SameFrozen
  <2> QED BY <1>a, <2>1, <2>2, <2>3, SameFrozen
<1>5. CASE FreezeCommits(w, r)
  <2>1. PICK brand \in BOOLEAN :
          run' = [run EXCEPT ![r].status = "running", ![r].frozen = FrozenBy(w, r, brand)]
    BY <1>5 DEF FreezeCommits
  <2>2. run'[r].frozen = FrozenBy(w, r, brand)
    BY <1>a, <2>1 DEF RunRow
  <2> QED BY <1>5, <2>2 DEF FreezeCommits
<1>6. CASE FreezeConflicts(w, r)
  <2>1. run' = [run EXCEPT ![r].status = "failed", ![r].frozen = FrozenBy(w, r, FALSE)]
    BY <1>6 DEF FreezeConflicts
  <2>2. run'[r].frozen = FrozenBy(w, r, FALSE)
    BY <1>a, <2>1 DEF RunRow
  <2> QED BY <1>6, <2>2 DEF FreezeConflicts
<1>7. CASE Freeze(w, r) /\ ~FreezeCommits(w, r) /\ ~FreezeConflicts(w, r)
  <2>1. run' = run \/ run' = RenewedRuns(w, r) \/ (\E s : run' = RunsWithStatus(r, s))
    BY <1>7 DEF Freeze, FreezeAborts, FreezeLoad, FreezeMember, FreezeBlocked, OcrReturns,
                RankReturns, FreezeDrifts, FreezeOwnershipLost, FreezeLosesClaim, OcrThrows, store
  <2> QED BY <1>a, <2>1, SameFrozen
<1> QED BY <1>2, <1>3, <1>4, <1>5, <1>6, <1>7 DEF Work

LEMMA NextFrozen ==
    ASSUME Safe, Marks, Views, Snaps, Walks, Freezing, FrozenUnderOneAuthority, [Next]_vars
    PROVE  FrozenUnderOneAuthority'
<1> SUFFICES ASSUME NEW r \in Runs, run'[r].frozen # None, ~astray'[r],
                    NEW m \in MembersOf[run'[r].cohort]
             PROVE  /\ child'[r][m].n > 0
                    /\ child'[r][m].snap = run'[r].frozen.authority
                    /\ OcrTold(run'[r].frozen.evidence[m], run'[r].frozen.authority)
  BY DEF FrozenUnderOneAuthority, Members
<1>a. Rows /\ Rows'
  BY NextSafe DEF Safe, RowsAndMoves
<1>b. ~astray[r]
  BY DEF Marks
<1>1. run[r].status # "none"
  <2>1. run[r].frozen # None \/ \E w \in Workers : task[w][r].pc # "idle"
    BY FrozenMoves DEF FreezeReady, At
  <2> QED BY <1>a, <2>1 DEF Safe, Blank, NoRun, Rows, Claims
<1>2. m \in Members(r) /\ m \in Items
  BY <1>a, <1>1, RunProgress, MemberTypes DEF Members
<1>c. /\ child[r][m] \in ChildRow /\ child[r][m].n \in Nat /\ child[r][m].snap \in Nat
      /\ child'[r][m].n \in Nat
  BY <1>a, <1>2, BoundsAssumption DEF Rows, StoreTypeOK, ChildRow
<1>3. CASE run'[r].frozen = run[r].frozen
  <2>1. /\ child[r][m].n > 0
        /\ child[r][m].snap = run[r].frozen.authority
        /\ OcrTold(run[r].frozen.evidence[m], run[r].frozen.authority)
    BY <1>b, <1>2, <1>3 DEF FrozenUnderOneAuthority
  <2>2. child'[r][m].n > 0 /\ child'[r][m].snap = child[r][m].snap
    <3>1. CASE child'[r][m] \in {child[r][m], FailedChild(child[r][m])}
      BY <1>c, <2>1, <3>1, FailedFields
    <3>2. ASSUME NEW w \in Workers, Work(w, r), Enters(w, r, m)
          PROVE  child' = child
      <4>1. CASE Good(w, r)
        <5>1. run[r].status = "freezing"
          BY <3>2, <4>1 DEF Freezing, Good, Enters, FreezePc
        <5> QED BY <1>a, <1>3, <5>1 DEF Rows, Claims
      <4> QED BY <3>2, <4>1, GoodWrites
    <3>3. ASSUME NEW w \in Workers, Begins(w, r, m) \/ Closing(w, r, m)
          PROVE  child'[r][m].n > 0 /\ child'[r][m].snap = child[r][m].snap
      BY <1>a, <1>2, <1>c, <2>1, <3>3, BeginsChild, SMTT(40) DEF Closing
    <3> QED BY <1>2, <2>1, <3>1, <3>2, <3>3, ChildMoves
  <2> QED BY <1>3, <2>1, <2>2
<1>4. CASE run'[r].frozen # run[r].frozen
  <2>1. PICK w \in Workers :
             /\ FreezeReady(w, r) /\ NothingMoved(w, r)
             /\ \E brand \in BOOLEAN : run'[r].frozen = FrozenBy(w, r, brand)
             /\ child' = child \/ child' = ChildrenFailed(r)
    BY <1>4, FrozenMoves
  <2>2. run'[r].frozen.evidence = task[w][r].view /\ run'[r].frozen.authority = task[w][r].auth
    BY <2>1 DEF FrozenBy
  <2>3. Touches(w, r, m) /\ task[w][r].pc \in FreezePc
    BY <1>2, <2>1 DEF FreezeReady, At, Touches, FreezePc
  <2>4. child[r][m].n > 0 /\ child[r][m].snap >= task[w][r].auth /\ child[r][m].snap <= authority
    BY <1>b, <1>2, <2>3 DEF Walks, Snaps
  <2>5. authority = task[w][r].auth /\ task[w][r].auth \in 1..authority
        /\ OcrTold(task[w][r].view[m], task[w][r].auth)
    BY <1>2, <2>1, <2>3 DEF NothingMoved, Views, FreezeReady
  <2>6. child[r][m].snap = task[w][r].auth
    BY <1>c, <2>4, <2>5
  <2>7. child'[r][m].n = child[r][m].n /\ child'[r][m].snap = child[r][m].snap
    <3>1. child' = child \/ ChildAside(r)
      BY <1>a, <2>1, FailedAside
    <3> QED BY <1>2, <1>c, <3>1, FailedFields DEF ChildAside
  <2> QED BY <2>2, <2>4, <2>5, <2>6, <2>7
<1> QED BY <1>3, <1>4

-----------------------------------------------------------------------------
(* What an execution remembers of its items, and what it has committed.    *)

\* The child a task is at work on is the newest of its member, has not
\* succeeded, and its member does not stand completed by the run.
Piping == \A w \in Workers, r \in Runs : Good(w, r) /\ task[w][r].pc = "pipe" =>
    /\ child[r][task[w][r].cur].n = task[w][r].att
    /\ child[r][task[w][r].cur].st # "completed"
    /\ ~Stands(r, task[w][r].cur)

Newest == \A r \in Runs, m \in Items :
    Live(r) /\ ~astray[r] /\ Stands(r, m) => child[r][m].n = item[m].ref[2]

\* The items as loaded still tell which members stand completed by the run,
\* and whether what it committed for them is blocked.
Recalled == \A w \in Workers, r \in Runs, m \in Items :
    Good(w, r) /\ task[w][r].pc \in LoopPc /\ m \in task[w][r].todo =>
    /\ Stands(r, m) => task[w][r].seen[m] # None /\ task[w][r].seen[m].ref = item[m].ref
    /\ (/\ CommittedBy(r, m) /\ task[w][r].seen[m] # None /\ task[w][r].seen[m].ref[1] = r
        /\ ~crossed[r]) => task[w][r].seen[m].blocked = item[m].blocked

Clean == \A w \in Workers, r \in Runs :
    Good(w, r) /\ task[w][r].pc \in LoopPc /\ ~crossed[r] /\ ~task[w][r].failed =>
        \A m \in Members(r) \ task[w][r].todo :
            /\ child[r][m].st = "completed"
            /\ CommittedBy(r, m) => ~item[m].blocked

Emptied == \A w \in Workers, r \in Runs : task[w][r].pc = "complete" => task[w][r].todo = {}

LEMMA GoodBefore ==
    ASSUME Safe, Marks, [Next]_vars, NEW w \in Workers, NEW r \in Runs, task'[w][r].pc # "idle",
           ~taken'[w][r], run'[r].status \in LiveStatus, ~astray'[r],
           Undisturbed(w, r) \/ Work(w, r)
    PROVE  Good(w, r)
<1>1. Fresh(w, r)
  BY WorkBusy DEF Marks, Fresh, Undisturbed
<1>2. run[r].status # "none"
  BY <1>1 DEF Fresh, Safe, RowsAndMoves, Rows, Claims
<1> QED BY <1>1, <1>2, RunProgress DEF Good, Marks

LEMMA NotAgain ==
    ASSUME Rows, CommittedTogether, Newest, Recalled, NEW w \in Workers, NEW r \in Runs,
           Good(w, r), task[w][r].pc = "member", NEW m \in Items, m \in task[w][r].todo,
           Stands(r, m)
    PROVE  Committed(w, r, m)
<1>1. task[w][r].seen[m] # None /\ task[w][r].seen[m].ref = item[m].ref
  BY DEF Recalled, LoopPc
<1>2. child[r][m].n = item[m].ref[2]
  BY DEF Newest, Good
<1>3. child[r][m].st = "completed"
  BY <1>2 DEF CommittedTogether, Stands, CommittedBy, Good
<1>4. item[m].ref = <<r, child[r][m].n>>
  <2>1. item[m].ref \in Ref /\ item[m].ref[1] = r
    BY DEF Rows, StoreTypeOK, ItemRow, Stands, CommittedBy
  <2> QED BY <1>2, <2>1 DEF Ref
<1> QED BY <1>1, <1>3, <1>4 DEF Committed

\* A member stands completed by a live run because it did, or because it is
\* committed now.
LEMMA StandMoves ==
    ASSUME Safe, Marks, Executed, [Next]_vars, NEW r \in Runs, NEW m \in Items,
           run'[r].status \in LiveStatus, item'[m].ref # None, item'[m].ref[1] = r,
           item'[m].status = "completed"
    PROVE  \/ Live(r) /\ Stands(r, m) /\ item'[m].ref = item[m].ref
           \/ \E w \in Workers : Work(w, r) /\ Committing(w, r, m)
<1>a. Rows /\ item \in [Items -> ItemRow]
  BY DEF Safe, RowsAndMoves, Rows, StoreTypeOK
<1>1. CASE item'[m].ref # item[m].ref
  <2>1. PICK w \in Workers, x \in Runs : Work(w, x) /\ Committing(w, x, m)
    BY <1>1, RefMoves
  <2>2. x = r
    BY <2>1, SMTT(40) DEF Committing
  <2> QED BY <2>1, <2>2
<1>2. CASE item'[m].ref = item[m].ref
  <2>1. Underway(r) /\ run[r].status # "none"
    BY <1>2 DEF Executed, Underway
  <2>2. Live(r)
    BY <2>1, RunProgress
  <2>3. CASE ItemsAside(r)
    BY <1>2, <2>2, <2>3 DEF ItemsAside, Stands, CommittedBy, Live
  <2>4. ASSUME NEW w \in Workers, Work(w, r)
        PROVE  item[m].status = "completed" \/ Committing(w, r, m)
    <3>1. ASSUME NEW n \in Items, Misses(w, r, n) PROVE item[m].status = "completed"
      BY <1>a, <3>1 DEF Misses, ItemRow
    <3>2. CASE Checks(w, r)
      BY <1>a, <3>2 DEF Checks, ItemRow
    <3>3. ASSUME NEW blocked \in BOOLEAN, Delivers(w, r, blocked)
          PROVE  item[m].status = "completed" \/ Committing(w, r, m)
      BY <1>a, <2>4, <3>3, DeliversItem, SMTT(40) DEF Committing, Stands
    <3> QED BY <2>4, <3>1, <3>2, <3>3, WorkMoves
            DEF Stops, Captures, Answers, Ranks, Freezes, Loads, Proceeds, Skips, Enters, Begins
  <2> QED BY <1>2, <2>2, <2>3, <2>4, StepSorts, WorkElsewhere
          DEF Background, Aside, Stands, CommittedBy
<1> QED BY <1>1, <1>2

LEMMA NextCommitted ==
    ASSUME Safe, Marks, Piping, CommittedTogether, [Next]_vars
    PROVE  CommittedTogether'
<1>a. Rows /\ Rows'
  BY NextSafe DEF Safe, RowsAndMoves
<1> SUFFICES ASSUME NEW m \in Items, NEW r \in Runs, NEW k \in Nat, item'[m].ref = <<r, k>>,
                    item'[m].ref # None, ~astray'[r]
             PROVE  child'[r][m].n >= k /\ (child'[r][m].n = k => child'[r][m].st = "completed")
  <2>1. ASSUME NEW m \in Items, item'[m].ref # None
        PROVE  \E r \in Runs : \E k \in Nat : item'[m].ref = <<r, k>>
    <3>1. item'[m] \in ItemRow
      BY <1>a DEF Rows, StoreTypeOK
    <3>2. item'[m].ref \in Ref
      BY <2>1, <3>1 DEF ItemRow
    <3> QED BY <3>2 DEF Ref
  <2>2. \A m \in Items : item'[m].ref # None /\ ~astray'[item'[m].ref[1]] =>
          LET ch == child'[item'[m].ref[1]][m] IN
          ch.n >= item'[m].ref[2] /\ (ch.n = item'[m].ref[2] => ch.st = "completed")
    BY <2>1, SMTT(40)
  <2> QED BY <2>2 DEF CommittedTogether
<1>c. /\ child[r][m] \in ChildRow /\ child[r][m].n \in Nat /\ child'[r][m].n \in Nat
  BY <1>a DEF Rows, StoreTypeOK, ChildRow
<1>d. ~astray[r]
  BY DEF Marks
<1>1. CASE item'[m].ref = item[m].ref
  <2>1. child[r][m].n >= k /\ (child[r][m].n = k => child[r][m].st = "completed")
    <3>1. item[m].ref # None /\ item[m].ref[1] = r /\ item[m].ref[2] = k
      BY <1>1
    <3> QED BY <1>d, <3>1 DEF CommittedTogether
  <2>2. CASE child'[r][m] \in {child[r][m], FailedChild(child[r][m])}
    BY <1>c, <2>1, <2>2, FailedFields
  <2>3. ASSUME NEW w \in Workers, Enters(w, r, m) \/ Begins(w, r, m)
        PROVE  child'[r][m].n >= k /\ (child'[r][m].n = k => child'[r][m].st = "completed")
    BY <1>a, <1>c, <2>1, <2>3, EntersChild, BeginsChild
  <2>4. ASSUME NEW w \in Workers, Work(w, r), Closing(w, r, m)
        PROVE  child'[r][m].n >= k /\ (child'[r][m].n = k => child'[r][m].st = "completed")
    <3>1. CASE child' = child
      BY <2>1, <3>1
    <3>2. CASE Good(w, r)
      BY <2>1, <2>4, <3>2 DEF Closing, Piping
    <3> QED BY <1>d, <2>4, <3>1, <3>2, GoodWrites
  <2>5. child'[r][m].n >= k /\ (child'[r][m].n = k => child'[r][m].st = "completed")
    BY <2>2, <2>3, <2>4, ChildMoves
  <2> QED BY <2>5
<1>2. CASE item'[m].ref # item[m].ref
  <2>1. PICK w \in Workers, x \in Runs : Work(w, x) /\ Committing(w, x, m)
    BY <1>2, RefMoves
  <2>2. <<r, k>> = <<x, task[w][x].att>> /\ task[w][x].pc = "pipe" /\ m = task[w][x].cur
        /\ child' = ChildEnded(x, m, task[w][x].att, "completed")
    BY <2>1 DEF Committing, Delivers
  <2>r. r = x /\ k = task[w][x].att
    <3> DEFINE a == task[w][x].att
    <3>1. <<r, k>> = <<x, a>>
      BY <2>2
    <3> HIDE DEF a
    <3>2. r = x /\ k = a
      BY <3>1
    <3> QED BY <3>2 DEF a
  <2>3. Good(w, x)
    <3>1. r = x
      BY <2>r
    <3> QED BY <1>2, <2>1, <3>1, GoodWrites
  <2>4. child[x][m].n = task[w][x].att
    BY <2>2, <2>3 DEF Piping
  <2>5. child'[x][m].n = task[w][x].att /\ child'[x][m].st = "completed"
    <3> DEFINE a == task[w][x].att
    <3>1. child' = ChildEnded(x, m, a, "completed") /\ child[x][m].n = a
      BY <2>2, <2>4
    <3> HIDE DEF a
    <3>2. child'[x][m].n = a /\ child'[x][m].st = "completed"
      BY <1>a, <3>1, EndedChild
    <3> QED BY <3>2 DEF a
  <2> QED BY <1>c, <2>r, <2>5
<1> QED BY <1>1, <1>2

LEMMA NextPiping ==
    ASSUME Safe, Marks, CommittedTogether, Newest, Recalled, Piping, [Next]_vars
    PROVE  Piping'
<1> SUFFICES ASSUME NEW w \in Workers, NEW r \in Runs, task'[w][r].pc = "pipe", ~taken'[w][r],
                    run'[r].status \in LiveStatus, ~astray'[r]
             PROVE  LET m == task'[w][r].cur IN
                    /\ child'[r][m].n = task'[w][r].att
                    /\ child'[r][m].st # "completed"
                    /\ ~(item'[m].ref # None /\ item'[m].ref[1] = r
                         /\ item'[m].status = "completed")
  BY DEF Piping, Good, Fresh, Live, Stands, CommittedBy
<1>a. Rows
  BY DEF Safe, RowsAndMoves
<1>1. task'[w][r].pc # "idle" /\ ~Starts(w, r)
  BY DEF Starts
<1>2. CASE Undisturbed(w, r)
  <2> DEFINE m == task[w][r].cur
  <2>1. Good(w, r) /\ task'[w][r].cur = m /\ task'[w][r].att = task[w][r].att
        /\ task[w][r].pc = "pipe"
    BY <1>1, <1>2, GoodBefore DEF Undisturbed, Stays
  <2>2. m \in Items /\ child[r][m] \in ChildRow
    BY <1>a, <2>1 DEF Rows, Claims, StoreTypeOK
  <2>3. child[r][m].n = task[w][r].att /\ child[r][m].st # "completed" /\ ~Stands(r, m)
    BY <2>1 DEF Piping
  <2>4. child'[r][m].n = task[w][r].att /\ child'[r][m].st # "completed"
    BY <1>2, <2>2, <2>3, FailedFields DEF Undisturbed, ChildAside
  <2>5. ~(item'[m].ref # None /\ item'[m].ref[1] = r /\ item'[m].status = "completed")
    BY <1>2, <2>1, <2>2, <2>3 DEF Undisturbed, ItemsAside, Stands, CommittedBy, Good
  <2> QED BY <2>1, <2>4, <2>5
<1>3. CASE Work(w, r)
  <2>1. PICK m \in Items : Begins(w, r, m)
    BY <1>3, WorkMoves
       DEF Stops, Captures, Answers, Ranks, Freezes, Enters, WalksOn, Loads, Proceeds, Checks,
           Skips, Misses, Delivers
  <2>2. Good(w, r) /\ task[w][r].pc = "member" /\ m \in task[w][r].todo /\ ~Committed(w, r, m)
        /\ task'[w][r].cur = m /\ item' = item
    BY <1>1, <1>3, <2>1, GoodBefore DEF Begins
  <2>3. ~Stands(r, m)
    BY <1>a, <2>2, NotAgain
  <2>4. child'[r][m].n = task'[w][r].att /\ child'[r][m].st # "completed"
    BY <1>a, <2>1, BeginsChild
  <2> QED BY <2>2, <2>3, <2>4 DEF Stands, CommittedBy
<1> QED BY <1>1, <1>2, <1>3, FreshTask

LEMMA NextNewest ==
    ASSUME Safe, Marks, Executed, Freezing, CommittedTogether, Newest, Recalled, Piping, [Next]_vars
    PROVE  Newest'
<1> SUFFICES ASSUME NEW r \in Runs, NEW m \in Items, run'[r].status \in LiveStatus, ~astray'[r],
                    item'[m].ref # None, item'[m].ref[1] = r, item'[m].status = "completed"
             PROVE  child'[r][m].n = item'[m].ref[2]
  BY DEF Newest, Live, Stands, CommittedBy
<1>a. Rows /\ child[r][m] \in ChildRow
  BY DEF Safe, RowsAndMoves, Rows, StoreTypeOK
<1>b. ~astray[r]
  BY DEF Marks
<1>1. CASE Live(r) /\ Stands(r, m) /\ item'[m].ref = item[m].ref
  <2>1. child[r][m].n = item[m].ref[2]
    BY <1>b, <1>1 DEF Newest
  <2>2. CASE child'[r][m] \in {child[r][m], FailedChild(child[r][m])}
    BY <1>1, <1>a, <2>1, <2>2, FailedFields
  <2>3. ASSUME NEW w \in Workers, Work(w, r), Enters(w, r, m) PROVE child' = child
    <3>1. CASE Good(w, r)
      <4>1. run[r].status = "freezing"
        BY <2>3, <3>1 DEF Freezing, Good, Enters, FreezePc
      <4>2. Underway(r)
        BY <1>1 DEF Executed, Stands, CommittedBy
      <4> QED BY <4>1, <4>2 DEF Underway
    <3> QED BY <2>3, <3>1, GoodWrites
  <2>4. ASSUME NEW w \in Workers, Work(w, r), Begins(w, r, m) PROVE child' = child
    <3>1. CASE Good(w, r)
      <4>1. Committed(w, r, m)
        BY <1>1, <1>a, <2>4, <3>1, NotAgain DEF Begins
      <4> QED BY <2>4, <4>1 DEF Begins
    <3> QED BY <2>4, <3>1, GoodWrites
  <2>5. ASSUME NEW w \in Workers, Closing(w, r, m) PROVE child'[r][m].n = child[r][m].n
    BY <2>5 DEF Closing
  <2> QED BY <1>1, <2>1, <2>2, <2>3, <2>4, <2>5, ChildMoves
<1>2. ASSUME NEW w \in Workers, Work(w, r), Committing(w, r, m)
      PROVE  child'[r][m].n = item'[m].ref[2]
  <2> DEFINE a == task[w][r].att
  <2>1. /\ task[w][r].pc = "pipe" /\ m = task[w][r].cur /\ item'[m].ref = <<r, a>>
        /\ child' = ChildEnded(r, m, a, "completed")
    BY <1>2 DEF Committing, Delivers
  <2>2. CASE Good(w, r)
    <3>1. child[r][m].n = a
      BY <2>1, <2>2 DEF Piping
    <3>2. item'[m].ref[2] = a
      <4> HIDE DEF a
      <4> QED BY <2>1, SMTT(40)
    <3>3. child' = ChildEnded(r, m, a, "completed")
      BY <2>1
    <3> HIDE DEF a
    <3>4. child'[r][m].n = child[r][m].n
      BY <1>a, <3>3, EndedChild
    <3> QED BY <3>1, <3>2, <3>4
  <2>3. CASE UNCHANGED <<child, item>>
    <3>1. Stands(r, m)
      BY <2>3 DEF Stands, CommittedBy
    <3>2. Live(r)
      BY <1>2, WorkBusy, RunProgress, <1>a DEF Rows, Claims
    <3> QED BY <1>b, <2>3, <3>1, <3>2 DEF Newest
  <2> QED BY <1>2, <2>2, <2>3, GoodWrites
<1> QED BY <1>1, <1>2, StandMoves

LEMMA NextRecalled ==
    ASSUME Safe, Marks, Recalled, [Next]_vars
    PROVE  Recalled'
<1> DEFINE Recall(w, r, m) ==
      LET seen == task'[w][r].seen[m] IN
      /\ item'[m].ref # None /\ item'[m].ref[1] = r /\ item'[m].status = "completed"
         => seen # None /\ seen.ref = item'[m].ref
      /\ (/\ item'[m].ref # None /\ item'[m].ref[1] = r /\ seen # None /\ seen.ref[1] = r
          /\ ~crossed'[r]) => seen.blocked = item'[m].blocked
<1> SUFFICES ASSUME NEW w \in Workers, NEW r \in Runs, NEW m \in Items,
                    Good(w, r)', task'[w][r].pc \in LoopPc, m \in task'[w][r].todo
             PROVE  Recall(w, r, m)
  BY SMTT(40) DEF Recalled, Stands, CommittedBy
<1>g. ~taken'[w][r] /\ run'[r].status \in LiveStatus /\ ~astray'[r]
  BY DEF Good, Fresh, Live
<1>r. ASSUME Good(w, r), task[w][r].pc \in LoopPc, m \in task[w][r].todo
      PROVE  LET seen == task[w][r].seen[m] IN
             /\ item[m].ref # None /\ item[m].ref[1] = r /\ item[m].status = "completed"
                => seen # None /\ seen.ref = item[m].ref
             /\ (/\ item[m].ref # None /\ item[m].ref[1] = r /\ seen # None /\ seen.ref[1] = r
                 /\ ~crossed[r]) => seen.blocked = item[m].blocked
  BY <1>r DEF Recalled, Stands, CommittedBy
<1>a. Rows
  BY DEF Safe, RowsAndMoves
<1>b. item \in [Items -> ItemRow]
  BY <1>a DEF Rows, StoreTypeOK
<1>1. task'[w][r].pc # "idle" /\ ~Starts(w, r)
  BY DEF Starts, LoopPc, Ops
<1>2. ~crossed'[r] => ~crossed[r]
  BY DEF Marks
<1>3. CASE Undisturbed(w, r)
  <2>1. /\ Good(w, r) /\ task'[w][r].seen = task[w][r].seen /\ task[w][r].pc \in LoopPc
        /\ m \in task[w][r].todo
    BY <1>1, <1>3, <1>g, GoodBefore DEF Undisturbed, Stays
  <2>2. item'[m].ref # None /\ item'[m].ref[1] = r =>
          /\ item'[m].ref = item[m].ref
          /\ item'[m].status = "completed" => item[m].status = "completed"
          /\ item'[m].blocked = item[m].blocked \/ crossed'[r]
    BY <1>3, <2>1 DEF Undisturbed, ItemsAside, Good
  <2> QED BY <1>2, <1>r, <2>1, <2>2
<1>4. CASE Work(w, r)
  <2>1. Good(w, r)
    BY <1>1, <1>4, <1>g, GoodBefore
  <2>2. ASSUME task[w][r].pc \in LoopPc, task'[w][r].seen = task[w][r].seen,
               m \in task[w][r].todo, item'[m] = item[m]
        PROVE  Recall(w, r, m)
    BY <1>2, <1>r, <2>1, <2>2
  <2>3. CASE Loads(w, r)
    <3>1. item' = item /\ task'[w][r].seen[m] = SeenItem(item[m])
      BY <2>3 DEF Loads
    <3>2. SeenItem(item[m]) # None => SeenItem(item[m]).ref = item[m].ref
                                      /\ SeenItem(item[m]).blocked = item[m].blocked
      BY DEF SeenItem
    <3>3. item[m].ref # None /\ item[m].status = "completed" => SeenItem(item[m]) # None
      <4>1. item[m].ref # None => item[m].ref \in Ref /\ item[m].blocked \in BOOLEAN
        BY <1>b DEF ItemRow
      <4>2. item[m].ref # None => [ref |-> item[m].ref, blocked |-> item[m].blocked] \in Seen
        BY <4>1 DEF Seen
      <4> QED BY <4>2, SeenAssumption DEF SeenItem
    <3> QED BY <3>1, <3>2, <3>3
  <2>4. CASE Proceeds(w, r)
    BY <2>2, <2>4 DEF Proceeds, LoopPc, Ops
  <2>5. ASSUME NEW n \in Items, Skips(w, r, n) \/ Begins(w, r, n) PROVE Recall(w, r, m)
    BY <2>2, <2>5 DEF Skips, Begins, LoopPc
  <2>6. ASSUME NEW n \in Items, Misses(w, r, n) PROVE Recall(w, r, m)
    BY <1>b, <2>2, <2>6 DEF Misses, LoopPc
  <2>7. ASSUME NEW b \in BOOLEAN, Delivers(w, r, b) PROVE Recall(w, r, m)
    <3>1. /\ task[w][r].pc \in LoopPc /\ task'[w][r].seen = task[w][r].seen
          /\ m \in task[w][r].todo /\ m # task[w][r].cur
      BY <2>7 DEF Delivers, LoopPc
    <3>2. item'[m] = item[m]
      BY <1>a, <2>7, <3>1, DeliversItem
    <3> QED BY <2>2, <3>1, <3>2
  <2>8. ~Checks(w, r)
    BY DEF Checks
  <2> QED BY <1>4, <2>3, <2>4, <2>5, <2>6, <2>7, <2>8, WorkMoves
          DEF Stops, Captures, Answers, Ranks, Freezes, Enters, WalksOn, LoopPc, Ops
<1> QED BY <1>1, <1>g, <1>3, <1>4, FreshTask

LEMMA NextEmptied ==
    ASSUME Safe, Emptied, [Next]_vars
    PROVE  Emptied'
<1> SUFFICES ASSUME NEW w \in Workers, NEW r \in Runs, task'[w][r].pc = "complete"
             PROVE  task'[w][r].todo = {}
  BY DEF Emptied
<1>1. CASE Stays(w, r)
  BY <1>1 DEF Emptied, Stays
<1>2. CASE Work(w, r)
  BY <1>2, WorkMoves
     DEF Stops, Captures, Answers, Ranks, Freezes, Enters, WalksOn, Loads, Proceeds, Checks,
         Skips, Begins, Misses, Delivers
<1>3. ~Starts(w, r)
  BY DEF Starts
<1> QED BY <1>1, <1>2, <1>3, AnyTask

LEMMA NextClean ==
    ASSUME Safe, Marks, Recalled, Piping, Clean, [Next]_vars
    PROVE  Clean'
<1> SUFFICES ASSUME NEW w \in Workers, NEW r \in Runs, task'[w][r].pc \in LoopPc, ~taken'[w][r],
                    run'[r].status \in LiveStatus, ~astray'[r], ~crossed'[r],
                    ~task'[w][r].failed, NEW m \in MembersOf[run'[r].cohort] \ task'[w][r].todo
             PROVE  /\ child'[r][m].st = "completed"
                    /\ item'[m].ref # None /\ item'[m].ref[1] = r => ~item'[m].blocked
  BY DEF Clean, Good, Fresh, Live, CommittedBy, Members
<1>a. Rows /\ item \in [Items -> ItemRow]
  BY DEF Safe, RowsAndMoves, Rows, StoreTypeOK
<1>b. ~crossed[r]
  BY DEF Marks
<1>1. task'[w][r].pc # "idle" /\ ~Starts(w, r)
  BY DEF Starts, LoopPc, Ops
<1>2. Undisturbed(w, r) \/ Work(w, r)
  BY <1>1, FreshTask
<1>3. Good(w, r)
  BY <1>1, <1>2, GoodBefore
<1>4. m \in Members(r) /\ m \in Items
  <2>1. run[r].status # "none"
    BY <1>3 DEF Good, Live, LiveStatus
  <2> QED BY <1>a, <2>1, RunProgress, MemberTypes DEF Members
<1>c. child[r][m] \in ChildRow
  BY <1>a, <1>4 DEF Rows, StoreTypeOK
<1>5. CASE Undisturbed(w, r)
  <2>1. child[r][m].st = "completed" /\ (CommittedBy(r, m) => ~item[m].blocked)
    BY <1>b, <1>3, <1>4, <1>5 DEF Undisturbed, Stays, Clean
  <2> QED BY <1>4, <1>5, <1>c, <2>1, FailedFields
          DEF Undisturbed, ChildAside, ItemsAside, CommittedBy
<1>6. CASE Work(w, r)
  <2>1. ASSUME task[w][r].pc \in LoopPc, ~task[w][r].failed, m \notin task[w][r].todo,
               item'[m] = item[m], child'[r][m] = child[r][m]
        PROVE  /\ child'[r][m].st = "completed"
               /\ item'[m].ref # None /\ item'[m].ref[1] = r => ~item'[m].blocked
    BY <1>b, <1>3, <1>4, <2>1 DEF Clean, CommittedBy
  <2>2. CASE Proceeds(w, r)
    BY <2>1, <2>2 DEF Proceeds, LoopPc, Ops
  <2>3. ASSUME NEW n \in Items, Skips(w, r, n)
        PROVE  /\ child'[r][m].st = "completed"
               /\ item'[m].ref # None /\ item'[m].ref[1] = r => ~item'[m].blocked
    <3>1. /\ UNCHANGED <<child, item>> /\ task[w][r].pc = "member" /\ ~task[w][r].failed
          /\ ~task[w][r].seen[n].blocked /\ n \in task[w][r].todo /\ Committed(w, r, n)
          /\ task'[w][r].todo = task[w][r].todo \ {n}
      BY <2>3 DEF Skips
    <3>2. CASE m = n
      <4>1. task[w][r].seen[m] # None /\ task[w][r].seen[m].ref[1] = r
            /\ child[r][m].st = "completed"
        BY <3>1, <3>2, SMTT(40) DEF Committed
      <4>2. CommittedBy(r, m) => task[w][r].seen[m].blocked = item[m].blocked
        BY <1>3, <1>b, <3>1, <3>2, <4>1 DEF Recalled, LoopPc
      <4> QED BY <3>1, <3>2, <4>1, <4>2 DEF CommittedBy
    <3>3. CASE m # n
      BY <2>1, <3>1, <3>3 DEF LoopPc
    <3> QED BY <3>2, <3>3
  <2>4. ASSUME NEW n \in Items, Begins(w, r, n)
        PROVE  /\ child'[r][m].st = "completed"
               /\ item'[m].ref # None /\ item'[m].ref[1] = r => ~item'[m].blocked
    <3>1. /\ task[w][r].pc \in LoopPc /\ ~task[w][r].failed /\ item' = item
          /\ m # n /\ m \notin task[w][r].todo
      BY <1>4, <2>4 DEF Begins, LoopPc
    <3>2. child'[r][m] = child[r][m]
      BY <1>a, <1>4, <2>4, <3>1, BeginsChild
    <3> QED BY <2>1, <3>1, <3>2
  <2>5. ASSUME NEW b \in BOOLEAN, Delivers(w, r, b)
        PROVE  /\ child'[r][m].st = "completed"
               /\ item'[m].ref # None /\ item'[m].ref[1] = r => ~item'[m].blocked
    <3> DEFINE n == task[w][r].cur
               a == task[w][r].att
    <3>1. /\ task[w][r].pc = "pipe" /\ child' = ChildEnded(r, n, a, "completed")
          /\ task'[w][r].todo = task[w][r].todo \ {n} /\ ~task[w][r].failed /\ b = FALSE
      BY <2>5 DEF Delivers
    <3>2. n \in Items /\ item'[n].blocked = b /\ (m # n => item'[m] = item[m])
      BY <1>a, <1>4, <2>5, DeliversItem, SMTT(40)
    <3>3. child[r][n].n = a
      BY <1>3, <3>1 DEF Piping
    <3>4. child'[r][n].st = "completed" /\ (m # n => child'[r][m] = child[r][m])
      <4> HIDE DEF n, a
      <4> QED BY <1>a, <1>4, <3>1, <3>2, <3>3, EndedChild
    <3>5. CASE m = n
      BY <3>1, <3>2, <3>4, <3>5
    <3>6. CASE m # n
      BY <2>1, <3>1, <3>2, <3>4, <3>6 DEF LoopPc
    <3> QED BY <3>5, <3>6
  <2>6. CASE Checks(w, r)
    <3>1. BrandBlocked(w, r) = {} /\ ~task[w][r].failed /\ task[w][r].todo = {} /\ child' = child
          /\ task[w][r].pc = "member"
      BY <2>6 DEF Checks
    <3>2. item'[m] = item[m]
      BY <1>4, <2>6, <3>1 DEF Checks
    <3> QED BY <2>1, <3>1, <3>2 DEF LoopPc
  <2>7. ~Loads(w, r)
    BY <1>4 DEF Loads
  <2>8. \A n \in Items : ~Misses(w, r, n)
    BY DEF Misses
  <2> QED BY <1>6, <2>2, <2>3, <2>4, <2>5, <2>6, <2>7, <2>8, WorkMoves
          DEF Stops, Captures, Answers, Ranks, Freezes, Enters, WalksOn, LoopPc, Ops
<1> QED BY <1>2, <1>5, <1>6

-----------------------------------------------------------------------------
(* The invariant.                                                          *)

Claimed ==
    /\ Safe /\ FreshOwns
    /\ Phases
    /\ Views /\ Snaps /\ Order /\ Walks /\ FrozenUnderOneAuthority
    /\ CommittedTogether /\ Piping /\ Newest /\ Recalled
    /\ Clean /\ Emptied

LEMMA InitClaimed == HistoryInit => Claimed
<1> SUFFICES ASSUME HistoryInit PROVE Claimed
  OBVIOUS
<1>1. \A w \in Workers, r \in Runs : task[w][r].pc = "idle"
  BY DEF HistoryInit, Init, WorkerInit, Idle
<1>2. /\ \A r \in Runs : run[r].frozen = None /\ run[r].status = "none"
      /\ \A r \in Runs, m \in Items : child[r][m].snap = 0 /\ child[r][m].st = "none"
      /\ \A m \in Items : item[m].ref = None
      /\ authority = 1
  BY DEF HistoryInit, Init, StoreInit, NoRun, NoChild, NewItem
<1>3. Safe
  BY InitSafe DEF HistoryInit
<1>4. FreshOwns /\ Phases /\ Piping /\ Recalled /\ Clean /\ Emptied
  BY <1>1, <1>2 DEF FreshOwns, Fresh, Good, Phases, Started, Freezing, Executed, Piping, Recalled,
                    Clean, Emptied, LoopPc, FreezePc, Ops
<1>5. Views /\ Order /\ Walks /\ Snaps
  <2>1. Views /\ Walks
    BY <1>1, <1>2 DEF Views, Walks, Touches, FreezePc
  <2>2. Order
    BY <1>1, <1>2 DEF Order, FreezePc
  <2>3. Snaps
    BY <1>1, <1>2 DEF Snaps
  <2> QED BY <2>1, <2>2, <2>3
<1>6. FrozenUnderOneAuthority /\ CommittedTogether /\ Newest
  BY <1>2 DEF FrozenUnderOneAuthority, CommittedTogether, Newest, Stands, CommittedBy
<1> QED BY <1>3, <1>4, <1>5, <1>6 DEF Claimed

LEMMA HistorySteps == [HistoryNext]_claimVars => [Next]_vars
BY DEF HistoryNext, claimVars

LEMMA NextClaimed == Claimed /\ [HistoryNext]_claimVars => Claimed'
<1> SUFFICES ASSUME Claimed, [HistoryNext]_claimVars PROVE Claimed'
  OBVIOUS
<1>1. [Next]_vars
  BY HistorySteps
<1>2. Marks
  BY StepMarks DEF Claimed
<1>3. Safe' /\ FreshOwns'
  BY <1>1, <1>2, NextSafe DEF Claimed, Marks, FreshOwns, Fresh
<1>4. Phases'
  BY <1>1, <1>2, NextStarted, NextFreezing, NextExecuted DEF Claimed, Phases
<1>5. Views' /\ Snaps' /\ Order'
  BY <1>1, <1>2, NextViews, NextSnaps, NextOrder DEF Claimed
<1>6. Walks' /\ FrozenUnderOneAuthority'
  BY <1>1, <1>2, <1>5, NextWalks, NextFrozen DEF Claimed, Phases
<1>7. CommittedTogether' /\ Piping' /\ Newest' /\ Recalled'
  BY <1>1, <1>2, NextCommitted, NextPiping, NextNewest, NextRecalled DEF Claimed, Phases
<1>8. Clean' /\ Emptied'
  BY <1>1, <1>2, NextClean, NextEmptied DEF Claimed
<1> QED BY <1>3, <1>4, <1>5, <1>6, <1>7, <1>8 DEF Claimed

LEMMA AlwaysClaimed == HistorySpec => []Claimed
BY InitClaimed, NextClaimed, PTL DEF HistorySpec

-----------------------------------------------------------------------------
(* The theorems.                                                           *)

\* Whatever authorities the interrupted freezes of a run captured, what it
\* froze is of the last one: the snapshot of every member's child
\* (freezeCohortForExecution rebinds or replaces it), and its OCR, run again or
\* else marked stale (invalidateStaleStoredOcr), the cap reached or not.
THEOREM OneAuthority == HistorySpec => []FrozenUnderOneAuthority
<1>1. Claimed => FrozenUnderOneAuthority
  BY DEF Claimed
<1> QED BY <1>1, AlwaysClaimed, PTL

\* The projection commit is atomic with the success of its child run, and
\* nothing fails that child later: what an item refers to did complete.
THEOREM CommitsAreAtomic == HistorySpec => []CommittedTogether
<1>1. Claimed => CommittedTogether
  BY DEF Claimed
<1> QED BY <1>1, AlwaysClaimed, PTL

\* The resume guard of processCohort is sound: a member that stands completed
\* under a run is not committed again by it, after any number of crashes,
\* reclaims and operator resets.
THEOREM CommittedOnce == HistorySpec => CommittedOncePerRun
<1> DEFINE Once == \A m \in Items :
         /\ item[m].ref # None
         /\ item[m].status = "completed"
         /\ item'[m].ref \notin {None, item[m].ref}
         /\ ~astray'[item[m].ref[1]]
         => item'[m].ref[1] # item[m].ref[1]
<1>1. Claimed /\ [HistoryNext]_claimVars => Once
  <2> SUFFICES ASSUME Claimed, [HistoryNext]_claimVars, NEW m \in Items, NEW r \in Runs,
                      item[m].ref # None, item[m].ref[1] = r, item[m].status = "completed",
                      item'[m].ref \notin {None, item[m].ref}, ~astray'[r], item'[m].ref[1] = r
               PROVE  FALSE
    <3>1. \A m \in Items : Claimed /\ item[m].ref # None => item[m].ref[1] \in Runs
      BY DEF Claimed, Safe, RowsAndMoves, Rows, StoreTypeOK, ItemRow, Ref
    <3> QED BY <3>1
  <2>1. Safe /\ Marks /\ [Next]_vars /\ Piping
    BY StepMarks, HistorySteps DEF Claimed
  <2>2. PICK w \in Workers, x \in Runs : Work(w, x) /\ Committing(w, x, m)
    BY <2>1, RefMoves
  <2>3. x = r /\ task[w][r].pc = "pipe" /\ m = task[w][r].cur
    <3>1. item'[m].ref = <<x, task[w][x].att>> /\ task[w][x].pc = "pipe" /\ m = task[w][x].cur
      BY <2>2 DEF Committing, Delivers
    <3>2. item'[m].ref[1] = x
      <4> DEFINE a == task[w][x].att
      <4>1. item'[m].ref = <<x, a>>
        BY <3>1
      <4> HIDE DEF a
      <4> QED BY <4>1
    <3>3. x = r
      BY <3>2
    <3> QED BY <3>1, <3>3
  <2>4. Good(w, r)
    BY <2>1, <2>2, <2>3, GoodWrites
  <2>5. ~Stands(r, m)
    BY <2>1, <2>3, <2>4 DEF Piping
  <2> QED BY <2>5 DEF Stands, CommittedBy
<1> QED BY <1>1, AlwaysClaimed, PTL DEF HistorySpec, CommittedOncePerRun

\* A run is completed by the terminal write of the worker that owns it.
LEMMA CompletesRun ==
    ASSUME Safe, [Next]_vars, NEW r \in Runs, run[r].status # "completed",
           run'[r].status = "completed"
    PROVE  \E w \in Workers : Complete(w, r) /\ Held(w, r) /\ ~task[w][r].failed
<1>a. Rows /\ run \in [Runs -> RunRow] /\ run[r] \in RunRow
  BY DEF Safe, RowsAndMoves, Rows, StoreTypeOK
<1>1. ~Background
  BY DEF Background, Aside, RunAside
<1>2. PICK w \in Workers : Work(w, r)
  <2>1. \A w \in Workers, x \in Runs : Work(w, x) => x = r
    BY <1>a, WorkEffect DEF HolderStep
  <2> QED BY <1>1, <2>1, StepSorts
<1>3. \A s : RunsWithStatus(r, s)[r].status = s
  BY <1>a DEF RunsWithStatus, RunRow
<1>4. RenewedRuns(w, r)[r].status = run[r].status
  BY <1>a, RenewedStatus
<1>5. ~LostDuringCall(w, r)
  BY DEF LostDuringCall, store
<1>6. ~Freeze(w, r)
  <2>1. ~FreezeCommits(w, r) /\ ~FreezeConflicts(w, r)
    <3>1. ASSUME NEW s \in {"running", "failed"}, NEW f,
                 run' = [run EXCEPT ![r].status = s, ![r].frozen = f]
          PROVE  run'[r].status # "completed"
      <4>1. run'[r] = [run[r] EXCEPT !.status = s, !.frozen = f]
        BY <1>a, <3>1
      <4>2. run'[r].status = s
        BY <1>a, <4>1 DEF RunRow
      <4> QED BY <4>2
    <3>2. \A b \in BOOLEAN :
            run' # [run EXCEPT ![r].status = "running", ![r].frozen = FrozenBy(w, r, b)]
      BY <3>1
    <3>3. run' # [run EXCEPT ![r].status = "failed", ![r].frozen = FrozenBy(w, r, FALSE)]
      BY <3>1
    <3> QED BY <3>2, <3>3 DEF FreezeCommits, FreezeConflicts
  <2>2. Freeze(w, r) => run' = run \/ run' = RenewedRuns(w, r)
                        \/ run' = RunsWithStatus(r, "superseded")
    BY <2>1 DEF Freeze, FreezeAborts, FreezeLoad, FreezeMember, FreezeBlocked, OcrReturns,
                RankReturns, FreezeDrifts, FreezeOwnershipLost, FreezeLosesClaim, OcrThrows, store
  <2> QED BY <1>3, <1>4, <2>2
<1>7. Complete(w, r)
  <2>1. /\ ~CopyTitles(w, r)
        /\ OpReturns(w, r) => \/ run' = run \/ run' = RunsWithStatus(r, "superseded")
    <3>1. CopyTitles(w, r) => run'[r].status = run[r].status
      BY <1>a, OutputHolds DEF CopyTitles, Ops
    <3>2. OpReturns(w, r) => run' = run \/ run' = RunsWithStatus(r, "superseded")
                             \/ run'[r].status = run[r].status
      BY <1>a, OutputHolds DEF OpReturns, KeeperHolds, SupersedeOwned
    <3> QED BY <3>1, <3>2
  <2>2. Execute(w, r) => run' = run \/ run' = RenewedRuns(w, r)
                         \/ run' = RunsWithStatus(r, "superseded") \/ Complete(w, r)
    BY <2>1 DEF Execute, ExecLoad, OutputDrift, CallOp, OpThrows, OpsDone,
           SkipMember, StartMember, MemberRefused, MemberFails, PipelineCommits, PipelineFails,
           CheckBrands, ExecLosesClaim, SupersedeOwned, store
  <2> QED BY <1>2, <1>3, <1>4, <1>5, <1>6, <2>2 DEF Work
<1> QED BY <1>3, <1>7 DEF Complete

\* completeCohortRun under its owner guard tells the truth: a task that kept
\* its claim closes a run without member failures only over children that all
\* completed, and over nothing of its own that is blocked.
THEOREM CompletionIsClean == HistorySpec => CleanCompletion
<1> DEFINE IsClean == \A w \in Workers, r \in Runs :
         /\ run[r].owner = w
         /\ run[r].status # "completed" /\ run'[r].status = "completed"
         /\ ~taken[w][r] /\ ~astray[r] /\ ~crossed[r]
         => \A m \in Members(r) :
              /\ child[r][m].st = "completed"
              /\ CommittedBy(r, m) => ~item[m].blocked
<1>1. Claimed /\ [HistoryNext]_claimVars => IsClean
  <2> SUFFICES ASSUME Claimed, [HistoryNext]_claimVars, NEW w \in Workers, NEW r \in Runs,
                      run[r].owner = w,
                      run[r].status # "completed", run'[r].status = "completed",
                      ~taken[w][r], ~astray[r], ~crossed[r], NEW m \in Members(r)
               PROVE  child[r][m].st = "completed" /\ (CommittedBy(r, m) => ~item[m].blocked)
    OBVIOUS
  <2>1. Complete(w, r) /\ Live(r) /\ ~task[w][r].failed
    BY CompletesRun, HistorySteps, HeldLive DEF Claimed
  <2>2. task[w][r].pc = "complete" /\ task[w][r].todo = {} /\ Good(w, r)
    BY <2>1 DEF Complete, At, Claimed, Emptied, Good, Fresh
  <2> QED BY <2>1, <2>2 DEF Claimed, Clean, LoopPc
<1> QED BY <1>1, AlwaysClaimed, PTL DEF HistorySpec, CleanCompletion
=============================================================================

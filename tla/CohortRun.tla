----------------------------- MODULE CohortRun -----------------------------
(***************************************************************************)
(* Cohort Curation as a whole: the workers with their freezes and          *)
(* executions, the continuation to Review and Promotion, and what else     *)
(* operators and the rest of the pipeline may do to the same rows.         *)
(***************************************************************************)
EXTENDS CohortReview

CONSTANTS
    Disturbances,   \* which of the operator actions below this system meets
    MaxMoves        \* bound: how many of them, reviews apart

ASSUME MovesAssumption ==
    /\ Disturbances \subseteq {"edit", "authority", "pause", "wait", "regroup",
                               "rerun", "reset", "review"}
    /\ MaxMoves \in Nat

VARIABLE moves      \* operator actions so far

vars == <<store, worker, moves>>

Move(kind) == kind \in Disturbances /\ moves < MaxMoves /\ moves' = moves + 1

TypeOK == StoreTypeOK /\ WorkerTypeOK /\ moves \in 0..MaxMoves

Init == StoreInit /\ WorkerInit /\ moves = 0

-----------------------------------------------------------------------------
(* Operators and the candidate-cohort refresh.                             *)

\* The members of a family that is rerun start Curation over.
MembersReset(c) ==
    [m \in Items |-> IF m \in MembersOf[c] THEN CurationReset(item[m]) ELSE item[m]]

\* Variant: a revision in flight is superseded like a decided one.
RerunWhileLive(c, r) ==
    /\ Move("rerun")
    /\ IsCurrent(r, c)
    /\ \A m \in MembersOf[c] : item[m].stage \in {"review", "curation"}
    /\ run' = RunsWithStatus(r, "superseded")
    /\ child' = ChildrenFailed(r)
    /\ item' = MembersReset(c)
    /\ UNCHANGED <<evidence, cohort, batch, authority, worker>>

\* Variant: the running children of the superseded revision are left behind.
RerunLeavingChildren(c, r) ==
    /\ Move("rerun")
    /\ IsCurrent(r, c) /\ ~Live(r)
    /\ \A m \in MembersOf[c] : item[m].stage \in {"review", "curation"}
    /\ run' = RunsWithStatus(r, "superseded")
    /\ item' = MembersReset(c)
    /\ UNCHANGED <<child, evidence, cohort, batch, authority, worker>>

\* rerunIdleCohortRevision: refused while the parent is live or a member is
\* past Review; otherwise supersede and reset in one transaction.
Rerun(c, r) ==
    /\ Move("rerun")
    /\ IsCurrent(r, c) /\ ~Live(r)
    /\ \A m \in MembersOf[c] : item[m].stage \in {"review", "curation"}
    /\ run' = RunsWithStatus(r, "superseded")
    /\ child' = ChildrenFailed(r)
    /\ item' = MembersReset(c)
    /\ UNCHANGED <<evidence, cohort, batch, authority, worker>>

\* resetItemsToPending: review and promotion items keep their curation data.
ResetItem(m) ==
    /\ Move("reset")
    /\ child' = ItemChildrenFailed(m)
    /\ item' = [item EXCEPT ![m] =
         IF @.stage = "curation" THEN CurationReset(@) ELSE [@ EXCEPT !.status = "pending"]]
    /\ UNCHANGED <<run, evidence, cohort, batch, authority, worker>>

\* PUT /onboarding/items/:id with extraction_data, at any stage: the review
\* and approval of the item end, and an approved item returns to Review.
EditEvidence(m) ==
    /\ Move("edit")
    /\ evidence[m].edit < MaxEdits
    /\ evidence' = [evidence EXCEPT ![m].edit = @ + 1]
    /\ item' = [item EXCEPT ![m] = Unreviewed(@)]
    /\ UNCHANGED <<run, child, cohort, batch, authority, worker>>

\* The human gates, in the systems that meet them.
Review(m) ==
    /\ "review" \in Disturbances
    /\ \/ Advance(m) \/ TryReview(m) \/ CompleteReview(m) \/ Approve(m)
    /\ UNCHANGED moves

\* The configuration, the Page catalog or the model policy changes.
ChangeAuthority ==
    /\ Move("authority")
    /\ authority < MaxAuthority
    /\ authority' = authority + 1
    /\ UNCHANGED <<run, child, item, evidence, cohort, batch, worker>>

\* The refresh realigns readiness when a member goes back or catches up.
CohortWaits(c) ==
    /\ Move("wait")
    /\ cohort[c] = "ready"
    /\ cohort' = [cohort EXCEPT ![c] = "waiting"]
    /\ UNCHANGED <<run, child, item, evidence, batch, authority, worker>>

CohortReady(c) ==
    /\ cohort[c] = "waiting"
    /\ cohort' = [cohort EXCEPT ![c] = "ready"]
    /\ UNCHANGED <<run, child, item, evidence, batch, authority, worker, moves>>

\* A membership change supersedes the candidate row and forms the next one;
\* runs are not touched.
Regroup(c) ==
    /\ Move("regroup")
    /\ cohort[c] \in {"waiting", "ready"}
    /\ c + 1 \in Cohorts
    /\ cohort' = [cohort EXCEPT ![c] = "superseded", ![c + 1] = "waiting"]
    /\ UNCHANGED <<run, child, item, evidence, batch, authority, worker>>

PauseBatch ==
    /\ Move("pause")
    /\ batch
    /\ batch' = FALSE
    /\ UNCHANGED <<run, child, item, evidence, cohort, authority, worker>>

ResumeBatch ==
    /\ ~batch
    /\ batch' = TRUE
    /\ UNCHANGED <<run, child, item, evidence, cohort, authority, worker, moves>>

-----------------------------------------------------------------------------
Poll(w) ==
    \/ ReclaimResume(w)
    \/ ReclaimSupersede(w)
    \/ \E r \in Runs : Observe(w, r) \/ Reconcile(w, r)
    \/ \E c \in Cohorts : Claim(w, c)

Work(w, r) == Freeze(w, r) \/ Execute(w, r) \/ LostDuringCall(w, r)

Operate ==
    \/ \E m \in Items : Review(m) \/ ResetItem(m) \/ EditEvidence(m)
    \/ \E c \in Cohorts : CohortWaits(c) \/ CohortReady(c) \/ Regroup(c)
    \/ \E c \in Cohorts, r \in Runs : Rerun(c, r)
    \/ ChangeAuthority \/ PauseBatch \/ ResumeBatch

Next ==
    \/ \E w \in Workers : Poll(w) /\ UNCHANGED moves
    \/ \E w \in Workers, r \in Runs : Work(w, r) /\ UNCHANGED moves
    \/ \E m \in Items : AutoAdvance(m) /\ UNCHANGED moves
    \/ Operate
    \/ \E w \in Workers : Crash(w) /\ UNCHANGED moves
    \/ \E S \in SUBSET Workers : Tick(S) /\ UNCHANGED moves

Spec == Init /\ [][Next]_vars

\* The worker polls on an interval and a dispatched task runs to its next
\* await; time passes; operators end their pauses and families complete.
\* A call that is retried for ever is answered at last.
Fairness ==
    /\ \A w \in Workers : WF_vars(Poll(w) /\ UNCHANGED moves)
    /\ \A w \in Workers, r \in Runs :
         /\ WF_vars(Work(w, r) /\ UNCHANGED moves)
         /\ SF_vars((OcrReturns(w, r) \/ OpReturns(w, r)) /\ UNCHANGED moves)
    /\ WF_vars(Tick({}) /\ UNCHANGED moves)
    /\ WF_vars(ResumeBatch)
    /\ \A c \in Cohorts : WF_vars(CohortReady(c))

FairSpec == Spec /\ Fairness
=============================================================================

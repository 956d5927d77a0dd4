---------------------------- MODULE CohortReview ----------------------------
(***************************************************************************)
(* The way of a curated item out of Curation: the automatic continuation   *)
(* to Review, and the operator routes that review it, approve it and move  *)
(* it on to Promotion.  Each reads the item, the status of the run that    *)
(* curated it and the durable review record, and writes in one go.         *)
(***************************************************************************)
EXTENDS CohortExecute

Onward(m, stage) == [item EXCEPT ![m].stage = stage, ![m].status = "pending"]

\* advanceCurationItemToReview, run by every worker's poll: not while the run
\* that curated the item is in flight.
AutoAdvance(m) ==
    /\ item[m].stage = "curation" /\ item[m].status = "completed"
    /\ item[m].ref # None
    /\ ~item[m].blocked
    /\ ~Live(item[m].ref[1])
    /\ item' = Onward(m, "review")
    /\ UNCHANGED <<run, child, evidence, cohort, batch, authority, worker>>

\* The advance route: out of Curation unconditionally, out of Review under a
\* durable review that no edit has invalidated.
Advance(m) ==
    /\ item[m].status = "completed"
    /\ \/ item[m].stage = "curation" /\ item' = Onward(m, "review")
       \/ /\ item[m].stage = "review"
          /\ ~item[m].blocked
          /\ item[m].reviewed # None
          /\ item' = Onward(m, "promotion")
    /\ UNCHANGED <<run, child, evidence, cohort, batch, authority, worker>>

-----------------------------------------------------------------------------
(* validateReviewCompletionGate, less the decisions on the proposals.      *)

ParentReviewable(i) == run[i.ref[1]].status \in {"completed", "member_failures"}

ChildSucceeded(m) ==
    LET ch == child[item[m].ref[1]][m] IN ch.n = item[m].ref[2] => ch.st = "completed"

ReviewGate(m) ==
    /\ item[m].ref # None
    /\ ChildSucceeded(m)
    /\ ParentReviewable(item[m])
    /\ ~item[m].blocked

\* A review-complete request is refused as a whole when one of its items
\* fails; the proposals it auto-accepted while validating stay accepted.
TryReview(m) ==
    /\ item[m].stage = "review"
    /\ item[m].ref # None
    /\ item' = [item EXCEPT ![m].accepted = item[m].ref]
    /\ UNCHANGED <<run, child, evidence, cohort, batch, authority, worker>>

CompleteReview(m) ==
    /\ item[m].stage = "review"
    /\ ReviewGate(m)
    /\ item' = [item EXCEPT ![m].status = "completed", ![m].accepted = item[m].ref,
                            ![m].reviewed = item[m].ref, ![m].approved = FALSE]
    /\ UNCHANGED <<run, child, evidence, cohort, batch, authority, worker>>

\* Bulk approval: the gate again with every proposal decided, a valid review,
\* and no approval yet.
Approve(m) ==
    /\ item[m].stage = "review" /\ item[m].status = "completed"
    /\ item[m].reviewed # None
    /\ ~item[m].approved
    /\ ReviewGate(m)
    /\ item[m].accepted = item[m].ref
    /\ item' = [Onward(m, "promotion") EXCEPT ![m].approved = TRUE]
    /\ UNCHANGED <<run, child, evidence, cohort, batch, authority, worker>>

\* markReviewInvalidated and reopenApprovedForReapproval, after an edit.
Unreviewed(i) ==
    IF i.stage = "promotion" /\ i.approved /\ i.reviewed # None
    THEN [i EXCEPT !.reviewed = None, !.approved = FALSE, !.stage = "review", !.status = "pending"]
    ELSE IF i.reviewed # None THEN [i EXCEPT !.reviewed = None, !.approved = FALSE] ELSE i
=============================================================================

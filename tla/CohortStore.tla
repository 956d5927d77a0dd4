---------------------------- MODULE CohortStore ----------------------------
(***************************************************************************)
(* The durable state that cohort Curation works on, and the row operations *)
(* every writer of it goes through: the parent runs of a product family    *)
(* (classification_cohort_runs), their per-item child runs                 *)
(* (classification_runs), the onboarding items with the evidence extracted *)
(* for them, and the candidate cohort rows.  Each operator below is one    *)
(* SQL statement or one transaction of the repositories; CohortRun         *)
(* composes them into the actions of the worker, the freeze engine, the    *)
(* executor and the operator routes.                                       *)
(***************************************************************************)
EXTENDS Naturals, FiniteSets

CONSTANTS
    Workers,        \* onboarding workers polling the same database
    Items,          \* onboarding items, numbered by their ordinal in the family
    Cohorts,        \* successive candidate rows of one product family
    MembersOf,      \* the item set each candidate row was formed with
    Runs,           \* room for parent runs
    TTL,            \* lease time-to-live, in ticks of the model's clock
    MaxAuthority,   \* bound: versions of the configuration/page/policy authority
    MaxEdits,       \* bound: operator edits of one item's extraction data
    None            \* SQL NULL

ASSUME WorkersAssumption == IsFiniteSet(Workers) /\ None \notin Workers
ASSUME ItemsAssumption   == Items \subseteq Nat /\ IsFiniteSet(Items)
ASSUME CohortsAssumption == Cohorts \subseteq Nat \ {0} /\ None \notin Cohorts /\ 1 \in Cohorts
ASSUME MembersAssumption == MembersOf \in [Cohorts -> SUBSET Items]
ASSUME RunsAssumption    == Runs \subseteq Nat \ {0} /\ None \notin Runs
ASSUME BoundsAssumption  == /\ TTL \in Nat \ {0}
                            /\ MaxAuthority \in Nat \ {0}
                            /\ MaxEdits \in Nat

-----------------------------------------------------------------------------
(* Row shapes.                                                             *)

\* completed_with_abstentions and completed are told apart by wording only.
LiveStatus     == {"freezing", "running"}
SettledStatus  == {"completed", "member_failures", "failed"}
TerminalStatus == SettledStatus \cup {"superseded"}
RunStatus      == {"none"} \cup LiveStatus \cup TerminalStatus

Authorities == 1..MaxAuthority

\* edit: which operator edit the extraction data carries; ocr: the authority
\* whose digest its packaging OCR is stored under, 0 when it has none; stale:
\* the marker that says the stored OCR is of another authority.
Evidence   == [edit : 0..MaxEdits, ocr : 0..MaxAuthority, stale : BOOLEAN]
NoEvidence == [edit |-> 0, ocr |-> 0, stale |-> FALSE]

\* What a run froze: the members' evidence, the authority, and whether the
\* frozen brand evidence of the members disagrees.
Frozen == [evidence : [Items -> Evidence], authority : Authorities, brand : BOOLEAN]

Ops == {"title", "page"}

RunRow == [status : RunStatus, cohort : Cohorts \cup {None}, owner : Workers \cup {None},
           lease : 0..TTL, frozen : Frozen \cup {None}, outputs : SUBSET Ops]
NoRun  == [status |-> "none", cohort |-> None, owner |-> None,
           lease |-> 0, frozen |-> None, outputs |-> {}]

\* The newest child run of an item under a parent run; n counts the child
\* rows created so far, the older ones all being terminal.
ChildRow == [st : {"none", "running", "completed", "failed"}, n : Nat,
             snap : 0..MaxAuthority, used : BOOLEAN]
NoChild  == [st |-> "none", n |-> 0, snap |-> 0, used |-> FALSE]

\* ref: the child run the item's curation data was committed by; accepted:
\* the one whose proposals were last decided; reviewed: the one in place when
\* the durable review was recorded, None while there is no valid review;
\* approved: the approval on that review.
Ref     == Runs \X Nat
ItemRow == [stage : {"curation", "review", "promotion"},
            status : {"pending", "completed", "failed"},
            ref : Ref \cup {None}, blocked : BOOLEAN,
            accepted : Ref \cup {None}, reviewed : Ref \cup {None}, approved : BOOLEAN]
NewItem == [stage |-> "curation", status |-> "pending", ref |-> None, blocked |-> FALSE,
            accepted |-> None, reviewed |-> None, approved |-> FALSE]

VARIABLES
    run,        \* parent runs
    child,      \* child[r][m], the newest child of item m under run r
    item,       \* onboarding_items
    evidence,   \* the extraction data of each item
    cohort,     \* status of each candidate row
    batch,      \* the batch is active and its execution_state is running
    authority   \* current configuration/page/policy authority

store == <<run, child, item, evidence, cohort, batch, authority>>

StoreTypeOK ==
    /\ run \in [Runs -> RunRow]
    /\ child \in [Runs -> [Items -> ChildRow]]
    /\ item \in [Items -> ItemRow]
    /\ evidence \in [Items -> Evidence]
    /\ cohort \in [Cohorts -> {"none", "waiting", "ready", "superseded"}]
    /\ batch \in BOOLEAN
    /\ authority \in Authorities

\* A family whose members are all extracted, before any of its OCR.
StoreInit ==
    /\ run = [r \in Runs |-> NoRun]
    /\ child = [r \in Runs |-> [m \in Items |-> NoChild]]
    /\ item = [m \in Items |-> NewItem]
    /\ evidence = [m \in Items |-> NoEvidence]
    /\ cohort = [c \in Cohorts |-> IF c = 1 THEN "ready" ELSE "none"]
    /\ batch = TRUE
    /\ authority = 1

-----------------------------------------------------------------------------
(* What a statement's WHERE clause asks.                                   *)

Live(r)     == run[r].status \in LiveStatus
Settled(r)  == run[r].status \in SettledStatus

\* Variant: a reclaim that looks for interrupted freezes only.
ExpiredFreeze(r) == run[r].status = "freezing" /\ run[r].lease = 0
Expired(r)       == Live(r) /\ run[r].lease = 0

\* The predicate every heartbeat, and so every ownership assertion, uses.
Held(w, r)  == Live(r) /\ run[r].owner = w

\* The one non-superseded run a candidate row may have.
IsCurrent(r, c)  == run[r].cohort = c /\ run[r].status \notin {"none", "superseded"}

\* Variant: a decided run does not stand in the way of a claim.
HasLiveRun(c)    == \E r \in Runs : run[r].cohort = c /\ Live(r)
HasCurrentRun(c) == \E r \in Runs : IsCurrent(r, c)

Members(r)  == MembersOf[run[r].cohort]

\* Every member is past Curation, so there is nothing left to curate.
AllPastCuration(c) == \A m \in MembersOf[c] : item[m].stage # "curation"

\* The evidence the frozen projection of a run covers, as it is now.
MemberEvidence(r) ==
    [m \in Items |-> IF m \in Members(r) THEN evidence[m] ELSE NoEvidence]

\* verifyCohortRunFrozen: a live freeze that froze nothing matches vacuously.
FrozenWorldMatches(r) ==
    IF run[r].frozen = None
    THEN run[r].status = "freezing"
    ELSE /\ cohort[run[r].cohort] = "ready"
         /\ run[r].frozen.evidence = MemberEvidence(r)
         /\ run[r].frozen.authority = authority

\* idx_classification_runs_one_running_item: another parent's child still
\* runs for this item, so a new running row for it is refused.
ItemRunsElsewhere(r, m) == \E x \in Runs \ {r} : child[x][m].st = "running"

-----------------------------------------------------------------------------
(* What a statement writes.                                                *)

\* Variant: a claim that outlives the lease the reclaim reckons with.
ClaimedTooLong(c, w) == [NoRun EXCEPT !.status = "freezing", !.cohort = c,
                                      !.owner = w, !.lease = TTL + 1]

ClaimedRun(c, w) == [NoRun EXCEPT !.status = "freezing", !.cohort = c,
                                  !.owner = w, !.lease = TTL]

\* heartbeatCohortRun: nothing is written for a run that is not w's to renew.
RenewedRuns(w, r)  == IF Held(w, r) THEN [run EXCEPT ![r].lease = TTL] ELSE run
ResumedRuns(r, w)  == [run EXCEPT ![r].owner = w, ![r].lease = TTL]
RunsWithStatus(r, s) == [run EXCEPT ![r].status = s]

\* Supersession and conflict fail the run's running children in the same
\* transaction.
FailedChild(ch)    == IF ch.st = "running" THEN [ch EXCEPT !.st = "failed"] ELSE ch
\* Variant: the parent's status changes alone.
ChildrenLeft(r) == child

ChildrenFailed(r)  == [child EXCEPT ![r] = [m \in Items |-> FailedChild(child[r][m])]]

\* createRun: a new running row becomes the newest child of the item.
NewChild(ch, snap) == [st |-> "running", n |-> ch.n + 1, snap |-> snap, used |-> FALSE]

\* completeRun addresses a child by id; n tells whether it is the newest.
\* Variant: the projection is committed and the child run left for later.
ChildLeftRunning(r, m, n, st) == child

ChildEnded(r, m, n, st) ==
    IF child[r][m].n = n THEN [child EXCEPT ![r][m].st = st] ELSE child

\* Back to curation/pending without curation data; the review record stays.
CurationReset(i) == [i EXCEPT !.stage = "curation", !.status = "pending",
                              !.ref = None, !.blocked = FALSE]

\* resetItemsToPending fails the item's running child wherever it is.
\* Variant: the UPDATE without its status guard.
EveryItemChildFailed(m) ==
    [r \in Runs |-> [child[r] EXCEPT ![m].st = IF @ = "none" THEN @ ELSE "failed"]]

ItemChildrenFailed(m) ==
    [r \in Runs |-> [child[r] EXCEPT ![m] = FailedChild(child[r][m])]]
=============================================================================

----------------------------- MODULE ItemStore -----------------------------
(***************************************************************************)
(* The onboarding_items rows of one workspace, from Sourcing to the door   *)
(* of Review, and the writes of onboarding-item-repo.ts on them.  Most of  *)
(* these updates name the row by its id alone: whoever calls them, in      *)
(* whatever stage the row has come to meanwhile, they apply.               *)
(*                                                                         *)
(* Items are numbered by their row_number.  A page is a confirmed source   *)
(* URL, numbered by the order of confirmation; Record is the distributor   *)
(* record that takes its place for a distributor-sourced item.             *)
(***************************************************************************)
EXTENDS Integers, FiniteSets

CONSTANTS
    Items,      \* items of the batch, by row number
    Workers,    \* worker objects a process may ever construct
    MaxPages,   \* bound: source URLs ever confirmed for an item
    MaxGens,    \* bound: sourcing generations of an item
    None

ASSUME StoreAssumption ==
    /\ Items \subseteq Nat /\ IsFiniteSet(Items)
    /\ MaxPages \in Nat /\ MaxGens \in Nat \ {0}
    /\ None \notin Workers /\ None \notin Int

Record == 0
Absent == -1
Pages == 1..MaxPages
Sources == {Absent, Record} \cup Pages

Stages == {"sourcing", "discovery", "extraction", "curation", "review"}
Statuses == {"pending", "in_progress", "completed", "failed", "needs_input", "skipped"}
Blocked == {"failed", "needs_input"}

Row == [stage : Stages, st : Statuses,
        owner : Workers \cup {None},    \* claimed_by
        record : BOOLEAN,               \* source_type is 'distributor_record'
        page : Pages \cup {Absent},     \* source_url
        data : Sources,                 \* what extraction_data_json stems from
        curated : Sources,              \* what curation_data_json stems from
        retry : 0..2,
        noProfile : BOOLEAN,            \* the error is a missing extractor profile
        held : BOOLEAN,
        gen : 0..MaxGens,               \* current sourcing generation
        looked : BOOLEAN,               \* it has attempts
        conflict : BOOLEAN]             \* and an open hard conflict

VARIABLES
    item,       \* [Items -> Row]
    running,    \* the batch's execution_state is 'running'
    profile     \* what the items' domain has: {"row", "version"}

store == <<item, running, profile>>

StoreTypeOK ==
    /\ item \in [Items -> Row]
    /\ running \in BOOLEAN
    /\ profile \subseteq {"row", "version"}

Entered(stage) ==
    [stage |-> stage, st |-> "pending", owner |-> None, record |-> FALSE, page |-> Absent,
     data |-> Absent, curated |-> Absent, retry |-> 0, noProfile |-> FALSE,
     held |-> FALSE, gen |-> 0, looked |-> FALSE, conflict |-> FALSE]

\* What an extraction of the row works from.
Source(row) == IF row.record THEN Record ELSE row.page

-----------------------------------------------------------------------------
(* The writes, as functions of a row.                                      *)

Claimed(row, w) == [row EXCEPT !.st = "in_progress", !.owner = w]

\* The restore, the family release and the stale requeue keep the message.
Unclaimed(row) == [row EXCEPT !.st = "pending", !.owner = None]

\* updateItemStageStatus: by id, whatever stage and status the row has.
Marked(row, st) == [row EXCEPT !.st = st, !.owner = None, !.noProfile = FALSE]

MarkedNoProfile(row) == [Marked(row, "failed") EXCEPT !.noProfile = TRUE]

\* Variant: the count is never compared.
RetriedForEver(row) == Marked(row, "pending")

\* Variant: the count runs on.
RetriedUncapped(row) == [Marked(row, "pending") EXCEPT !.retry = @ + 1]

\* incrementRetryCount, then pending below two and failed from two on.
Retried(row) ==
    IF row.retry = 0 THEN [Marked(row, "pending") EXCEPT !.retry = 1]
    ELSE [Marked(row, "failed") EXCEPT !.retry = 2]

\* The columns every move between stages resets.
Moved(row, stage, st) ==
    [row EXCEPT !.stage = stage, !.st = st, !.owner = None, !.retry = 0,
                !.noProfile = FALSE]

\* setDiscoverySourceUrl: by id too, and the claim columns stay.
Confirmed(row, page) == [row EXCEPT !.page = page, !.st = "completed"]

\* completeSourcingWithDecision, once its stage guard has passed.
Routed(row, stage) ==
    LET moved == [row EXCEPT !.stage = stage, !.st = "pending", !.owner = None,
                             !.noProfile = FALSE]
    IN  IF stage = "extraction" THEN [moved EXCEPT !.record = TRUE, !.page = Absent]
        ELSE moved

\* The worker's complete(): a refused decision fails the row where it stands.
Completed(row, stage) ==
    IF row.stage = "sourcing" /\ ~row.conflict THEN Routed(row, stage)
    ELSE Marked(row, "failed")

\* resetItemsToPending.
ResetRow(row) ==
    [Marked(row, "pending") EXCEPT !.retry = 0,
        !.curated = IF row.stage = "review" THEN @ ELSE Absent]

\* supersedeCurrentSourcingGeneration.
Superseded(row) == [row EXCEPT !.gen = @ + 1, !.looked = FALSE, !.conflict = FALSE]

\* sendItemsToPreviousStage: what the stage produced is undone.
Previous == [discovery |-> "sourcing", extraction |-> "discovery",
             curation |-> "extraction", review |-> "curation"]
SentBack(row) ==
    [Moved(row, Previous[row.stage], "completed") EXCEPT
        !.data = IF row.stage = "extraction" THEN Absent ELSE @,
        !.curated = IF row.stage = "curation" THEN Absent ELSE @]

-----------------------------------------------------------------------------
(* The automatic continuation, sweepAutoAdvance.                           *)

Swept(row) ==
    IF row.st # "completed" THEN row
    ELSE IF row.stage = "discovery" /\ row.page # Absent
         THEN Moved(row, "extraction", "pending")
    ELSE IF row.stage = "extraction" /\ row.data # Absent
         THEN Moved(row, "curation", "pending")
    ELSE IF row.stage = "curation" /\ row.curated # Absent
         THEN Moved(row, "review", "pending")
    ELSE row

\* releaseDomainExtractionItems: a usable version or a profile row is enough,
\* and the re-queue starts the count over.
Releasable(row, all) ==
    /\ row.stage = "extraction" /\ row.st \in Blocked
    /\ ~row.record /\ row.page # Absent
    /\ row.retry < 2
    /\ all \/ row.noProfile

Released(row, all) ==
    IF profile # {} /\ Releasable(row, all)
    THEN Moved(row, "extraction", "pending") ELSE row
=============================================================================

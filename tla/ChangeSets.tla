----------------------------- MODULE ChangeSets -----------------------------
(***************************************************************************)
(* The life of a change set: products are drafted into it, it is approved  *)
(* into the product files, the index and one Git commit, or discarded.     *)
(* Each of the two handlers is synchronous, but none is one transaction:   *)
(* an error of Git or the end of the process leaves it half done.          *)
(***************************************************************************)
EXTENDS CatalogStore

CONSTANTS
    Faults,     \* subset of {"item", "git", "crash", "torn", "edit", "rebuild"}
    MaxFaults   \* bound: faults, edits in ShopSite and rebuilds in a behaviour

ASSUME FaultAssumption == MaxFaults \in Nat

VARIABLES
    push,       \* [Sets -> Job] the direct sync of each set
    pulled,     \* the XML a drift check has fetched, or None
    faults      \* faults so far

Job == [step : {"none", "preflight", "applied"}, items : Contents]
Idle == [step |-> "none", items |-> Nothing]

vars == <<catalog, push, pulled, faults>>

Fault(kind) == kind \in Faults /\ faults < MaxFaults /\ faults' = faults + 1

\* The process ends: what its requests were waiting for is forgotten.
ProcessEnds == push' = [c \in Sets |-> Idle] /\ pulled' = None

-----------------------------------------------------------------------------
\* autosaveDraft: into the active change set, or a new one.
Autosave(s, v) ==
    \E c \in Sets :
        /\ IF Drafts # {} THEN Active(c) ELSE Fresh(c)
        /\ cset' = Drafted(c, Only({s}, [t \in Skus |-> v]))
        /\ UNCHANGED <<file, index, drift, remote, committed, shown, push, pulled, faults>>

\* promoteItems: one transaction, one new change set for the items that passed.
Promote(S, v) ==
    \E c \in Sets :
        /\ Fresh(c)
        /\ cset' = Drafted(c, Only(S, [t \in Skus |-> v]))
        /\ UNCHANGED <<file, index, drift, remote, committed, shown, push, pulled, faults>>

\* approveChangeSet's checks: a draft, none of whose products has open drift.
Approvable(c) ==
    /\ cset[c].st = "draft"
    /\ \A n \in OpenRows : cset[c].draft[drift[n].sku] = None

\* The loop over the items, as far as S: the file, then the index row.
Wrote(c, S) ==
    LET content == Only(S, cset[c].draft)
    IN  /\ file' = Over(content, file)
        /\ index' = NotSynced(S)

\* The rest: the commit, the status, the linked drift row.
Approve(c) ==
    /\ Approvable(c)
    /\ \E S \in SUBSET ItemsOf(cset[c].draft) :
        /\ IF S = ItemsOf(cset[c].draft) THEN UNCHANGED faults ELSE S # {} /\ Fault("item")
        /\ Wrote(c, S)
    /\ Commit(file')
    /\ cset' = [cset EXCEPT ![c].st = "approved"]
    /\ drift' = LinkResolved(c)
    /\ UNCHANGED <<remote, shown, push, pulled>>

\* Variant: every failure of Git is taken for "nothing to commit".
CommitFailsApproved(c) ==
    /\ Approvable(c)
    /\ Fault("git")
    /\ Wrote(c, ItemsOf(cset[c].draft))
    /\ cset' = [cset EXCEPT ![c].st = "approved"]
    /\ drift' = LinkResolved(c)
    /\ UNCHANGED <<remote, committed, shown, push, pulled>>

\* Git fails: the answer is an error, the files and the index stay written.
CommitFails(c) ==
    /\ Approvable(c)
    /\ Fault("git")
    /\ Wrote(c, ItemsOf(cset[c].draft))
    /\ UNCHANGED <<cset, drift, remote, committed, shown, push, pulled>>

\* The process ends: after the items up to s, after the commit, or between
\* the status and the linked drift row.
ApproveCut(c) ==
    /\ Approvable(c)
    /\ \/ /\ Fault("crash")
          /\ \E s \in Skus : Wrote(c, {t \in ItemsOf(cset[c].draft) : t <= s})
          /\ UNCHANGED <<committed, cset>>
       \/ /\ Wrote(c, ItemsOf(cset[c].draft))
          /\ Commit(file')
          /\ \/ Fault("crash") /\ UNCHANGED cset
             \/ Fault("torn") /\ cset' = [cset EXCEPT ![c].st = "approved"]
    /\ ProcessEnds
    /\ UNCHANGED <<drift, remote, shown>>

\* deleteChangeSet: the items, then the row, which a sync job's reference keeps.
Deleted(c) ==
    [cset EXCEPT ![c].draft = Nothing, ![c].st = IF cset[c].job THEN @ ELSE "gone"]

\* Variant: the discard forgets the drift its set was to reconcile.
RelinkedNever(c) == drift

\* What discardChangeSet reopens.
Relinked(c) == IF cset[c].st = "draft" THEN Reopened(c) ELSE drift

Discard(c) ==
    /\ cset[c].st \in {"draft", "approved"}
    /\ cset' = Deleted(c)
    /\ drift' = Relinked(c)
    /\ UNCHANGED <<file, index, remote, committed, shown, push, pulled, faults>>

\* The process ends: between the items and the row of the set, or between
\* the row and the drift the discard reopens.
DiscardCut(c) ==
    /\ cset[c].st \in {"draft", "approved"}
    /\ \/ Fault("crash") /\ cset' = [cset EXCEPT ![c].draft = Nothing]
       \/ Fault("torn") /\ cset[c].st = "draft" /\ cset' = Deleted(c)
    /\ ProcessEnds
    /\ UNCHANGED <<file, index, drift, remote, committed, shown>>

Edit ==
    \/ \E s \in Skus, v \in Versions : Autosave(s, v)
    \/ \E S \in SUBSET Skus \ {{}}, v \in Versions : Promote(S, v)
Approval == \E c \in Sets : Approve(c) \/ CommitFails(c) \/ ApproveCut(c)
Disposal == \E c \in Sets : Discard(c) \/ DiscardCut(c)
=============================================================================

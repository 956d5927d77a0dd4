---------------------------- MODULE CohortSafety ----------------------------
(* What cohort Curation must never do, and must do in the end. *)
EXTENDS CohortRun

\* A member boundary that skips its heartbeat (renewHeartbeat within a third
\* of the TTL) still holds the claim, with the rest of the lease to run.
SkippedHeartbeatIsSafe ==
    \A w \in Workers, r \in Runs :
        /\ task[w][r].pc \in SyncPc \cup AwaitPc
        /\ ~Overdue(w, r)
        => Held(w, r) /\ run[r].lease + task[w][r].age >= TTL

\* "NO write can occur after the claim moved to another worker": a task that
\* writes a child run, an item or its evidence holds the claim as it writes.
NoWriteAfterLoss ==
    [][\A w \in Workers, r \in Runs :
         /\ task[w][r].pc # "idle"
         /\ task'[w][r] # task[w][r]
         /\ <<child, item, evidence>>' # <<child, item, evidence>>
         => Held(w, r)]_vars

\* A live run changes hands only once its lease is over, and before that only
\* its holder's own step ends it: no reclaim, reconciliation or re-run by
\* somebody else yanks a worker that keeps its lease.
LiveClaimsAreRespected ==
    [][\A r \in Runs :
         /\ Live(r) /\ run[r].lease > 0
         /\ run'[r].owner # run[r].owner \/ run'[r].status \notin LiveStatus
         => /\ run'[r].owner = run[r].owner
            /\ task'[run[r].owner][r] # task[run[r].owner][r]]_vars

\* What a run froze and decided is history: the frozen authorities are written
\* once, outputs are only added, and only by a live run, and a decision is
\* followed by nothing but supersession.
DecisionsAreHistory ==
    [][\A r \in Runs :
         /\ run[r].frozen # None => run'[r].frozen = run[r].frozen
         /\ run[r].outputs \subseteq run'[r].outputs
         /\ run'[r].outputs # run[r].outputs => Live(r)
         /\ Settled(r) => run'[r].status \in {run[r].status, "superseded"}
         /\ run[r].status = "superseded" => run'[r] = run[r]]_vars

\* Supersession leaves no running child behind, and no task adds one later:
\* the one-running-child index never blocks the next revision because of it.
SupersededLeavesNoChildRunning ==
    \A r \in Runs : run[r].status = "superseded" =>
        \A m \in Items : child[r][m].st # "running"

\* Every claimed run is decided or superseded in the end: "a run that fails to
\* freeze stays claimed and is recovered by a later reclaim".
EveryRunSettles == \A r \in Runs : Live(r) ~> ~Live(r)

\* An operator's edit of extraction data is kept, or replaced by a later edit.
NoEditLost == [][\A m \in Items : evidence'[m].edit >= evidence[m].edit]_vars

\* What enters Promotion is what was reviewed: no route moves an item there
\* with curation data its durable review never covered.
PromotedAsReviewed ==
    [][\A m \in Items :
         item[m].stage # "promotion" /\ item'[m].stage = "promotion"
         => item[m].reviewed = item[m].ref]_vars

-----------------------------------------------------------------------------
(* The refinement of CohortLease.                                          *)

Phase(s) == IF s \in SettledStatus THEN "settled" ELSE s

Lease == INSTANCE CohortLease WITH
    phase  <- [r \in Runs |-> Phase(run[r].status)],
    family <- [r \in Runs |-> run[r].cohort],
    holder <- [r \in Runs |-> run[r].owner],
    lapsed <- [r \in Runs |-> run[r].cohort # None /\ run[r].lease = 0]

\* The claim protocol implements the abstract lease.
ImplementsLease == Lease!LeaseSpec
=============================================================================

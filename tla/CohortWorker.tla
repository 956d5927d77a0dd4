---------------------------- MODULE CohortWorker ----------------------------
(***************************************************************************)
(* The onboarding workers that execute cohort runs: the claim leg of their *)
(* poll (reclaim of expired leases, reconciliation of drifted decisions,   *)
(* claim of ready cohorts), the tasks they dispatch, and the passage of    *)
(* time over claim leases.                                                 *)
(*                                                                         *)
(* A task is one call of processCohortRun.  Its pc is "sync" where the     *)
(* JavaScript runs to the next await, "await" where it waits for a model   *)
(* call under a CohortLeaseKeeper.  A tick is a third of a lease or less.  *)
(* A stalled worker (a suspended process) renews nothing during a tick;    *)
(* for the others every keeper fires and every sync step has been taken.   *)
(***************************************************************************)
EXTENDS CohortStore

CONSTANTS
    MaxConcurrency, \* the worker's limit on tasks in flight
    FreezeOcrRerunCap, \* members one freeze re-runs stale OCR for
    MaxFaults       \* bound: crashes, and ticks a worker spends stalled

ASSUME WorkerBoundsAssumption == /\ MaxConcurrency \in Nat \ {0}
                                  /\ FreezeOcrRerunCap \in Nat
                                  /\ MaxFaults \in Nat

VARIABLES
    task,           \* task[w][r], what worker w is doing for run r
    observed,       \* observed[w], the expired row w read and has not yet acted on
    faults          \* crashes and stalled ticks so far

worker == <<task, observed, faults>>

-----------------------------------------------------------------------------
(* Tasks.                                                                  *)

SyncPc  == {"load", "freeze", "exec", "ops", "member", "complete"}
AwaitPc == {"ocr", "rank", "pipe"} \cup Ops

\* Variant: heartbeats are skipped for as long as a lease lasts.
WholeLease == TTL

\* A heartbeat is skipped until this long after the last one.
Interval == TTL \div 3

\* An item as processCohort read it before its first await.
Seen == [ref : Ref, blocked : BOOLEAN]

ASSUME SeenAssumption == None \notin Seen

\* todo: members left in ordinal order; cur: the member being awaited; att: its
\* child run; age: time since the last explicit heartbeat; lost: the keeper saw
\* a renewal rejected; auth, view: the authority and the evidence the freeze
\* captured; reruns: stale OCR it has run again; seen: items loaded by the
\* executor; done: committed members; failed: some member failed or is blocked.
Task == [pc : {"idle"} \cup SyncPc \cup AwaitPc, todo : SUBSET Items,
         cur : Items \cup {None}, att : Nat, age : 0..(Interval + 1), lost : BOOLEAN,
         auth : 0..MaxAuthority, view : [Items -> Evidence],
         reruns : 0..FreezeOcrRerunCap,
         seen : [Items -> Seen \cup {None}], done : SUBSET Items, failed : BOOLEAN]

Idle == [pc |-> "idle", todo |-> {}, cur |-> None, att |-> 0, age |-> 0, lost |-> FALSE,
         auth |-> 0, view |-> [m \in Items |-> NoEvidence], reruns |-> 0,
         seen |-> [m \in Items |-> None], done |-> {}, failed |-> FALSE]

Observation == [run : Runs, owner : Workers, status : LiveStatus, match : BOOLEAN]

WorkerTypeOK ==
    /\ task \in [Workers -> [Runs -> Task]]
    /\ observed \in [Workers -> Observation \cup {None}]
    /\ faults \in 0..MaxFaults

WorkerInit ==
    /\ task = [w \in Workers |-> [r \in Runs |-> Idle]]
    /\ observed = [w \in Workers |-> None]
    /\ faults = 0

Busy(w)    == {r \in Runs : task[w][r].pc # "idle"}
At(w, r, pc) == task[w][r].pc = pc /\ observed[w] = None
Overdue(w, r) == task[w][r].age > Interval

\* renewHeartbeat: within the interval the claim is taken to be held.
ClaimAsserted(w, r) == Overdue(w, r) => Held(w, r)

\* Variant: the flag alone, set by a timer that may not have fired.
KeeperFlagOnly(w, r) == ~task[w][r].lost

\* assertHeld of a keeper whose call returned: the lost flag, then a renewal.
KeeperHolds(w, r) == ~task[w][r].lost /\ Held(w, r)

Becomes(w, r, t) == task' = [task EXCEPT ![w][r] = t]
Ends(w, r)       == Becomes(w, r, Idle)

\* dispatchCohortRun: not while a task of this worker still has the run, and
\* not while the batch is paused: the run stays claimed and dormant.
Dispatch(w, r, status) ==
    IF batch /\ task[w][r].pc = "idle"
    THEN Becomes(w, r, [Idle EXCEPT !.pc = IF status = "freezing" THEN "load" ELSE "exec",
                                    !.age = Interval + 1])
    ELSE UNCHANGED task

-----------------------------------------------------------------------------
(* The claim leg of poll().  It is synchronous, so the worker's own tasks  *)
(* wait for it; other processes write between its statements.              *)

Verdict(r) == [run |-> r, owner |-> run[r].owner, status |-> run[r].status,
               match |-> FrozenWorldMatches(r)]

\* reclaimExpiredCohortRuns, the SELECT and the verdict on one of its rows.
\* The poll is a timer callback, so none of the worker's tasks is between two
\* awaits; it enters the leg below its concurrency limit.
Observe(w, r) ==
    /\ observed[w] = None
    /\ \A x \in Runs : task[w][x].pc \notin SyncPc
    /\ Cardinality(Busy(w)) < MaxConcurrency
    /\ Expired(r)
    /\ observed' = [observed EXCEPT ![w] = Verdict(r)]
    /\ UNCHANGED <<store, task, faults>>

\* On to a later row of the same reclaim, whatever is in flight by now.
NextRow(w) ==
    \E o \in {None} \cup {Verdict(r) : r \in {x \in Runs : x > observed[w].run /\ Expired(x)}} :
        observed' = [observed EXCEPT ![w] = o]

\* Variant: the CAS compares the owner and the status, not the lease.
SameOwner(o) == run[o.run].owner = o.owner /\ run[o.run].status = o.status

\* The observed row is unchanged: a renewed lease is a different lease.
Unchanged(o) ==
    /\ Expired(o.run)
    /\ run[o.run].owner = o.owner
    /\ run[o.run].status = o.status

ReclaimResume(w) ==
    LET o == observed[w] IN
    /\ o # None
    /\ o.match
    /\ NextRow(w)
    /\ IF Unchanged(o)
       THEN /\ run' = ResumedRuns(o.run, w)
            /\ Dispatch(w, o.run, o.status)
       ELSE UNCHANGED <<run, task>>
    /\ UNCHANGED <<child, item, evidence, cohort, batch, authority, faults>>

ReclaimSupersede(w) ==
    LET o == observed[w] IN
    /\ o # None
    /\ ~o.match
    /\ NextRow(w)
    /\ IF Unchanged(o)
       THEN /\ run' = RunsWithStatus(o.run, "superseded")
            /\ child' = ChildrenFailed(o.run)
       ELSE UNCHANGED <<run, child>>
    /\ UNCHANGED <<item, evidence, cohort, batch, authority, task, faults>>

\* reconcileDriftedTerminalRuns: a decision whose frozen world is gone is
\* superseded, unless the family has nothing left to curate.
Reconcile(w, r) ==
    /\ observed[w] = None
    /\ Settled(r)
    /\ cohort[run[r].cohort] = "ready"
    /\ ~AllPastCuration(run[r].cohort)
    /\ ~FrozenWorldMatches(r)
    /\ run' = RunsWithStatus(r, "superseded")
    /\ child' = ChildrenFailed(r)
    /\ UNCHANGED <<item, evidence, cohort, batch, authority, worker>>

\* claimReadyCurationCohorts, one row of it, and its dispatch.
Claim(w, c) ==
    /\ observed[w] = None
    /\ Cardinality(Busy(w)) < MaxConcurrency
    /\ cohort[c] = "ready"
    /\ batch
    /\ ~HasCurrentRun(c)
    /\ ~AllPastCuration(c)
    /\ \E r \in Runs :
         /\ run[r].status = "none"
         /\ \A x \in Runs : x < r => run[x].status # "none"
         /\ run' = [run EXCEPT ![r] = ClaimedRun(c, w)]
         /\ Dispatch(w, r, "freezing")
    /\ UNCHANGED <<child, item, evidence, cohort, batch, authority, observed, faults>>

-----------------------------------------------------------------------------
(* Ownership loss, crashes and time.                                       *)

\* HeartbeatLostError out of an awaited call: no write of any kind.
LostDuringCall(w, r) ==
    /\ task[w][r].pc \in AwaitPc
    /\ observed[w] = None
    /\ ~KeeperHolds(w, r)
    /\ Ends(w, r)
    /\ UNCHANGED <<store, observed, faults>>

\* The process dies: its tasks and its unfinished reclaim go with it.
Crash(w) ==
    /\ faults < MaxFaults
    /\ Busy(w) # {} \/ observed[w] # None
    /\ task' = [task EXCEPT ![w] = [r \in Runs |-> Idle]]
    /\ observed' = [observed EXCEPT ![w] = None]
    /\ faults' = faults + 1
    /\ UNCHANGED store

Older(age)  == IF age > Interval THEN age ELSE age + 1
KeptBy(S, w, r) == w \notin S /\ task[w][r].pc \in AwaitPc

\* One tick, the workers in S stalled: the keepers of the others renew the
\* leases they still hold and notice the ones they have lost.
Tick(S) ==
    /\ faults + Cardinality(S) <= MaxFaults
    /\ \A w \in S : Busy(w) # {}
    /\ \A w \in Workers :
         /\ observed[w] = None
         /\ w \notin S => \A r \in Runs : task[w][r].pc \notin SyncPc
    /\ \E r \in Runs : Live(r) /\ run[r].lease > 0
    /\ run' = [r \in Runs |->
         IF ~Live(r) THEN run[r]
         ELSE IF \E w \in Workers : KeptBy(S, w, r) /\ KeeperHolds(w, r)
         THEN [run[r] EXCEPT !.lease = TTL]
         ELSE [run[r] EXCEPT !.lease = IF @ = 0 THEN 0 ELSE @ - 1]]
    /\ task' = [w \in Workers |-> [r \in Runs |->
         IF task[w][r].pc = "idle" THEN Idle
         ELSE [task[w][r] EXCEPT !.age = Older(@),
                                 !.lost = @ \/ (KeptBy(S, w, r) /\ ~Held(w, r))]]]
    /\ faults' = faults + Cardinality(S)
    /\ UNCHANGED <<child, item, evidence, cohort, batch, authority, observed>>
=============================================================================

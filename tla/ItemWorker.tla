----------------------------- MODULE ItemWorker -----------------------------
(***************************************************************************)
(* The per-item legs of OnboardingWorker (job-queue.ts), sourcing in       *)
(* automatic mode and curation without cohorts.  A poll is synchronous     *)
(* from its sweeps to its last dispatch, so it is one step, in which the   *)
(* process may die between any two stages; it then awaits the refresh of   *)
(* candidate cohorts, and until that is over the worker does not poll.  A  *)
(* task runs from an await to the next.                                    *)
(***************************************************************************)
EXTENDS ItemStore

CONSTANTS
    MaxConcurrency,     \* items one worker processes at a time
    SameMillisecond,    \* the stages of a poll are claimed within a millisecond
    PromptRestart       \* a restart may come before a dead claim is stale

ASSUME WorkerAssumption ==
    /\ MaxConcurrency \in Nat \ {0}
    /\ SameMillisecond \in BOOLEAN /\ PromptRestart \in BOOLEAN

\* buildAutoStages.
AutoStages == {"sourcing", "curation", "extraction", "discovery"}

\* "once" is the worker of a variant selection: polled once, never started.
\* Workers that are "off" were never built, are collected or died.
Modes == {"off", "on", "once", "stopped"}

\* What a task of each stage awaits; extraction has written its outcome when
\* it awaits the refresh.
Awaits == [sourcing |-> {"engine", "reconcile"}, discovery |-> {"search"},
           extraction |-> {"fetch", "refresh"}, curation |-> {"pipeline"}]
Phases == UNION {Awaits[s] : s \in AutoStages}
Task == {t \in [stage : AutoStages, phase : Phases, gen : 0..MaxGens, from : Sources] :
            t.phase \in Awaits[t.stage]}

ASSUME TaskAssumption == None \notin Task

VARIABLES
    mode,       \* [Workers -> Modes]
    poll,       \* [Workers -> {"idle", "due", "refresh"}]
    task        \* [Workers -> [Items -> Task \cup {None}]], the running map

worker == <<mode, poll, task>>
pipeline == <<store, worker>>

WorkerTypeOK ==
    /\ mode \in [Workers -> Modes]
    /\ poll \in [Workers -> {"idle", "due", "refresh"}]
    /\ task \in [Workers -> [Items -> Task \cup {None}]]

NoTasks == [i \in Items |-> None]
InMap(tasks) == {i \in Items : tasks[i] # None}
Alive(w) == mode[w] # "off"

\* No row and no closure refers to it: the place of a worker yet to be built.
Unused(w) ==
    /\ mode[w] # "on" /\ poll[w] = "idle" /\ InMap(task[w]) = {}
    /\ \A i \in Items : item[i].owner # w

\* A task whose outcome is still to be written.
Pending(w, i) == task[w][i] # None /\ task[w][i].phase # "refresh"

-----------------------------------------------------------------------------
(* Process and worker lifecycle.                                           *)

\* start(): claims older than five minutes go back to pending, those of a
\* stopped worker that is still at it included.  A dead worker's claims are
\* among them unless the restart came sooner.
Start(w) ==
    /\ Unused(w)
    /\ \A v \in Workers : mode[v] # "on"
    /\ \E late \in SUBSET {i \in Items : item[i].st = "in_progress"} :
         /\ PromptRestart \/ \A i \in Items \ late :
                item[i].st = "in_progress" => Alive(item[i].owner)
         /\ item' = [i \in Items |-> IF i \in late THEN Unclaimed(item[i]) ELSE item[i]]
    /\ mode' = [mode EXCEPT ![w] = "on"]
    /\ UNCHANGED <<running, profile, poll, task>>

\* getWorker for another workspace stops the poll loop; its tasks go on.
Stop(w) ==
    /\ mode[w] = "on"
    /\ mode' = [mode EXCEPT ![w] = "stopped"]
    /\ UNCHANGED <<store, poll, task>>

\* The process dies, and with it every worker and task.
Dies ==
    /\ mode' = [w \in Workers |-> "off"]
    /\ poll' = [w \in Workers |-> "idle"]
    /\ task' = [w \in Workers |-> NoTasks]
    /\ UNCHANGED <<running, profile>>

Crash == Dies /\ UNCHANGED item

-----------------------------------------------------------------------------
(* The poll, on the board b: the rows, the worker's running map and the    *)
(* rows it has claimed in this poll.  A task that ends before any await is *)
(* "done": it stays in the running map until the poll first yields.        *)

\* sweepAutoAdvance, then sweepDomainReleases; paused and held rows too.
Sweep(b) ==
    [b EXCEPT !.item = [i \in Items |-> Released(Swept(b.item[i]), FALSE)]]

\* The first n of s in row order.
First(s, n) == {i \in s : Cardinality({j \in s : j < i}) < n}

Claimable(rows, s) ==
    {i \in Items : running /\ rows[i].stage = s /\ rows[i].st = "pending" /\ ~rows[i].held}

\* What processItem does before its first await, for a row just claimed:
\* "good" says that a sourcing item has an identifier and a connection to
\* look it up with, and that a distributor record passes materialization.
Goes(s, phase, row, from) ==
    [row |-> row, task |-> [stage |-> s, phase |-> phase, gen |-> row.gen, from |-> from]]

Sourced(row, good) ==
    LET begun == [row EXCEPT !.gen = IF @ = 0 THEN 1 ELSE @]
    IN  IF row.looked THEN Goes("sourcing", "reconcile", begun, Absent)
        ELSE IF good THEN Goes("sourcing", "engine", begun, Absent)
        ELSE Goes("sourcing", "done", Completed(begun, "discovery"), Absent)

Materialized(row, good) ==
    IF good THEN Goes("extraction", "refresh",
                      [Marked(row, "completed") EXCEPT !.data = Record], Record)
    ELSE Goes("extraction", "done", Marked(row, "failed"), Absent)

Scraped(row) ==
    IF row.page = Absent THEN Goes("extraction", "done", Marked(row, "failed"), Absent)
    ELSE IF "row" \notin profile THEN Goes("extraction", "done", MarkedNoProfile(row), Absent)
    ELSE Goes("extraction", "fetch", row, row.page)

Begun(row, s, good) ==
    CASE s = "sourcing" -> Sourced(row, good)
      [] s = "discovery" -> Goes(s, "search", row, Absent)
      [] s = "curation" -> Goes(s, "pipeline", row, row.data)
      [] s = "extraction" -> IF row.record THEN Materialized(row, good) ELSE Scraped(row)

\* claimItemsForProcessing reads its claim back by worker and time, without
\* the stage: an earlier claim of the same poll and millisecond comes back
\* with it, and the limit cuts off the rest.
ReadBack(b, w, claimed, n) ==
    First(claimed \cup IF claimed # {} /\ SameMillisecond
                       THEN {i \in b.claimed : b.item[i].owner = w} ELSE {}, n)

\* Variant: a row whose task still runs is left as it was claimed.
KeepClaim(row) == row

\* A row that comes back while its task runs is restored to pending.
Restored(row) == Unclaimed(row)

ClaimStage(b, w, s, good) ==
    LET n == MaxConcurrency - Cardinality(InMap(b.task))
        claimed == First(Claimable(b.item, s), n)
        back == ReadBack(b, w, claimed, n)
        rows == [i \in Items |-> IF i \in claimed THEN Claimed(b.item[i], w) ELSE b.item[i]]
        begun(i) == Begun(rows[i], s, good[i])
        dispatched == back \ InMap(b.task)
    IN  [item |-> [i \in Items |-> IF i \in dispatched THEN begun(i).row
                                   ELSE IF i \in back THEN Restored(rows[i]) ELSE rows[i]],
         task |-> [i \in Items |-> IF i \in dispatched THEN begun(i).task ELSE b.task[i]],
         claimed |-> b.claimed \cup claimed]

\* The sweeps, then the stages in the order of buildAutoStages.
Board(w) == [item |-> item, task |-> task[w], claimed |-> {}]
Swept1(w) == Sweep(Board(w))
Polled1(w, good) == ClaimStage(Swept1(w), w, "sourcing", good)
Polled2(w, good) == ClaimStage(Polled1(w, good), w, "curation", good)
Polled3(w, good) == ClaimStage(Polled2(w, good), w, "extraction", good)
Polled4(w, good) == ClaimStage(Polled3(w, good), w, "discovery", good)

CanPoll(w) == poll[w] = "due" \/ (mode[w] = "on" /\ poll[w] = "idle")

Poll(w) ==
    /\ CanPoll(w)
    /\ \E good \in [Items -> BOOLEAN] :
         LET b == Polled4(w, good)
         IN  /\ item' = b.item
             /\ task' = [task EXCEPT ![w] = [i \in Items |->
                   IF b.task[i] # None /\ b.task[i].phase = "done" THEN None ELSE b.task[i]]]
    /\ poll' = [poll EXCEPT ![w] = "refresh"]
    /\ UNCHANGED <<running, profile, mode>>

CrashInPoll(w) ==
    /\ CanPoll(w)
    /\ \E good \in [Items -> BOOLEAN] :
         item' \in {Swept1(w).item, Polled1(w, good).item, Polled2(w, good).item,
                    Polled3(w, good).item}
    /\ Dies

\* The refreshes are over: the worker may poll again.
PollEnds(w) ==
    /\ poll[w] = "refresh"
    /\ poll' = [poll EXCEPT ![w] = "idle"]
    /\ UNCHANGED <<store, mode, task>>

-----------------------------------------------------------------------------
(* The tasks, from an await to the next.                                   *)

At(w, i, phase) == task[w][i] # None /\ task[w][i].phase = phase

Puts(w, i, row, t) ==
    /\ item' = [item EXCEPT ![i] = row]
    /\ task' = [task EXCEPT ![w][i] = t]
    /\ UNCHANGED <<running, profile, mode, poll>>

Ends(w, i, row) == Puts(w, i, row, None)

Current(w, i) == task[w][i].gen = item[i].gen

\* A generation superseded while the engine ran, or while the evidence was
\* reconciled, gives the row back to the new generation.
Abandons(w, i) ==
    /\ At(w, i, "engine") \/ At(w, i, "reconcile")
    /\ ~Current(w, i)
    /\ Ends(w, i, Marked(item[i], "pending"))

EngineAnswers(w, i) ==
    /\ At(w, i, "engine") /\ Current(w, i)
    /\ Puts(w, i, [item[i] EXCEPT !.looked = TRUE], [task[w][i] EXCEPT !.phase = "reconcile"])

\* Variant: the second comparison of generations is missing.
RoutableUnchecked(w, i) == TRUE
Routable(w, i) == Current(w, i)

\* A conflict stays open until an operator resolves it or a new generation
\* begins.
FindsConflict(w, i) ==
    LET parked == [Marked(item[i], "needs_input") EXCEPT !.conflict = TRUE]
    IN  /\ At(w, i, "reconcile") /\ Routable(w, i)
        /\ Ends(w, i, IF item[i].stage = "sourcing" THEN parked ELSE Marked(parked, "failed"))

RoutesItem(w, i) ==
    /\ At(w, i, "reconcile") /\ Routable(w, i)
    /\ ~item[i].conflict
    /\ \E stage \in {"discovery", "extraction"} : Ends(w, i, Completed(item[i], stage))

\* A verified page of an official domain is confirmed, an ambiguous variant
\* needs the operator, and anything else completes without a source.
Discovers(w, i) ==
    /\ At(w, i, "search")
    /\ \/ \E page \in Pages : Ends(w, i, Confirmed(item[i], page))
       \/ Ends(w, i, Marked(item[i], "completed"))
       \/ Ends(w, i, Marked(item[i], "needs_input"))

\* The page the task was given is what was extracted.
Extracts(w, i) ==
    /\ At(w, i, "fetch")
    /\ Puts(w, i, [Marked(item[i], "completed") EXCEPT !.data = task[w][i].from],
            [task[w][i] EXCEPT !.phase = "refresh"])

VariantGate(w, i) ==
    /\ At(w, i, "fetch")
    /\ Ends(w, i, Marked(item[i], "needs_input"))

Curates(w, i) ==
    /\ At(w, i, "pipeline")
    /\ Ends(w, i, [Marked(item[i], "completed") EXCEPT !.curated = task[w][i].from])

\* The catch of each leg.
Fails(w, i) ==
    /\ Pending(w, i)
    /\ task[w][i].phase \in {"engine", "reconcile", "pipeline"}
    /\ Ends(w, i, Marked(item[i], "failed"))

Retries(w, i) ==
    /\ Pending(w, i)
    /\ task[w][i].phase \in {"search", "fetch"}
    /\ Ends(w, i, Retried(item[i]))

\* Its outcome is written; the promise settles.
Settles(w, i) ==
    /\ At(w, i, "refresh")
    /\ Ends(w, i, item[i])

TaskStep(w, i) ==
    \/ Abandons(w, i) \/ EngineAnswers(w, i) \/ FindsConflict(w, i) \/ RoutesItem(w, i)
    \/ Discovers(w, i) \/ Extracts(w, i) \/ VariantGate(w, i) \/ Curates(w, i)
    \/ Fails(w, i) \/ Retries(w, i) \/ Settles(w, i)

PollStep(w) == Poll(w) \/ PollEnds(w)
=============================================================================

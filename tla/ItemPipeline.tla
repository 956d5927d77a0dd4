---------------------------- MODULE ItemPipeline ----------------------------
(***************************************************************************)
(* The onboarding board: the workers of ItemWorker and the routes that     *)
(* move items under them.  A route writes the row whether or not a task is *)
(* at it, and knows nothing of the task.                                   *)
(***************************************************************************)
EXTENDS ItemWorker

CONSTANTS
    Disturbances,   \* the routes in use
    MaxMoves,       \* bound: operator moves
    MaxFaults       \* bound: crashes, and switches of the workspace

ASSUME PipelineAssumption == MaxMoves \in Nat /\ MaxFaults \in Nat

VARIABLES moves, faults

vars == <<pipeline, moves, faults>>

TypeOK ==
    /\ StoreTypeOK /\ WorkerTypeOK
    /\ moves \in 0..MaxMoves /\ faults \in 0..MaxFaults

Init ==
    /\ item = [i \in Items |-> Entered("sourcing")]
    /\ running = TRUE
    /\ profile \in {{}, {"row"}}
    /\ mode = [w \in Workers |-> "off"]
    /\ poll = [w \in Workers |-> "idle"]
    /\ task = [w \in Workers |-> NoTasks]
    /\ moves = 0 /\ faults = 0

-----------------------------------------------------------------------------
(* The routes.  Each of them also polls the worker, which it may do at any *)
(* time by itself.                                                         *)

Route(name) ==
    /\ name \in Disturbances /\ moves < MaxMoves
    /\ moves' = moves + 1

Writes(i, row) ==
    /\ item' = [item EXCEPT ![i] = row]
    /\ UNCHANGED <<running, profile, worker, faults>>

\* reset and retry of a sourcing item supersede its generation.
Reset(i) ==
    /\ Route("reset")
    /\ item[i].stage = "sourcing" => item[i].gen < MaxGens
    /\ Writes(i, ResetRow(IF item[i].stage = "sourcing" THEN Superseded(item[i]) ELSE item[i]))

\* retry, search_again: the claim columns are not cleared.
Retry(i) ==
    /\ Route("retry") /\ item[i].stage # "sourcing"
    /\ Writes(i, [item[i] EXCEPT !.st = "pending", !.retry = 0, !.noProfile = FALSE])

Skip(i) ==
    /\ Route("skip")
    /\ Writes(i, [item[i] EXCEPT !.st = "skipped", !.owner = None])

SendBack(i) ==
    /\ Route("send_back") /\ item[i].stage # "sourcing"
    /\ Writes(i, SentBack(item[i]))

ResetToStage(i) ==
    /\ Route("to_stage")
    /\ \E stage \in Stages :
         Writes(i, [item[i] EXCEPT !.stage = stage, !.st = "completed", !.owner = None])

NextStage == [sourcing |-> "discovery", discovery |-> "extraction",
              extraction |-> "curation", curation |-> "review"]

Advance(i) ==
    /\ Route("advance")
    /\ item[i].st = "completed" /\ item[i].stage # "review"
    /\ ~(item[i].stage = "sourcing" /\ item[i].conflict)
    /\ Writes(i, Moved(item[i], NextStage[item[i].stage], "pending"))

\* set-url and select-source; the route has no stage guard, so the model has
\* two of it: before Extraction with no task at the item, and at any time.
SetUrl(i) ==
    /\ ~item[i].record
    /\ \/ Route("url") /\ item[i].stage = "discovery" /\ item[i].st # "in_progress"
       \/ Route("late_url")
    /\ \E page \in Pages : Writes(i, Confirmed(item[i], page))

\* selectVariantService, the direct update of the row, and a worker of its own.
SelectVariant(i) ==
    /\ Route("variant")
    /\ \/ item[i].stage = "discovery" /\ item[i].st = "needs_input"
       \/ item[i].stage = "extraction" /\ item[i].st \in {"needs_input", "pending", "failed"}
    /\ ~item[i].record
    /\ \E page \in Pages, w \in Workers :
         /\ item' = [item EXCEPT ![i] = [@ EXCEPT !.stage = "extraction", !.st = "pending",
                        !.page = page, !.retry = 0, !.noProfile = FALSE]]
         /\ Unused(w)
         /\ mode' = [mode EXCEPT ![w] = "once"]
         /\ poll' = [poll EXCEPT ![w] = "due"]
    /\ UNCHANGED <<running, profile, task, faults>>

\* Variant: the conflict is not looked at.
FallbackAnyway(i) ==
    /\ Route("fallback")
    /\ item[i].stage = "sourcing"
    /\ Writes(i, Moved(item[i], "discovery", "pending"))

\* resolve-sourcing: fallbackSourcingItemToDiscovery, in any status.
Fallback(i) ==
    /\ Route("fallback")
    /\ item[i].stage = "sourcing" /\ ~item[i].conflict
    /\ Writes(i, Moved(item[i], "discovery", "pending"))

\* fallbackSourcingItemsToDiscovery asks for a pending row and nothing else.
BulkFallback(i) ==
    /\ Route("bulk_fallback")
    /\ item[i].stage = "sourcing" /\ item[i].st = "pending"
    /\ Writes(i, Moved(item[i], "discovery", "pending"))

ResolveConflict(i) ==
    /\ Route("resolve") /\ item[i].conflict
    /\ Writes(i, [item[i] EXCEPT !.conflict = FALSE])

UseRecord(i) ==
    /\ Route("record")
    /\ item[i].stage = "sourcing" /\ item[i].st = "needs_input"
    /\ item[i].looked /\ ~item[i].conflict
    /\ Writes(i, Routed(item[i], "extraction"))

Revert(i) ==
    /\ Route("revert")
    /\ item[i].record /\ item[i].stage = "extraction"
    /\ item[i].st \in {"pending", "failed", "completed"}
    /\ Writes(i, [Moved(item[i], "discovery", "pending") EXCEPT
                    !.record = FALSE, !.page = Absent, !.data = Absent])

Hold(i) ==
    /\ Route("hold")
    /\ Writes(i, [item[i] EXCEPT !.held = ~@])

PauseOrResume ==
    /\ Route("pause")
    /\ running' = ~running
    /\ UNCHANGED <<item, profile, worker, faults>>

\* Saving a profile writes extractor_profiles; activating a version does not,
\* and releases everything blocked on the domain.
SaveProfile ==
    /\ Route("profile")
    /\ profile' = profile \cup {"row"}
    /\ UNCHANGED <<item, running, worker, faults>>

ActivateVersion ==
    /\ Route("version")
    /\ profile' = profile \cup {"version"}
    /\ item' = [i \in Items |->
         IF Releasable(item[i], TRUE) THEN Moved(item[i], "extraction", "pending") ELSE item[i]]
    /\ UNCHANGED <<running, worker, faults>>

RouteStep ==
    \/ \E i \in Items :
         \/ Reset(i) \/ Retry(i) \/ Skip(i) \/ SendBack(i) \/ ResetToStage(i) \/ Advance(i)
         \/ SetUrl(i) \/ SelectVariant(i) \/ Fallback(i) \/ BulkFallback(i)
         \/ ResolveConflict(i) \/ UseRecord(i) \/ Revert(i) \/ Hold(i)
    \/ PauseOrResume \/ SaveProfile \/ ActivateVersion

-----------------------------------------------------------------------------

Fault == faults < MaxFaults /\ faults' = faults + 1 /\ UNCHANGED moves

CrashStep == (\E w \in Workers : Alive(w)) /\ Fault /\ Crash
PollCrash == \E w \in Workers : Fault /\ CrashInPoll(w)
SwitchWorkspace == "switch" \in Disturbances /\ Fault /\ \E w \in Workers : Stop(w)

Quiet == UNCHANGED <<moves, faults>>

Next ==
    \/ \E w \in Workers : Quiet /\ (Start(w) \/ PollStep(w))
    \/ \E w \in Workers, i \in Items : Quiet /\ TaskStep(w, i)
    \/ RouteStep
    \/ CrashStep
    \/ PollCrash
    \/ SwitchWorkspace

Spec == Init /\ [][Next]_vars

(* The server is used again after a crash or a switch, setInterval polls,  *)
(* refreshes end, and every lookup, fetch and pipeline call answers or     *)
(* throws.  Each is stated by what the step does to the worker's own state. *)

Starts ==
    /\ \A w \in Workers : mode[w] # "on"
    /\ \E w \in Workers : Unused(w) /\ mode' = [mode EXCEPT ![w] = "on"]

Polls(w) ==
    \/ CanPoll(w) /\ poll' = [poll EXCEPT ![w] = "refresh"]
    \/ poll[w] = "refresh" /\ poll' = [poll EXCEPT ![w] = "idle"]

Answers(w, i) ==
    /\ task[w][i] # None
    /\ \E t \in {None} \cup {[task[w][i] EXCEPT !.phase = p] : p \in {"reconcile", "refresh"}} :
         t # task[w][i] /\ task' = [task EXCEPT ![w][i] = t]

Fairness ==
    /\ WF_mode(Starts)
    /\ \A w \in Workers :
         /\ WF_poll(Polls(w))
         /\ \A i \in Items : WF_task(Answers(w, i))

FairSpec == Spec /\ Fairness

-----------------------------------------------------------------------------

\* A row in progress under a living worker has a task of that worker whose
\* outcome is still to be written: no claim is left without anybody at it.
ClaimHasTask ==
    \A i \in Items : item[i].st = "in_progress" /\ Alive(item[i].owner)
        => Pending(item[i].owner, i)

\* Evidence gathered under a superseded sourcing generation never routes.
StaleNeverRoutes ==
    [][\A w \in Workers, i \in Items :
         /\ task[w][i] # None /\ task[w][i].stage = "sourcing" /\ ~Current(w, i)
         /\ task'[w][i] = None /\ mode' = mode
         => item'[i].stage = item[i].stage]_vars

\* An open identity conflict keeps its item in Sourcing until an operator
\* resolves it, a new generation replaces it, or reset-to-stage (whose target
\* is completed at once) overrides it.  One exception is the operator's: a row
\* in dispute that has come to be pending again may fall back to Discovery.
ConflictHoldsSourcing ==
    [][\A i \in Items :
         /\ item[i].conflict /\ item[i].stage = "sourcing"
         /\ item'[i].st # "completed"
         => \/ item'[i].stage = "sourcing"
            \/ item[i].st = "pending" /\ item'[i].stage = "discovery" /\ moves' # moves]_vars

\* "An item with OPEN HARD identity conflicts (current generation) can never
\* be moved to Discovery through the operator fallback", in any status
\* (onboarding-item-repo.ts).  False of the bulk route.
ConflictNeverFallsBack ==
    [][\A i \in Items :
         /\ item[i].conflict /\ item[i].stage = "sourcing"
         /\ item'[i].st = "pending"
         => item'[i].stage # "discovery"]_vars

\* What a sweep lets into Review was curated from what was extracted from the
\* item's present source, whatever sources it had before.
ReviewedFromItsSource ==
    [][\A i \in Items :
         /\ item[i].stage = "curation" /\ item'[i].stage = "review" /\ moves' = moves
         => item[i].curated = Source(item[i])]_vars

\* Where an item may stay: with the operator, or out of the worker's reach,
\* and in either case such that the sweeps of a poll let it lie.
Rests(i) ==
    \/ item[i].stage = "review"
    \/ item[i].st = "skipped"
    \/ item[i].st \in Blocked /\ Released(item[i], FALSE) = item[i]
    \/ item[i].st = "completed" /\ Swept(item[i]) = item[i]
    \/ item[i].st = "pending" /\ (item[i].held \/ ~running)

\* A version is active for the domain and there is no profile row: enough for
\* the release of a blocked item, and not for its extraction.
VersionAlone == profile = {"version"}

\* Every item comes to rest, unless a version is all its domain ever has: no
\* crash, restart, switch or restored claim leaves a row behind, and no other
\* release starts a failure over.
EveryItemRests == []<>~VersionAlone => \A i \in Items : <>[]Rests(i)

\* "extraction's own 2-retry cap already prevents release->fail->release
\* loops" (domain-release.ts).  False under a version alone, for the release
\* resets the count and a missing profile is never counted.
EveryReleaseEnds == \A i \in Items : <>[]Rests(i)

=============================================================================

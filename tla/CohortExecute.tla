--------------------------- MODULE CohortExecute ---------------------------
(***************************************************************************)
(* processCohort: the execution of a frozen run.  The parent-owned title   *)
(* and page outputs are coordinated first, once and for all; then every    *)
(* member's pipeline runs and is committed with its child run; a brand     *)
(* check over the committed members and the terminal write close the run.  *)
(* A run resumed after a crash goes through all of it again.               *)
(***************************************************************************)
EXTENDS CohortFreeze

\* The title op covers families of several members only.
NeededOps(r) == IF Cardinality(Members(r)) > 1 THEN Ops ELSE {"page"}
MissingOps(r) == NeededOps(r) \ run[r].outputs
NextOp(r)    == IF "title" \in MissingOps(r) THEN "title" ELSE "page"

\* The skip rule needs an item that is completed with a curation projection.
SeenItem(i) == IF i.status = "completed" /\ i.ref # None
               THEN [ref |-> i.ref, blocked |-> i.blocked] ELSE None

ExecLoad(w, r) ==
    /\ At(w, r, "exec")
    /\ Becomes(w, r, [task[w][r] EXCEPT
           !.pc = "ops", !.todo = Members(r), !.age = Interval + 1,
           !.seen = [m \in Items |-> IF m \in Members(r) THEN SeenItem(item[m]) ELSE None]])
    /\ UNCHANGED <<store, observed, faults>>

-----------------------------------------------------------------------------
(* The parent's outputs: reused, copied from the superseded revision, or   *)
(* coordinated by one awaited call and inserted once.                      *)

\* supersedeOwnedCohortRunForOutputDrift.
SupersedeOwned(w, r) ==
    IF OwnedIn(w, r, "running")
    THEN run' = RunsWithStatus(r, "superseded") /\ child' = ChildrenFailed(r)
    ELSE UNCHANGED <<run, child>>

\* Outputs committed earlier no longer match the title or page authority, or
\* no longer parse.
OutputDrift(w, r) ==
    /\ At(w, r, "exec")
    /\ run[r].outputs # {}
    /\ SupersedeOwned(w, r)
    /\ Ends(w, r)
    /\ UNCHANGED <<item, evidence, cohort, batch, authority, observed, faults>>

CopyTitles(w, r) ==
    /\ At(w, r, "ops")
    /\ "title" \in MissingOps(r)
    /\ \E x \in Runs : /\ run[x].cohort = run[r].cohort
                       /\ run[x].status = "superseded"
                       /\ "title" \in run[x].outputs
                       /\ \A y \in Runs : y > x => run[y].cohort # run[x].cohort
                                                   \/ run[y].status # "superseded"
    /\ Held(w, r)
    /\ run' = [RenewedRuns(w, r) EXCEPT ![r].outputs = @ \cup {"title"}]
    /\ UNCHANGED <<child, item, evidence, cohort, batch, authority, worker>>

CallOp(w, r) ==
    /\ At(w, r, "ops")
    /\ MissingOps(r) # {}
    /\ Held(w, r)
    /\ run' = RenewedRuns(w, r)
    /\ Becomes(w, r, [task[w][r] EXCEPT !.pc = NextOp(r)])
    /\ UNCHANGED <<child, item, evidence, cohort, batch, authority, observed, faults>>

\* The insert is write-once: losing a commit race is an output drift.
OpReturns(w, r) ==
    /\ task[w][r].pc \in Ops
    /\ observed[w] = None
    /\ KeeperHolds(w, r)
    /\ IF task[w][r].pc \in run[r].outputs
       THEN SupersedeOwned(w, r) /\ Ends(w, r)
       ELSE /\ run' = [RenewedRuns(w, r) EXCEPT ![r].outputs = @ \cup {task[w][r].pc}]
            /\ Becomes(w, r, [task[w][r] EXCEPT !.pc = "ops"])
            /\ UNCHANGED child
    /\ UNCHANGED <<item, evidence, cohort, batch, authority, observed, faults>>

\* A transport or validation error: the run is left to a reclaim.
OpThrows(w, r) ==
    /\ task[w][r].pc \in Ops
    /\ observed[w] = None
    /\ Ends(w, r)
    /\ UNCHANGED <<store, observed, faults>>

OpsDone(w, r) ==
    /\ At(w, r, "ops")
    /\ MissingOps(r) = {}
    /\ Becomes(w, r, [task[w][r] EXCEPT !.pc = "member", !.age = Interval + 1])
    /\ UNCHANGED <<store, observed, faults>>

-----------------------------------------------------------------------------
(* The member loop.                                                        *)

AtMember(w, r, m) == At(w, r, "member") /\ IsFirst(task[w][r].todo, m)

NextMember(t, m, failed) ==
    [t EXCEPT !.pc = "member", !.todo = @ \ {m}, !.cur = None, !.att = 0,
              !.failed = @ \/ failed]

\* Variant: a resumed run executes every member again.
NothingCommitted(w, r, m) == FALSE

\* projectionCommitted: the newest child succeeded and the item, as loaded
\* when the execution began, carries exactly its projection.
Committed(w, r, m) ==
    /\ child[r][m].st = "completed"
    /\ task[w][r].seen[m] # None
    /\ task[w][r].seen[m].ref = <<r, child[r][m].n>>

\* Variant: the skip forgets that what was committed is blocked.
SkipForgettingBlock(w, r, m) ==
    /\ AtMember(w, r, m)
    /\ Committed(w, r, m)
    /\ Becomes(w, r, [NextMember(task[w][r], m, FALSE) EXCEPT !.done = @ \cup {m}])
    /\ UNCHANGED <<store, observed, faults>>

SkipMember(w, r, m) ==
    /\ AtMember(w, r, m)
    /\ Committed(w, r, m)
    /\ Becomes(w, r, [NextMember(task[w][r], m, task[w][r].seen[m].blocked)
                      EXCEPT !.done = @ \cup {m}])
    /\ UNCHANGED <<store, observed, faults>>

\* ensureMemberRun; a new child inherits the snapshot of the one before it.
MemberChild(ch) == IF ch.st = "running" THEN ch ELSE NewChild(ch, ch.snap)

StartMember(w, r, m) ==
    /\ AtMember(w, r, m)
    /\ ~Committed(w, r, m)
    /\ ClaimAsserted(w, r)
    /\ child[r][m].st # "running" => ~ItemRunsElsewhere(r, m)
    /\ LET ch == MemberChild(child[r][m]) IN
         /\ child' = [child EXCEPT ![r][m] = [ch EXCEPT !.used = TRUE]]
         /\ Becomes(w, r,
              IF ~Held(w, r) THEN Idle                    \* CohortLeaseKeeper.start throws
              ELSE [task[w][r] EXCEPT !.pc = "pipe", !.cur = m, !.att = ch.n,
                                      !.age = IF Overdue(w, r) THEN 0 ELSE @])
    /\ run' = RenewedRuns(w, r)
    /\ UNCHANGED <<item, evidence, cohort, batch, authority, observed, faults>>

\* A member failure is written under a fresh heartbeat and the loop goes on.
MemberFails(w, r, m) ==
    /\ Held(w, r)
    /\ run' = RenewedRuns(w, r)
    /\ item' = [item EXCEPT ![m].status = "failed"]
    /\ Becomes(w, r, [NextMember(task[w][r], m, TRUE) EXCEPT !.age = 0])

\* The unique index refuses the child run.
MemberRefused(w, r, m) ==
    /\ AtMember(w, r, m)
    /\ ~Committed(w, r, m)
    /\ child[r][m].st # "running"
    /\ ItemRunsElsewhere(r, m)
    /\ MemberFails(w, r, m)
    /\ UNCHANGED <<child, evidence, cohort, batch, authority, observed, faults>>

\* The projection commit: curation data, item status and child run in one
\* transaction.  The item's stage is left as it is.
PipelineCommits(w, r) ==
    /\ At(w, r, "pipe")
    /\ KeeperHolds(w, r)
    /\ LET t == task[w][r]
           m == t.cur
       IN \E blocked \in BOOLEAN :
            /\ item' = [item EXCEPT ![m].status = "completed", ![m].ref = <<r, t.att>>,
                                    ![m].blocked = blocked]
            /\ child' = ChildEnded(r, m, t.att, "completed")
            /\ Becomes(w, r, [NextMember(t, m, blocked) EXCEPT !.done = @ \cup {m}])
    /\ run' = RenewedRuns(w, r)
    /\ UNCHANGED <<evidence, cohort, batch, authority, observed, faults>>

\* A pipeline error fails the child run, under the keeper; an error outside
\* the pipeline leaves it running.
PipelineFails(w, r) ==
    /\ At(w, r, "pipe")
    /\ child' \in {child} \cup
         (IF KeeperHolds(w, r)
          THEN {ChildEnded(r, task[w][r].cur, task[w][r].att, "failed")} ELSE {})
    /\ MemberFails(w, r, task[w][r].cur)
    /\ UNCHANGED <<evidence, cohort, batch, authority, observed, faults>>

-----------------------------------------------------------------------------
(* After the loop.                                                         *)

\* validateCohortBrandCoherence blocks every committed member of a family
\* whose frozen brand evidence disagrees.
BrandBlocked(w, r) ==
    IF run[r].frozen.brand /\ Cardinality(task[w][r].done) > 1 THEN task[w][r].done ELSE {}

CheckBrands(w, r) ==
    /\ At(w, r, "member")
    /\ task[w][r].todo = {}
    /\ Held(w, r)
    /\ run' = RenewedRuns(w, r)
    /\ item' = [m \in Items |-> IF m \in BrandBlocked(w, r)
                                THEN [item[m] EXCEPT !.blocked = TRUE] ELSE item[m]]
    /\ Becomes(w, r, [task[w][r] EXCEPT !.pc = "complete", !.age = 0,
                                        !.failed = @ \/ BrandBlocked(w, r) # {}])
    /\ UNCHANGED <<child, evidence, cohort, batch, authority, observed, faults>>

\* Variant: the terminal write without its owner guard.
CompleteUnguarded(w, r) ==
    /\ At(w, r, "complete")
    /\ run' = RunsWithStatus(r, IF task[w][r].failed THEN "member_failures" ELSE "completed")
    /\ Ends(w, r)
    /\ UNCHANGED <<child, item, evidence, cohort, batch, authority, observed, faults>>

\* completeCohortRun under its owner guard: a stale owner writes nothing.
Complete(w, r) ==
    /\ At(w, r, "complete")
    /\ run' = IF Held(w, r)
              THEN RunsWithStatus(r, IF task[w][r].failed THEN "member_failures" ELSE "completed")
              ELSE run
    /\ Ends(w, r)
    /\ UNCHANGED <<child, item, evidence, cohort, batch, authority, observed, faults>>

\* A rejected heartbeat: HeartbeatLostError, no write.
ExecLosesClaim(w, r) ==
    /\ \/ At(w, r, "ops") /\ MissingOps(r) # {} /\ ~Held(w, r)
       \/ \E m \in Items :
            AtMember(w, r, m) /\ ~Committed(w, r, m) /\ ~ClaimAsserted(w, r)
       \/ At(w, r, "member") /\ task[w][r].todo = {} /\ ~Held(w, r)
    /\ Ends(w, r)
    /\ UNCHANGED <<store, observed, faults>>

Execute(w, r) ==
    \/ ExecLoad(w, r)
    \/ OutputDrift(w, r)
    \/ CopyTitles(w, r)
    \/ CallOp(w, r)
    \/ OpReturns(w, r)
    \/ OpThrows(w, r)
    \/ OpsDone(w, r)
    \/ \E m \in Items : \/ SkipMember(w, r, m)
                        \/ StartMember(w, r, m)
                        \/ MemberRefused(w, r, m)
    \/ PipelineCommits(w, r)
    \/ PipelineFails(w, r)
    \/ CheckBrands(w, r)
    \/ Complete(w, r)
    \/ ExecLosesClaim(w, r)
=============================================================================

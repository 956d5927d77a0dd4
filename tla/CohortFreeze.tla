---------------------------- MODULE CohortFreeze ----------------------------
(***************************************************************************)
(* freezeCohortForExecution: the two-phase freeze of a claimed run.  The   *)
(* first phase walks the members, creating or reusing their child runs and *)
(* awaiting OCR and Product Type ranking calls; the second verifies in one *)
(* transaction that nothing moved meanwhile, records what was frozen and   *)
(* makes the run executable.                                               *)
(***************************************************************************)
EXTENDS CohortWorker

\* Members are walked in ordinal order.
IsFirst(S, m) == m \in S /\ \A x \in S : m <= x

\* The throws before the first write: the run stays claimed.
FreezeAborts(w, r) ==
    /\ At(w, r, "load")
    /\ cohort[run[r].cohort] # "ready"
    /\ Ends(w, r)
    /\ UNCHANGED <<store, observed, faults>>

\* The cohort, its members' items and the common authorities are read once.
FreezeLoad(w, r) ==
    /\ At(w, r, "load")
    /\ cohort[run[r].cohort] = "ready"
    /\ Becomes(w, r, [task[w][r] EXCEPT !.pc = "freeze", !.todo = Members(r),
                                        !.auth = authority, !.view = MemberEvidence(r)])
    /\ UNCHANGED <<store, observed, faults>>

-----------------------------------------------------------------------------
(* One member, up to its first await.                                      *)

\* Variant: a running child is kept as an earlier freeze left it.
KeptChild(ch, auth) == IF ch.st = "running" THEN ch ELSE NewChild(ch, auth)

\* ensureMemberRun, then the rebinding of a running child to the snapshot
\* just built, unless model calls were already made under another one: then
\* it is retired and replaced.
FreezeChild(ch, auth) ==
    IF ch.st = "running" /\ (ch.snap = auth \/ ~ch.used)
    THEN [ch EXCEPT !.snap = auth]
    ELSE NewChild(ch, auth)

ReusableOcr(e, auth) == e.ocr = auth /\ ~e.stale
StaleOcr(e, auth)    == e.ocr \notin {0, auth}

\* Variant: stale OCR is left as it is.
LeftUnmarked(e) == e

\* invalidateStaleStoredOcr: the stored OCR and its digest stay, marked.
Invalidated(e) == [e EXCEPT !.stale = TRUE]

\* Stale OCR is run again for the first members only; OCR that was never
\* settled always is.
RunsOcr(t, e) ==
    /\ ~ReusableOcr(e, t.auth)
    /\ StaleOcr(e, t.auth) => t.reruns < FreezeOcrRerunCap

\* The task after it has looked at the stored OCR of member m.
OcrChecked(t, m) ==
    LET e == t.view[m] IN
    IF StaleOcr(e, t.auth)
    THEN [t EXCEPT !.view[m] = Invalidated(e),
                   !.reruns = IF RunsOcr(t, e) THEN @ + 1 ELSE @]
    ELSE t

\* Enter the awaited call pc, or be done with the member.
AfterOcr(t, m, pc) ==
    IF pc = "freeze" THEN [t EXCEPT !.pc = pc, !.cur = None, !.todo = @ \ {m}]
    ELSE [t EXCEPT !.pc = pc, !.cur = m]

FreezeMember(w, r, m) ==
    /\ At(w, r, "freeze")
    /\ IsFirst(task[w][r].todo, m)
    /\ ClaimAsserted(w, r)
    /\ LET t == [task[w][r] EXCEPT !.age = IF Overdue(w, r) THEN 0 ELSE @]
           ch == FreezeChild(child[r][m], t.auth)
           seen == t.view[m]
       IN
       /\ ch.n > child[r][m].n => ~ItemRunsElsewhere(r, m)
       /\ \E pc \in IF RunsOcr(t, seen) THEN {"ocr"} ELSE {"freeze", "rank"} :
            /\ child' = [child EXCEPT ![r][m] =
                   [ch EXCEPT !.used = @ \/ pc # "freeze"]]
            /\ evidence' = IF StaleOcr(seen, t.auth)
                           THEN [evidence EXCEPT ![m] = Invalidated(seen)] ELSE evidence
            /\ run' = IF Overdue(w, r) \/ pc # "freeze" THEN RenewedRuns(w, r) ELSE run
            /\ Becomes(w, r,
                 IF pc # "freeze" /\ ~Held(w, r) THEN Idle   \* CohortLeaseKeeper.start throws
                 ELSE AfterOcr(OcrChecked(t, m), m, pc))
    /\ UNCHANGED <<item, cohort, batch, authority, observed, faults>>

\* The unique index refuses the member's child run: another parent's child of
\* the same item is still running.  The heartbeat before it stands.
FreezeBlocked(w, r, m) ==
    /\ At(w, r, "freeze")
    /\ IsFirst(task[w][r].todo, m)
    /\ ClaimAsserted(w, r)
    /\ FreezeChild(child[r][m], task[w][r].auth).n > child[r][m].n
    /\ ItemRunsElsewhere(r, m)
    /\ run' = IF Overdue(w, r) THEN RenewedRuns(w, r) ELSE run
    /\ Ends(w, r)
    /\ UNCHANGED <<child, item, evidence, cohort, batch, authority, observed, faults>>

-----------------------------------------------------------------------------
(* The awaited calls.                                                      *)

\* The outcome, usable or not, replaces the stored OCR, its digest and its
\* marker; the extraction data around it is the one the freeze loaded.
OcrReplaced(e, auth) == [e EXCEPT !.ocr = auth, !.stale = FALSE]

OcrReturns(w, r) ==
    /\ At(w, r, "ocr")
    /\ KeeperHolds(w, r)
    /\ LET t == task[w][r]
           m == t.cur
           e == OcrReplaced(t.view[m], t.auth)
       IN \E pc \in {"freeze", "rank"} :
            /\ evidence' = [evidence EXCEPT ![m] = e]
            /\ Becomes(w, r, AfterOcr([t EXCEPT !.view[m] = e], m, pc))
    /\ run' = RenewedRuns(w, r)
    /\ UNCHANGED <<child, item, cohort, batch, authority, observed, faults>>

\* The ranking result only feeds the final aggregation.  A transport failure
\* makes the member abstain without asserting ownership again.
RankReturns(w, r) ==
    /\ At(w, r, "rank")
    /\ run' \in {run} \cup (IF KeeperHolds(w, r) THEN {RenewedRuns(w, r)} ELSE {})
    /\ Becomes(w, r, AfterOcr(task[w][r], task[w][r].cur, "freeze"))
    /\ UNCHANGED <<child, item, evidence, cohort, batch, authority, observed, faults>>

-----------------------------------------------------------------------------
(* The final transaction.                                                  *)

FreezeReady(w, r) == At(w, r, "freeze") /\ task[w][r].todo = {}

\* The family, its evidence and the authorities are as they were captured.
NothingMoved(w, r) ==
    /\ cohort[run[r].cohort] = "ready"
    /\ MemberEvidence(r) = task[w][r].view
    /\ authority = task[w][r].auth

OwnedIn(w, r, status) == run[r].status = status /\ run[r].owner = w

FrozenBy(w, r, brand) ==
    [evidence |-> task[w][r].view, authority |-> task[w][r].auth, brand |-> brand]

\* freezeCohortRunAuthorities and transitionCohortRunToRunning.
FreezeCommits(w, r) ==
    /\ FreezeReady(w, r)
    /\ NothingMoved(w, r)
    /\ OwnedIn(w, r, "freezing")
    /\ \E brand \in BOOLEAN :
         run' = [run EXCEPT ![r].status = "running", ![r].frozen = FrozenBy(w, r, brand)]
    /\ Becomes(w, r, [Idle EXCEPT !.pc = "exec", !.age = Interval + 1])
    /\ UNCHANGED <<child, item, evidence, cohort, batch, authority, observed, faults>>

\* Members disagree on the Product Type: failFrozenCohortRunForConflict.
FreezeConflicts(w, r) ==
    /\ FreezeReady(w, r)
    /\ NothingMoved(w, r)
    /\ OwnedIn(w, r, "freezing")
    /\ run' = [run EXCEPT ![r].status = "failed", ![r].frozen = FrozenBy(w, r, FALSE)]
    /\ child' = ChildrenFailed(r)
    /\ Ends(w, r)
    /\ UNCHANGED <<item, evidence, cohort, batch, authority, observed, faults>>

\* Something moved: the owner supersedes its own freeze, a stale owner leaves.
FreezeDrifts(w, r) ==
    /\ FreezeReady(w, r)
    /\ ~NothingMoved(w, r)
    /\ IF OwnedIn(w, r, "freezing")
       THEN run' = RunsWithStatus(r, "superseded") /\ child' = ChildrenFailed(r)
       ELSE UNCHANGED <<run, child>>
    /\ Ends(w, r)
    /\ UNCHANGED <<item, evidence, cohort, batch, authority, observed, faults>>

FreezeOwnershipLost(w, r) ==
    /\ FreezeReady(w, r)
    /\ NothingMoved(w, r)
    /\ ~OwnedIn(w, r, "freezing")
    /\ Ends(w, r)
    /\ UNCHANGED <<store, observed, faults>>

-----------------------------------------------------------------------------
\* A rejected heartbeat at a member boundary.
FreezeLosesClaim(w, r) ==
    /\ At(w, r, "freeze")
    /\ task[w][r].todo # {}
    /\ ~ClaimAsserted(w, r)
    /\ Ends(w, r)
    /\ UNCHANGED <<store, observed, faults>>

\* The staged OCR of the member throws: the freeze is left to a reclaim, and
\* the stored OCR to its marker.
OcrThrows(w, r) ==
    /\ At(w, r, "ocr")
    /\ Ends(w, r)
    /\ UNCHANGED <<store, observed, faults>>

Freeze(w, r) ==
    \/ FreezeAborts(w, r)
    \/ FreezeLoad(w, r)
    \/ \E m \in Items : FreezeMember(w, r, m) \/ FreezeBlocked(w, r, m)
    \/ OcrReturns(w, r)
    \/ RankReturns(w, r)
    \/ FreezeCommits(w, r)
    \/ FreezeConflicts(w, r)
    \/ FreezeDrifts(w, r)
    \/ FreezeOwnershipLost(w, r)
    \/ FreezeLosesClaim(w, r)
    \/ OcrThrows(w, r)
=============================================================================

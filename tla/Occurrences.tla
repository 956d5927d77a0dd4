---------------------------- MODULE Occurrences ----------------------------
(***************************************************************************)
(* The event triggers of the Store Manager.  Each tick of the worker takes *)
(* back lapsed claims, cancels what is overdue, records an occurrence for  *)
(* every source that has reached what its trigger waits for, and runs the  *)
(* due ones, one after the other.  An operator's "run now" makes and runs  *)
(* an occurrence of its own beside the ticks.  Nothing is in a             *)
(* transaction, and the process may end between any two statements.        *)
(***************************************************************************)
EXTENDS Naturals, FiniteSets

CONSTANTS
    Batches,        \* onboarding batches, watched by an import_finished trigger
    ChangeSets,     \* change sets, watched by a change_set_approved trigger
    RunNows,        \* the operator's requests to run a trigger now
    MaxRetries,     \* retries before an occurrence has failed
    MaxChanges,     \* bound: changes of a source
    Faults,         \* subset of {"crash", "gap", "throw", "off"}
    MaxFaults,      \* bound: faults in a behaviour
    None

Sources == Batches \cup ChangeSets

\* The occurrence keys: of a source that has reached what its trigger waits
\* for, of a batch that has not (a diagnostic, of one reason here), of a request.
Keys == Sources \X {"reached"} \cup Batches \X {"waiting"} \cup RunNows \X {"now"}

ASSUME OccurrencesAssumption ==
    /\ MaxRetries \in Nat /\ MaxChanges \in Nat /\ MaxFaults \in Nat
    /\ Batches \cap ChangeSets = {} /\ None \notin Keys

Ends == {"completed", "failed", "unavailable", "cancelled", "diagnostic"}

VARIABLES
    source,     \* the committed state of each source
    cursor,     \* store_manager_source_cursors: the last state observed, or None
    occ,        \* store_manager_trigger_occurrences
    lease,      \* store_manager_trigger_leases
    tick,       \* the worker's tick
    request,    \* the operator's requests
    on,         \* the flag of event triggers, kill switch included
    up,         \* the process runs
    faults      \* faults so far

vars == <<source, cursor, occ, lease, tick, request, on, up, faults>>

\* A batch waits for its items or has a promoted one without a SKU, a set for
\* its approval; the stamp is the rows' updated_at.
Source == [is : {"waiting", "reached"}, stamp : 0..MaxChanges]

\* scheduled_at: in the future, past, or past the catch-up window.
Occurrence == [st : {"absent", "pending", "claimed"} \cup Ends,
               due : {"later", "now", "overdue"},
               tries : 0..MaxRetries + 1]

Leases == {"none", "live", "lapsed"}

\* A dispatch in flight keeps the retry count it has read.
Dispatch == [on : Keys \cup {None}, tries : 0..MaxRetries + 1]
NoDispatch == [on |-> None, tries |-> 0]

Init ==
    /\ source = [s \in Sources |-> [is |-> "waiting", stamp |-> 0]]
    /\ cursor = [s \in Sources |-> None]
    /\ occ = [k \in Keys |-> [st |-> "absent", due |-> "now", tries |-> 0]]
    /\ lease = [k \in Keys |-> "none"]
    /\ tick = [list |-> {}, run |-> NoDispatch]
    /\ request = [r \in RunNows |-> NoDispatch]
    /\ on = TRUE
    /\ up = TRUE
    /\ faults = 0

Fault(kind) == kind \in Faults /\ faults < MaxFaults /\ faults' = faults + 1

\* What the process was doing is forgotten with it.
ProcessEnds ==
    /\ up' = FALSE
    /\ tick' = [list |-> {}, run |-> NoDispatch]
    /\ request' = [r \in RunNows |-> NoDispatch]

-----------------------------------------------------------------------------
\* External: a batch's items move on or back; a draft is approved.
Change(s) ==
    /\ source[s].stamp < MaxChanges
    /\ \E is \in {"waiting", "reached"} :
        /\ s \in ChangeSets => source[s].is # "reached" /\ is = "reached"
        /\ source' = [source EXCEPT ![s] = [is |-> is, stamp |-> source[s].stamp + 1]]
    /\ UNCHANGED <<cursor, occ, lease, tick, request, on, up, faults>>

\* The clock: a retry's backoff passes; the catch-up window, far longer than a
\* tick, while none ticks; a lease.
Fall(k) ==
    /\ occ[k].st = "pending" /\ occ[k].due = "later"
    /\ occ' = [occ EXCEPT ![k].due = "now"]
    /\ UNCHANGED <<source, cursor, lease, tick, request, on, up, faults>>

Overrun(k) ==
    /\ ~(up /\ on)
    /\ occ[k].st \in {"pending", "claimed"} /\ occ[k].due = "now"
    /\ occ' = [occ EXCEPT ![k].due = "overdue"]
    /\ UNCHANGED <<source, cursor, lease, tick, request, on, up, faults>>

Lapse(k) ==
    /\ lease[k] = "live"
    /\ lease' = [lease EXCEPT ![k] = "lapsed"]
    /\ UNCHANGED <<source, cursor, occ, tick, request, on, up, faults>>

-----------------------------------------------------------------------------
\* expireStaleTriggerLeases, which joins the occurrences with their leases;
\* then cancelOverdueTriggerOccurrences.
\* Variant: the sweep looks for pending rows.
LapsedPending == {k \in Keys : occ[k].st = "pending" /\ lease[k] = "lapsed"}

Lapsed == {k \in Keys : occ[k].st = "claimed" /\ lease[k] = "lapsed"}

\* Variant: an overdue claim loses its lease and stays claimed.
KeptOverdue(k) ==
    IF occ[k].due = "overdue"
    THEN IF occ[k].st = "pending" THEN [occ[k] EXCEPT !.st = "cancelled"] ELSE occ[k]
    ELSE IF k \in Lapsed THEN [occ[k] EXCEPT !.st = "pending"] ELSE occ[k]

Kept(k) ==
    LET freed == IF k \in Lapsed THEN [occ[k] EXCEPT !.st = "pending"] ELSE occ[k]
    IN  IF freed.st = "pending" /\ freed.due = "overdue"
        THEN [freed EXCEPT !.st = "cancelled"] ELSE freed

\* The sources changed since they were observed; only approved sets are listed.
Changed ==
    {s \in Sources : cursor[s] # source[s] /\ (s \in ChangeSets => source[s].is = "reached")}

\* createTriggerOccurrence: a key that has a row keeps it.
Created(k, st) ==
    IF occ[k].st = "absent" THEN [st |-> st, due |-> "now", tries |-> 0] ELSE Kept(k)

KeyOf(s) == <<s, source[s].is>>

\* observeTrigger, for the sources in S.
Observed(S) ==
    [k \in Keys |->
        IF \E s \in S : k = KeyOf(s)
        THEN Created(k, IF k[2] = "reached" THEN "pending" ELSE "diagnostic")
        ELSE Kept(k)]

Swept == [k \in Keys |-> IF k \in Lapsed THEN "none" ELSE lease[k]]

\* Variant: the cursor of a source is written before its occurrence.
SeenFirst(S) == [s \in Sources |-> IF s \in Changed THEN source[s] ELSE cursor[s]]

\* upsertSourceCursor, for the sources in S.
Seen(S) == [s \in Sources |-> IF s \in S THEN source[s] ELSE cursor[s]]

Due(rows) == {k \in Keys : rows[k].st = "pending" /\ rows[k].due # "later"}

\* One tick at a time: inFlight.
InFlight == tick.list # {} \/ tick.run.on # None

\* tickOnce up to its first await.
Sweep ==
    /\ up /\ on /\ ~InFlight
    /\ occ' = Observed(Changed)
    /\ cursor' = Seen(Changed)
    /\ lease' = Swept
    /\ tick' = [list |-> Due(occ'), run |-> NoDispatch]
    /\ UNCHANGED <<source, request, on, up, faults>>

\* The process ends on the way, between an occurrence and its cursor, say.
SweepCut ==
    /\ up /\ on /\ ~InFlight
    /\ Fault("crash")
    /\ \E S \in SUBSET Changed, T \in SUBSET Changed :
        /\ S \subseteq T
        /\ occ' = Observed(T)
        /\ cursor' = Seen(S)
    /\ lease' = Swept
    /\ ProcessEnds
    /\ UNCHANGED <<source, on>>

-----------------------------------------------------------------------------
\* claimTriggerOccurrence: the row, then the lease.
Claimed(k) == [occ EXCEPT ![k].st = "claimed"]
Leased(k) == [lease EXCEPT ![k] = "live"]

Take(k) ==
    /\ tick.run.on = None /\ k \in tick.list
    /\ IF occ[k].st = "pending"
       THEN /\ occ' = Claimed(k)
            /\ lease' = Leased(k)
            /\ tick' = [tick EXCEPT !.list = @ \ {k}, !.run = [on |-> k, tries |-> occ[k].tries]]
       ELSE /\ tick' = [tick EXCEPT !.list = @ \ {k}]
            /\ UNCHANGED <<occ, lease>>
    /\ UNCHANGED <<source, cursor, request, on, up, faults>>

\* runTriggerNowReadOnly: made, claimed and dispatched.
RunNow(r) ==
    LET k == <<r, "now">>
    IN  /\ up /\ on /\ occ[k].st = "absent"
        /\ occ' = [occ EXCEPT ![k] = [st |-> "claimed", due |-> "now", tries |-> 0]]
        /\ lease' = Leased(k)
        /\ request' = [request EXCEPT ![r] = [on |-> k, tries |-> 0]]
        /\ UNCHANGED <<source, cursor, tick, on, up, faults>>

-----------------------------------------------------------------------------
\* finalizeTriggerOccurrence and requeueTriggerOccurrence write a claimed row,
\* whoever has claimed it.  Variant: whatever its status.
FinalizedAnyway(k, st) == [occ EXCEPT ![k].st = st]

Finalized(k, st) ==
    IF occ[k].st = "claimed" THEN [occ EXCEPT ![k].st = st] ELSE occ

Requeued(k) ==
    IF occ[k].st = "claimed"
    THEN [occ EXCEPT ![k] = [st |-> "pending", due |-> "later", tries |-> @.tries + 1]]
    ELSE occ

Released(k) == IF occ[k].st = "claimed" THEN [lease EXCEPT ![k] = "none"] ELSE lease

\* Variant: the retries are not counted.
FinishUncounted(d) ==
    /\ d.on # None
    /\ \E rows \in {Finalized(d.on, "completed"), Requeued(d.on)} : occ' = rows
    /\ lease' = Released(d.on)
    /\ UNCHANGED faults

\* dispatchTriggerOccurrence once the run has ended: in success, or with a
\* retry while the count read at its start allows one.
Finish(d) ==
    /\ d.on # None
    /\ \/ occ' = Finalized(d.on, "completed")
       \/ d.tries < MaxRetries /\ occ' = Requeued(d.on)
       \/ d.tries >= MaxRetries /\ \E st \in {"failed", "unavailable"} : occ' = Finalized(d.on, st)
    /\ lease' = Released(d.on)
    /\ UNCHANGED faults

\* It throws on the way: the claim is left to expire.
Throw(d) == d.on # None /\ Fault("throw") /\ UNCHANGED <<occ, lease>>

TickDone ==
    /\ Finish(tick.run) \/ Throw(tick.run)
    /\ tick' = [tick EXCEPT !.run = NoDispatch]
    /\ UNCHANGED <<source, cursor, request, on, up>>

RequestDone(r) ==
    /\ Finish(request[r]) \/ Throw(request[r])
    /\ request' = [request EXCEPT ![r] = NoDispatch]
    /\ UNCHANGED <<source, cursor, tick, on, up>>

-----------------------------------------------------------------------------
\* The process ends: anywhere, or between the row and the lease of a claim.
Crash ==
    /\ up
    /\ \/ Fault("crash") /\ UNCHANGED occ
       \/ /\ Fault("gap") /\ tick.run.on = None
          /\ \E k \in tick.list : occ[k].st = "pending" /\ occ' = Claimed(k)
    /\ ProcessEnds
    /\ UNCHANGED <<source, cursor, lease, on>>

Restart ==
    /\ ~up /\ up' = TRUE
    /\ UNCHANGED <<source, cursor, occ, lease, tick, request, on, faults>>

\* The operator's kill switch.
SwitchOff ==
    /\ on /\ Fault("off")
    /\ on' = FALSE
    /\ UNCHANGED <<source, cursor, occ, lease, tick, request, up>>

SwitchOn ==
    /\ ~on /\ on' = TRUE
    /\ UNCHANGED <<source, cursor, occ, lease, tick, request, up, faults>>

TickStep == Sweep \/ (\E k \in Keys : Take(k)) \/ TickDone

Next ==
    \/ \E s \in Sources : Change(s)
    \/ \E k \in Keys : Fall(k) \/ Overrun(k) \/ Lapse(k)
    \/ TickStep \/ SweepCut
    \/ \E r \in RunNows : RunNow(r) \/ RequestDone(r)
    \/ Crash \/ Restart \/ SwitchOff \/ SwitchOn

Spec == Init /\ [][Next]_vars

\* The timer ticks, time passes, the run's deadline ends every dispatch, and
\* what is stopped or switched off does not stay so.
FairSpec ==
    /\ Spec
    /\ WF_vars(TickStep)
    /\ \A k \in Keys : WF_vars(Fall(k)) /\ WF_vars(Lapse(k))
    /\ WF_vars(Restart) /\ WF_vars(SwitchOn)

-----------------------------------------------------------------------------
TypeOK ==
    /\ source \in [Sources -> Source]
    /\ cursor \in [Sources -> Source \cup {None}]
    /\ occ \in [Keys -> Occurrence]
    /\ lease \in [Keys -> Leases]
    /\ tick \in [list : SUBSET Keys, run : Dispatch]
    /\ request \in [RunNows -> Dispatch]
    /\ on \in BOOLEAN /\ up \in BOOLEAN
    /\ faults \in 0..MaxFaults

\* A source observed in the state its trigger waits for has its occurrence:
\* none is lost between the two writes.  (observeChangeSetApproved and
\* observeImportFinishedBatch)
ObservedIsKept ==
    \A s \in Sources :
        cursor[s] # None => (cursor[s].is = "reached" => occ[<<s, "reached">>].st # "absent")

\* A claim can be taken back: every claimed occurrence has the lease the next
\* sweep looks for, whoever has requeued or ended it before.
\* (claimTriggerOccurrence, expireStaleTriggerLeases)
ClaimIsReclaimable == \A k \in Keys : occ[k].st = "claimed" => lease[k] # "none"

\* An occurrence ends once, whatever late results two dispatches of it bring.
\* (finalizeTriggerOccurrence, requeueTriggerOccurrence)
EndsOnce ==
    [][\A k \in Keys : occ[k].st \in Ends => occ'[k].st = occ[k].st]_vars

\* An occurrence that has not ended, or is still to be made for a source that
\* has reached what its trigger waits for.
Awaited(k) ==
    \/ occ[k].st \in {"pending", "claimed"}
    \/ \E s \in Sources : k = <<s, "reached">> /\ source[s].is = "reached" /\ occ[k].st = "absent"

\* What a trigger waits for is answered by an occurrence, and every occurrence
\* is run or cancelled in the end.  (observeTrigger, tickOnce)
EveryOccurrenceEnds == \A k \in Keys : []<>~Awaited(k)

\* No occurrence runs twice at a time.
NeverRunsTwice == \A r \in RunNows : request[r].on = None \/ request[r].on # tick.run.on
=============================================================================

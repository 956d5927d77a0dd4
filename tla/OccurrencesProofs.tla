------------------------- MODULE OccurrencesProofs -------------------------
(***************************************************************************)
(* What the occurrences of Occurrences.tla keep, for any number of         *)
(* sources, requests, retries and faults.                                  *)
(***************************************************************************)
EXTENDS Occurrences, TLAPS

\* A request's dispatch is at k.
Asked(k) == \E r \in RunNows : request[r].on = k

\* How far a row's retry count may be ahead of what its dispatches have read:
\* a request's late requeue adds one to the tick's, once.
RetryInv ==
    /\ \A r \in RunNows : request[r].on \in {None, <<r, "now">>}
    /\ \A k \in Keys : Asked(k) => occ[k].tries <= MaxRetries
    /\ \A k \in Keys : tick.run.on = k =>
          /\ occ[k].st # "absent"
          /\ occ[k].tries <= tick.run.tries + 1
          /\ Asked(k) => occ[k].tries <= tick.run.tries

TypeInv == TypeOK /\ RetryInv

-----------------------------------------------------------------------------
LEMMA FaultCounted ==
    ASSUME faults \in 0..MaxFaults, NEW kind, Fault(kind)
    PROVE  faults' \in 0..MaxFaults
BY OccurrencesAssumption DEF Fault

\* The keys of what a sweep may record, and of a request.
LEMMA KeysAreKeys ==
    /\ \A s \in Sources : <<s, "reached">> \in Keys
    /\ \A r \in RunNows : <<r, "now">> \in Keys
    /\ TypeOK => \A s \in Changed : KeyOf(s) \in Keys
<1>1. \A s \in Sources : <<s, "reached">> \in Keys
  BY DEF Keys
<1>2. \A r \in RunNows : <<r, "now">> \in Keys
  BY DEF Keys
<1>3. ASSUME TypeOK, NEW s \in Changed PROVE KeyOf(s) \in Keys
  <2>1. s \in Sources /\ source[s].is \in {"waiting", "reached"}
    BY <1>3 DEF TypeOK, Changed, Source
  <2>2. s \in ChangeSets => source[s].is = "reached"
    BY DEF Changed
  <2> QED BY <2>1, <2>2 DEF KeyOf, Keys, Sources
<1> QED BY <1>1, <1>2, <1>3

\* What a sweep makes of a row: it is never forgotten, and its count stays.
LEMMA SweptRow ==
    ASSUME TypeOK, NEW S \in SUBSET Changed, NEW k \in Keys
    PROVE  /\ Observed(S)[k] \in Occurrence
           /\ Observed(S)[k].st = "absent" => occ[k].st = "absent"
           /\ occ[k].st # "absent" => Observed(S)[k].tries = occ[k].tries
           /\ occ[k].st \in Ends => Observed(S)[k].st = occ[k].st
           /\ Observed(S)[k].st = "claimed" => occ[k].st = "claimed" /\ k \notin Lapsed
<1> USE OccurrencesAssumption
<1>1. occ[k] \in Occurrence
  BY DEF TypeOK
<1>2. /\ Kept(k) \in Occurrence /\ Kept(k).tries = occ[k].tries
      /\ Kept(k).st = "absent" <=> occ[k].st = "absent"
      /\ occ[k].st \in Ends => Kept(k).st = occ[k].st
      /\ Kept(k).st = "claimed" => occ[k].st = "claimed" /\ k \notin Lapsed
  BY <1>1 DEF Kept, Lapsed, Occurrence, Ends
<1>3. ASSUME NEW st \in {"pending", "diagnostic"}
      PROVE  /\ Created(k, st) \in Occurrence
             /\ Created(k, st).st # "absent"
             /\ occ[k].st # "absent" => Created(k, st) = Kept(k)
             /\ occ[k].st = "absent" => Created(k, st).st = st
  BY <1>1, <1>2 DEF Created, Occurrence, Ends
<1> QED BY <1>1, <1>2, <1>3 DEF Observed, Ends

\* The writes of a dispatch's end.
LEMMA EndedRow ==
    ASSUME TypeInv, NEW d \in Dispatch, Finish(d), NEW k \in Keys,
           occ[d.on].tries <= MaxRetries \/ d.tries >= MaxRetries
    PROVE  /\ occ' \in [Keys -> Occurrence] /\ lease' \in [Keys -> Leases]
           /\ occ'[k].st = "absent" <=> occ[k].st = "absent"
           /\ k # d.on => occ'[k] = occ[k] /\ lease'[k] = lease[k]
           /\ occ[k].st # "claimed" => occ'[k] = occ[k]
           /\ occ'[k].tries <= occ[k].tries + 1
           /\ d.tries >= MaxRetries => occ'[k].tries = occ[k].tries
           /\ occ'[k].st = "claimed" => occ[k].st = "claimed" /\ k # d.on
<1> USE OccurrencesAssumption
<1>1. d.on \in Keys /\ d.tries \in Nat
  BY DEF Finish, Dispatch
<1>2. occ \in [Keys -> Occurrence] /\ lease \in [Keys -> Leases]
  BY DEF TypeInv, TypeOK
<1>3. ASSUME NEW st \in Ends, occ' = Finalized(d.on, st)
      PROVE  /\ occ' \in [Keys -> Occurrence]
             /\ occ'[k].st = "absent" <=> occ[k].st = "absent"
             /\ k # d.on => occ'[k] = occ[k]
             /\ occ[k].st # "claimed" => occ'[k] = occ[k]
             /\ occ'[k].tries = occ[k].tries
             /\ occ'[k].st = "claimed" => occ[k].st = "claimed" /\ k # d.on
  BY <1>1, <1>2, <1>3 DEF Finalized, Occurrence, Ends
<1>4. ASSUME d.tries < MaxRetries, occ' = Requeued(d.on)
      PROVE  /\ occ' \in [Keys -> Occurrence]
             /\ occ'[k].st = "absent" <=> occ[k].st = "absent"
             /\ k # d.on => occ'[k] = occ[k]
             /\ occ[k].st # "claimed" => occ'[k] = occ[k]
             /\ occ'[k].tries <= occ[k].tries + 1
             /\ occ'[k].st = "claimed" => occ[k].st = "claimed" /\ k # d.on
  <2>1. occ[d.on].tries + 1 \in 0..MaxRetries + 1
    BY <1>1, <1>2, <1>4 DEF Occurrence
  <2> QED BY <1>1, <1>2, <1>4, <2>1 DEF Requeued, Occurrence
<1>5. lease' \in [Keys -> Leases] /\ (k # d.on => lease'[k] = lease[k])
  BY <1>1, <1>2 DEF Finish, Released, Leases
<1>6. occ[k].tries \in Nat
  BY <1>2 DEF Occurrence
<1>7. CASE \E st \in Ends : occ' = Finalized(d.on, st)
  BY <1>3, <1>5, <1>6, <1>7
<1>8. CASE d.tries < MaxRetries /\ occ' = Requeued(d.on)
  BY <1>1, <1>4, <1>5, <1>6, <1>8
<1> QED BY <1>7, <1>8 DEF Finish, Ends

-----------------------------------------------------------------------------
\* Falling due leaves the status and the count of every row as they are, and
\* only the status of a claimed row changes.
LEMMA DueRows ==
    ASSUME occ \in [Keys -> Occurrence], NEW k \in Keys, Fall(k) \/ Overrun(k)
    PROVE  /\ occ' \in [Keys -> Occurrence]
           /\ \A j \in Keys : occ'[j].tries = occ[j].tries /\ occ'[j].st = occ[j].st
<1>1. PICK due \in {"now", "overdue"} : occ' = [occ EXCEPT ![k].due = due]
  BY DEF Fall, Overrun
<1> DEFINE row == [occ[k] EXCEPT !.due = due]
<1>2. row \in Occurrence /\ row.tries = occ[k].tries /\ row.st = occ[k].st
  BY DEF Occurrence
<1>3. occ' = [occ EXCEPT ![k] = row]
  BY <1>1
<1> HIDE DEF row
<1> QED BY <1>2, <1>3

LEMMA ClaimedRows ==
    ASSUME occ \in [Keys -> Occurrence], NEW k \in Keys
    PROVE  /\ Claimed(k) \in [Keys -> Occurrence]
           /\ \A j \in Keys : Claimed(k)[j].tries = occ[j].tries
<1> DEFINE row == [occ[k] EXCEPT !.st = "claimed"]
<1>1. row \in Occurrence /\ row.tries = occ[k].tries
  BY DEF Occurrence
<1>2. Claimed(k) = [occ EXCEPT ![k] = row]
  BY DEF Claimed
<1> HIDE DEF row
<1> QED BY <1>1, <1>2

\* The steps that leave the rows and the dispatches alone, or forget the latter.
LEMMA QuietSteps ==
    ASSUME TypeInv,
           \/ \E s \in Sources : Change(s)
           \/ \E k \in Keys : Fall(k) \/ Overrun(k) \/ Lapse(k)
           \/ Crash \/ Restart \/ SwitchOff \/ SwitchOn
    PROVE  TypeInv'
<1> USE OccurrencesAssumption DEF TypeInv, TypeOK
<1>1. ASSUME NEW s \in Sources, Change(s) PROVE TypeInv'
  <2>1. source' \in [Sources -> Source]
    BY <1>1 DEF Change, Source
  <2> QED BY <1>1, <2>1 DEF Change, RetryInv, Asked
<1>2. ASSUME NEW k \in Keys, Fall(k) \/ Overrun(k) PROVE TypeInv'
  <2>1. /\ occ' \in [Keys -> Occurrence]
        /\ \A j \in Keys : occ'[j].tries = occ[j].tries /\ occ'[j].st = occ[j].st
    BY <1>2, DueRows
  <2>2. UNCHANGED <<source, cursor, lease, tick, request, on, up, faults>>
    BY <1>2 DEF Fall, Overrun
  <2>3. RetryInv'
    BY <2>1, <2>2 DEF RetryInv, Asked
  <2> QED BY <2>1, <2>2, <2>3
<1>3. ASSUME NEW k \in Keys, Lapse(k) PROVE TypeInv'
  <2>1. lease' \in [Keys -> Leases]
    BY <1>3 DEF Lapse, Leases
  <2> QED BY <1>3, <2>1 DEF Lapse, RetryInv, Asked
<1>4. CASE Crash
  <2>1. /\ occ' \in [Keys -> Occurrence]
        /\ \A j \in Keys : occ'[j].tries = occ[j].tries
    <3>1. occ' = occ \/ \E k \in Keys : occ' = Claimed(k)
      BY <1>4 DEF Crash
    <3> QED BY <3>1, ClaimedRows
  <2>2. /\ tick' \in [list : SUBSET Keys, run : Dispatch] /\ tick'.run.on = None
        /\ request' \in [RunNows -> Dispatch] /\ \A r \in RunNows : request'[r].on = None
    BY <1>4 DEF Crash, ProcessEnds, NoDispatch, Dispatch
  <2>3. faults' \in 0..MaxFaults
    BY <1>4, FaultCounted DEF Crash
  <2>4. up' = FALSE /\ UNCHANGED <<source, cursor, lease, on>>
    BY <1>4 DEF Crash, ProcessEnds
  <2>5. RetryInv'
    BY <2>2 DEF RetryInv, Asked
  <2> QED BY <2>1, <2>2, <2>3, <2>4, <2>5
<1>5. CASE Restart \/ SwitchOff \/ SwitchOn
  <2>1. faults' \in 0..MaxFaults
    BY <1>5, FaultCounted DEF Restart, SwitchOff, SwitchOn
  <2>2. /\ UNCHANGED <<source, cursor, occ, lease, tick, request>>
        /\ up' \in BOOLEAN /\ on' \in BOOLEAN
    BY <1>5 DEF Restart, SwitchOff, SwitchOn
  <2> QED BY <2>1, <2>2 DEF RetryInv, Asked
<1> QED BY <1>1, <1>2, <1>3, <1>4, <1>5

LEMMA SweepKeeps ==
    ASSUME TypeInv, Sweep \/ SweepCut
    PROVE  TypeInv'
<1> USE OccurrencesAssumption DEF TypeInv, TypeOK
<1>1. PICK S \in SUBSET Changed, T \in SUBSET Changed :
          /\ occ' = Observed(T) /\ cursor' = Seen(S)
          /\ lease' = Swept /\ UNCHANGED <<source, on>>
  BY DEF Sweep, SweepCut
<1>2. /\ occ' \in [Keys -> Occurrence]
      /\ \A k \in Keys : occ[k].st # "absent" => occ'[k].st # "absent" /\ occ'[k].tries = occ[k].tries
  <2>1. DOMAIN occ' = Keys /\ occ' = [k \in Keys |-> occ'[k]]
    BY <1>1 DEF Observed
  <2> QED BY <1>1, <2>1, SweptRow
<1>3. cursor' \in [Sources -> Source \cup {None}]
  BY <1>1 DEF Seen
<1>4. lease' \in [Keys -> Leases]
  BY <1>1 DEF Swept, Leases
<1>5. faults' \in 0..MaxFaults /\ up' \in BOOLEAN
  <2>1. faults' \in 0..MaxFaults
    BY FaultCounted DEF Sweep, SweepCut
  <2>2. up' \in {up, FALSE}
    BY DEF Sweep, SweepCut, ProcessEnds
  <2> QED BY <2>1, <2>2
<1>6. /\ tick' \in [list : SUBSET Keys, run : Dispatch] /\ tick'.run.on = None
      /\ request' \in [RunNows -> Dispatch]
      /\ \A r \in RunNows : request'[r].on \in {None, request[r].on}
  BY DEF Sweep, SweepCut, ProcessEnds, Due, NoDispatch, Dispatch
<1>7. \A k \in Keys : Asked(k)' => occ'[k].tries <= MaxRetries
  <2> SUFFICES ASSUME NEW k \in Keys, NEW r \in RunNows, request'[r].on = k
               PROVE  occ'[k].tries <= MaxRetries
    BY DEF Asked
  <2>1. request[r].on = k
    BY <1>6
  <2>2. k = <<r, "now">>
    BY <2>1 DEF RetryInv
  <2>3. occ[k].tries <= MaxRetries
    BY <2>1 DEF RetryInv, Asked
  <2>4. \A s \in T : k # KeyOf(s)
    BY <2>2 DEF KeyOf, Changed, Source
  <2>5. occ'[k] = Kept(k)
    BY <1>1, <2>4 DEF Observed
  <2> QED BY <2>3, <2>5 DEF Kept, Occurrence
<1>8. RetryInv'
  BY <1>6, <1>7 DEF RetryInv
<1> QED BY <1>1, <1>2, <1>3, <1>4, <1>5, <1>6, <1>8

LEMMA TakeKeeps ==
    ASSUME TypeInv, NEW k \in Keys, Take(k)
    PROVE  TypeInv'
<1> USE OccurrencesAssumption DEF TypeInv, TypeOK
<1>1. UNCHANGED <<source, cursor, request, on, up, faults>>
  BY DEF Take
<1>2. CASE occ[k].st = "pending"
  <2>1. /\ occ' \in [Keys -> Occurrence]
        /\ occ'[k].st = "claimed"
        /\ \A j \in Keys : occ'[j].tries = occ[j].tries /\ occ[j].tries \in 0..MaxRetries + 1
    BY <1>2 DEF Take, Claimed, Occurrence
  <2>2. lease' \in [Keys -> Leases]
    BY <1>2 DEF Take, Leased, Leases
  <2>3. /\ tick' \in [list : SUBSET Keys, run : Dispatch]
        /\ tick'.run = [on |-> k, tries |-> occ[k].tries]
    <3>1. tick' = [tick EXCEPT !.list = @ \ {k}, !.run = [on |-> k, tries |-> occ[k].tries]]
      BY <1>2 DEF Take
    <3>2. [on |-> k, tries |-> occ[k].tries] \in Dispatch
      BY <2>1 DEF Dispatch
    <3> QED BY <3>1, <3>2
  <2>4. RetryInv'
    BY <1>1, <2>1, <2>3 DEF RetryInv, Asked
  <2> QED BY <1>1, <2>1, <2>2, <2>3, <2>4
<1>3. CASE occ[k].st # "pending"
  <2>1. tick' \in [list : SUBSET Keys, run : Dispatch] /\ tick'.run = tick.run
    BY <1>3 DEF Take
  <2> QED BY <1>1, <1>3, <2>1 DEF Take, RetryInv, Asked
<1> QED BY <1>2, <1>3

LEMMA RunNowKeeps ==
    ASSUME TypeInv, NEW r \in RunNows, RunNow(r)
    PROVE  TypeInv'
<1> USE OccurrencesAssumption DEF TypeInv, TypeOK
<1> DEFINE k == <<r, "now">>
<1>1. k \in Keys /\ occ[k].st = "absent" /\ tick.run.on # k
  BY KeysAreKeys DEF RunNow, RetryInv
<1>2. UNCHANGED <<source, cursor, tick, on, up, faults>>
  BY DEF RunNow
<1>3. /\ occ' \in [Keys -> Occurrence] /\ occ'[k].tries = 0
      /\ \A j \in Keys : j # k => occ'[j] = occ[j]
  BY <1>1 DEF RunNow, Occurrence
<1>4. lease' \in [Keys -> Leases]
  BY <1>1 DEF RunNow, Leased, Leases
<1>5. /\ request' \in [RunNows -> Dispatch] /\ request'[r].on = k
      /\ \A q \in RunNows : q # r => request'[q] = request[q]
  BY <1>1 DEF RunNow, Dispatch
<1>6. \A j \in Keys : j # k => (Asked(j)' <=> Asked(j)) \/ request[r].on = j
  BY <1>5 DEF Asked
<1>7. \A j \in Keys : j # k => (Asked(j)' => Asked(j))
  BY <1>5 DEF Asked
<1>8. RetryInv'
  <2>1. \A q \in RunNows : request'[q].on \in {None, <<q, "now">>}
    BY <1>5 DEF RetryInv
  <2>2. \A j \in Keys : Asked(j)' => occ'[j].tries <= MaxRetries
    BY <1>3, <1>7 DEF RetryInv
  <2>3. \A j \in Keys : tick.run.on = j =>
            occ'[j] = occ[j] /\ (Asked(j)' => Asked(j))
    BY <1>1, <1>3, <1>7
  <2> QED BY <1>2, <2>1, <2>2, <2>3 DEF RetryInv
<1> QED BY <1>2, <1>3, <1>4, <1>5, <1>8

LEMMA TickDoneKeeps ==
    ASSUME TypeInv, TickDone
    PROVE  TypeInv'
<1> USE OccurrencesAssumption DEF TypeInv, TypeOK
<1>1. /\ tick' \in [list : SUBSET Keys, run : Dispatch] /\ tick'.run.on = None
      /\ UNCHANGED <<source, cursor, request, on, up>>
  BY DEF TickDone, NoDispatch, Dispatch
<1>2. tick.run \in Dispatch
  OBVIOUS
<1>3. CASE Throw(tick.run)
  BY <1>1, <1>3 DEF Throw, Fault, RetryInv, Asked
<1>4. CASE Finish(tick.run)
  <2> DEFINE d == tick.run
  <2>1. d.on \in Keys /\ d.tries \in Nat /\ occ[d.on].tries \in Nat
    BY <1>2, <1>4 DEF Finish, Dispatch, Occurrence
  <2>2. occ[d.on].tries <= MaxRetries \/ d.tries >= MaxRetries
    BY <2>1 DEF RetryInv
  <2>3. \A k \in Keys :
            /\ occ' \in [Keys -> Occurrence] /\ lease' \in [Keys -> Leases]
            /\ k # d.on => occ'[k] = occ[k]
            /\ occ'[k].tries <= occ[k].tries + 1
            /\ d.tries >= MaxRetries => occ'[k].tries = occ[k].tries
    BY <1>2, <1>4, <2>2, EndedRow
  <2>4. faults' = faults
    BY <1>4 DEF Finish
  <2>5. \A k \in Keys : Asked(k) => occ'[k].tries <= MaxRetries
    <3> SUFFICES ASSUME NEW k \in Keys, Asked(k) PROVE occ'[k].tries <= MaxRetries
      OBVIOUS
    <3>1. occ[k].tries \in Nat /\ occ'[k].tries \in Nat /\ occ[k].tries <= MaxRetries
      BY <2>3 DEF RetryInv, Occurrence
    <3>2. k = d.on => occ[k].tries <= d.tries
      BY DEF RetryInv
    <3> QED BY <2>1, <2>3, <3>1, <3>2
  <2>6. RetryInv'
    BY <1>1, <2>5 DEF RetryInv, Asked
  <2>7. occ' \in [Keys -> Occurrence] /\ lease' \in [Keys -> Leases]
    BY <2>1, <2>3
  <2> QED BY <1>1, <2>4, <2>6, <2>7
<1> QED BY <1>3, <1>4 DEF TickDone

LEMMA RequestDoneKeeps ==
    ASSUME TypeInv, NEW r \in RunNows, RequestDone(r)
    PROVE  TypeInv'
<1> USE OccurrencesAssumption DEF TypeInv, TypeOK
<1>1. /\ request' \in [RunNows -> Dispatch] /\ request'[r].on = None
      /\ \A q \in RunNows : q # r => request'[q] = request[q]
      /\ UNCHANGED <<source, cursor, tick, on, up>>
  BY DEF RequestDone, NoDispatch, Dispatch
<1>2. request[r] \in Dispatch
  OBVIOUS
<1>3. CASE Throw(request[r])
  BY <1>1, <1>3 DEF Throw, Fault, RetryInv, Asked
<1>4. CASE Finish(request[r])
  <2> DEFINE d == request[r]
  <2>1. d.on \in Keys /\ d.on = <<r, "now">> /\ occ[d.on].tries \in Nat
    BY <1>2, <1>4 DEF Finish, Dispatch, Occurrence, RetryInv
  <2>2. occ[d.on].tries <= MaxRetries
    BY <2>1 DEF RetryInv, Asked
  <2>3. \A k \in Keys :
            /\ occ' \in [Keys -> Occurrence] /\ lease' \in [Keys -> Leases]
            /\ occ'[k].st = "absent" <=> occ[k].st = "absent"
            /\ k # d.on => occ'[k] = occ[k]
            /\ occ'[k].tries <= occ[k].tries + 1
    BY <1>2, <1>4, <2>2, EndedRow
  <2>4. faults' = faults
    BY <1>4 DEF Finish
  <2>5. \A k \in Keys : Asked(k)' => k # d.on /\ Asked(k)
    BY <1>1, <2>1 DEF Asked, RetryInv
  <2>6. \A k \in Keys : Asked(k)' => occ'[k].tries <= MaxRetries
    BY <2>3, <2>5 DEF RetryInv
  <2>7. ASSUME NEW k \in Keys, tick.run.on = k
        PROVE  /\ occ'[k].st # "absent"
               /\ occ'[k].tries <= tick.run.tries + 1
               /\ Asked(k)' => occ'[k].tries <= tick.run.tries
    <3>1. occ[k].tries \in Nat /\ occ'[k].tries \in Nat /\ tick.run.tries \in Nat
      BY <2>3 DEF Dispatch, Occurrence
    <3>2. CASE k # d.on
      BY <2>3, <2>5, <2>7, <3>2 DEF RetryInv
    <3>3. CASE k = d.on
      <4>1. Asked(k)
        BY <3>3 DEF Asked
      <4>2. occ[k].tries <= tick.run.tries /\ occ[k].st # "absent"
        BY <2>7, <4>1 DEF RetryInv
      <4> QED BY <2>3, <2>5, <3>1, <3>3, <4>2
    <3> QED BY <3>2, <3>3
  <2>8. \A q \in RunNows : request'[q].on \in {None, <<q, "now">>}
    BY <1>1 DEF RetryInv
  <2>9. RetryInv'
    BY <1>1, <2>6, <2>7, <2>8 DEF RetryInv
  <2>10. occ' \in [Keys -> Occurrence] /\ lease' \in [Keys -> Leases]
    BY <2>1, <2>3
  <2> QED BY <1>1, <2>4, <2>9, <2>10
<1> QED BY <1>3, <1>4 DEF RequestDone

\* The rows, the leases and the dispatches keep their types; the count of a
\* row goes one beyond the cap at most, whatever a late request adds.
THEOREM OccurrencesTyped == Spec => []TypeInv
<1>1. Init => TypeInv
  BY OccurrencesAssumption
     DEF Init, TypeInv, TypeOK, RetryInv, Source, Occurrence, Leases, NoDispatch, Dispatch, Asked
<1>2. TypeInv /\ [Next]_vars => TypeInv'
  <2> SUFFICES ASSUME TypeInv, [Next]_vars PROVE TypeInv'
    OBVIOUS
  <2>1. CASE Next
    BY <2>1, QuietSteps, SweepKeeps, TakeKeeps, RunNowKeeps, TickDoneKeeps, RequestDoneKeeps
       DEF Next, TickStep
  <2>2. CASE UNCHANGED vars
    BY <2>2 DEF vars, TypeInv, TypeOK, RetryInv, Asked
  <2> QED BY <2>1, <2>2
<1> QED BY <1>1, <1>2, PTL DEF Spec

THEOREM OccurrencesTypeOK == Spec => []TypeOK
BY OccurrencesTyped, PTL DEF TypeInv

-----------------------------------------------------------------------------
\* What a step may do to one row: nothing brings a row that has ended back,
\* and none that is there is forgotten.
LEMMA RowStep ==
    ASSUME TypeInv, [Next]_vars, NEW k \in Keys
    PROVE  /\ occ[k].st \in Ends => occ'[k].st = occ[k].st
           /\ occ[k].st # "absent" => occ'[k].st # "absent"
<1> USE DEF TypeInv, TypeOK
<1>1. CASE UNCHANGED occ
  BY <1>1
<1>2. ASSUME NEW j \in Keys, Fall(j) \/ Overrun(j) PROVE occ'[k].st = occ[k].st
  BY <1>2 DEF Fall, Overrun, Occurrence
<1>3. CASE Sweep \/ SweepCut
  <2>1. PICK T \in SUBSET Changed : occ' = Observed(T)
    BY <1>3 DEF Sweep, SweepCut
  <2> QED BY <2>1, SweptRow
<1>4. ASSUME NEW j \in Keys, occ' = Claimed(j), occ[j].st = "pending"
      PROVE  occ'[k] = occ[k] \/ (occ[k].st = "pending" /\ occ'[k].st = "claimed")
  BY <1>4 DEF Claimed, Occurrence
<1>5. ASSUME NEW r \in RunNows, RunNow(r)
      PROVE  occ'[k] = occ[k] \/ (occ[k].st = "absent" /\ occ'[k].st = "claimed")
  BY <1>5 DEF RunNow, Occurrence
<1>6. ASSUME NEW d \in Dispatch, Finish(d)
      PROVE  occ'[k] = occ[k] \/ (occ[k].st = "claimed" /\ occ'[k].st # "absent")
  BY <1>6 DEF Finish, Finalized, Requeued, Occurrence
<1>7. CASE Next
  <2>1. ASSUME NEW j \in Keys, Take(j) PROVE UNCHANGED occ \/ (occ' = Claimed(j) /\ occ[j].st = "pending")
    BY <2>1 DEF Take
  <2>2. CASE Crash
    <3>1. PICK j \in Keys : UNCHANGED occ \/ (occ' = Claimed(j) /\ occ[j].st = "pending")
      BY <2>2 DEF Crash
    <3> QED BY <1>4, <3>1 DEF Ends
  <2>3. TickDone => UNCHANGED occ \/ \E d \in Dispatch : Finish(d)
    BY DEF TickDone, Throw
  <2>4. \A r \in RunNows : RequestDone(r) => UNCHANGED occ \/ \E d \in Dispatch : Finish(d)
    BY DEF RequestDone, Throw
  <2>5. \/ UNCHANGED occ
        \/ \E j \in Keys : Fall(j) \/ Overrun(j) \/ Take(j)
        \/ Sweep \/ SweepCut \/ Crash \/ TickDone
        \/ \E r \in RunNows : RunNow(r) \/ RequestDone(r)
    BY <1>7 DEF Next, TickStep, Change, Lapse, Restart, SwitchOff, SwitchOn
  <2> QED BY <1>2, <1>3, <1>4, <1>5, <1>6, <2>1, <2>2, <2>3, <2>4, <2>5 DEF Ends
<1> QED BY <1>1, <1>7 DEF vars

\* An occurrence ends once.
THEOREM OccurrencesEndOnce == Spec => EndsOnce
<1>1. TypeInv /\ [Next]_vars => [\A k \in Keys : occ[k].st \in Ends => occ'[k].st = occ[k].st]_vars
  BY RowStep
<1> QED BY <1>1, OccurrencesTyped, PTL DEF Spec, EndsOnce

\* No observation is lost between the occurrence and the cursor.
THEOREM ObservationsKept == Spec => []ObservedIsKept
<1>1. Init => ObservedIsKept
  BY DEF Init, ObservedIsKept
<1>2. TypeInv /\ ObservedIsKept /\ [Next]_vars => ObservedIsKept'
  <2> SUFFICES ASSUME TypeInv, ObservedIsKept, [Next]_vars,
                      NEW s \in Sources, cursor'[s] # None, cursor'[s].is = "reached"
               PROVE  occ'[<<s, "reached">>].st # "absent"
    BY DEF ObservedIsKept
  <2> DEFINE k == <<s, "reached">>
  <2>1. k \in Keys
    BY KeysAreKeys
  <2>2. CASE UNCHANGED cursor
    BY <2>1, <2>2, RowStep DEF ObservedIsKept
  <2>3. CASE Sweep \/ SweepCut
    <3>1. PICK S \in SUBSET Changed, T \in SUBSET Changed :
              S \subseteq T /\ occ' = Observed(T) /\ cursor' = Seen(S)
      BY <2>3 DEF Sweep, SweepCut
    <3>2. CASE s \in S
      <4>1. cursor'[s] = source[s] /\ k = KeyOf(s)
        BY <3>1, <3>2 DEF Seen, KeyOf
      <4>2. occ'[k] = Created(k, "pending")
        BY <2>1, <3>1, <3>2, <4>1 DEF Observed
      <4>3. occ[k] \in Occurrence
        BY <2>1 DEF TypeInv, TypeOK
      <4> QED BY <4>2, <4>3 DEF Created, Kept, Occurrence
    <3>3. CASE s \notin S
      <4>1. cursor'[s] = cursor[s]
        BY <3>1, <3>3 DEF Seen
      <4> QED BY <2>1, <4>1, RowStep DEF ObservedIsKept
    <3> QED BY <3>2, <3>3
  <2> QED BY <2>2, <2>3
         DEF Next, TickStep, Change, Fall, Overrun, Lapse, Take, TickDone, RunNow, RequestDone,
             Crash, Restart, SwitchOff, SwitchOn, vars
<1> QED BY <1>1, <1>2, OccurrencesTyped, PTL DEF Spec

\* Unless the process ends within a claim, every claim has the lease that the
\* next sweep takes it back by.
THEOREM ClaimsReclaimable ==
    ASSUME "gap" \notin Faults
    PROVE  Spec => []ClaimIsReclaimable
<1>1. Init => ClaimIsReclaimable
  BY DEF Init, ClaimIsReclaimable
<1>2. TypeInv /\ ClaimIsReclaimable /\ [Next]_vars => ClaimIsReclaimable'
  <2> SUFFICES ASSUME TypeInv, ClaimIsReclaimable, [Next]_vars,
                      NEW k \in Keys, occ'[k].st = "claimed"
               PROVE  lease'[k] # "none"
    BY DEF ClaimIsReclaimable
  <2> USE DEF TypeInv, TypeOK
  <2>1. CASE UNCHANGED <<occ, lease>>
    BY <2>1 DEF ClaimIsReclaimable
  <2>2. ASSUME NEW j \in Keys, Fall(j) \/ Overrun(j) \/ Lapse(j) PROVE lease'[k] # "none"
    <3>1. CASE Fall(j) \/ Overrun(j)
      <4>1. occ'[k].st = occ[k].st
        BY <3>1, DueRows
      <4>2. lease' = lease
        BY <3>1 DEF Fall, Overrun
      <4> QED BY <4>1, <4>2 DEF ClaimIsReclaimable
    <3>2. CASE Lapse(j)
      BY <3>2 DEF Lapse, ClaimIsReclaimable, Leases
    <3> QED BY <2>2, <3>1, <3>2
  <2>3. CASE Sweep \/ SweepCut
    <3>1. PICK T \in SUBSET Changed : occ' = Observed(T) /\ lease' = Swept
      BY <2>3 DEF Sweep, SweepCut
    <3>2. occ[k].st = "claimed" /\ k \notin Lapsed
      BY <3>1, SweptRow
    <3> QED BY <3>1, <3>2 DEF Swept, ClaimIsReclaimable
  <2>4. ASSUME NEW j \in Keys, Take(j) PROVE lease'[k] # "none"
    BY <2>4 DEF Take, Claimed, Leased, ClaimIsReclaimable, Occurrence, Leases
  <2>5. ASSUME NEW r \in RunNows, RunNow(r) PROVE lease'[k] # "none"
    BY <2>5, KeysAreKeys DEF RunNow, Leased, ClaimIsReclaimable, Occurrence, Leases
  <2>6. ASSUME NEW d \in Dispatch, Finish(d) PROVE lease'[k] # "none"
    BY <2>6 DEF Finish, Finalized, Requeued, Released, ClaimIsReclaimable, Occurrence, Ends
  <2>7. CASE Crash
    <3>1. UNCHANGED <<occ, lease>>
      BY <2>7 DEF Crash, Fault
    <3> QED BY <3>1 DEF ClaimIsReclaimable
  <2>8. TickDone => UNCHANGED <<occ, lease>> \/ \E d \in Dispatch : Finish(d)
    BY DEF TickDone, Throw
  <2>9. \A r \in RunNows : RequestDone(r) => UNCHANGED <<occ, lease>> \/ \E d \in Dispatch : Finish(d)
    BY DEF RequestDone, Throw
  <2>10. \/ UNCHANGED <<occ, lease>>
         \/ \E j \in Keys : Fall(j) \/ Overrun(j) \/ Lapse(j) \/ Take(j)
         \/ Sweep \/ SweepCut \/ Crash \/ TickDone
         \/ \E r \in RunNows : RunNow(r) \/ RequestDone(r)
    BY DEF Next, TickStep, Change, Restart, SwitchOff, SwitchOn, vars
  <2> QED BY <2>1, <2>2, <2>3, <2>4, <2>5, <2>6, <2>7, <2>8, <2>9, <2>10
<1> QED BY <1>1, <1>2, OccurrencesTyped, PTL DEF Spec
=============================================================================

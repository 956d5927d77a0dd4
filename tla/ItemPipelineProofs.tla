------------------------- MODULE ItemPipelineProofs -------------------------
(***************************************************************************)
(* What the board of ItemPipeline.tla keeps, for any number of items,      *)
(* workers, pages, generations, operator moves and crashes.                *)
(***************************************************************************)
EXTENDS ItemPipeline, FiniteSetTheorems, TLAPS

InProgress(row) == row.st = "in_progress"

\* A claimed row names its claimer.
Owned == \A i \in Items : InProgress(item[i]) => item[i].owner \in Workers

\* A worker built for one poll is there to make it.
DueAlive == \A w \in Workers : poll[w] = "due" => Alive(w)

Inv ==
    /\ TypeOK /\ Owned /\ DueAlive
    /\ ~SameMillisecond => ClaimHasTask

\* What a write may make of a row: it takes the claim away or leaves it be.
Follows(row) ==
    {r \in Row : InProgress(r) => InProgress(row) /\ r.owner = row.owner}

\* A row an identity conflict keeps in Sourcing.
Parked(row) == row.conflict /\ row.stage = "sourcing"

-----------------------------------------------------------------------------
(* The writes of ItemStore.                                                *)

LEMMA Values ==
    /\ None \in Workers \cup {None} /\ FALSE \in BOOLEAN /\ TRUE \in BOOLEAN
    /\ 0 \in 0..2 /\ 1 \in 0..2 /\ 2 \in 0..2
    /\ Absent \in Pages \cup {Absent} /\ Absent \in Sources /\ Record \in Sources
    /\ Pages \subseteq Sources /\ Pages \subseteq Pages \cup {Absent}
    /\ Blocked \cup {"pending", "completed", "skipped"} \subseteq Statuses
    /\ \A st \in Blocked \cup {"pending", "completed", "skipped"} : st # "in_progress"
BY DEF Sources, Statuses, Blocked

LEMMA Marks ==
    ASSUME NEW row \in Row, NEW st \in Statuses
    PROVE  /\ Marked(row, st) \in Row
           /\ Marked(row, st).st = st
           /\ Marked(row, st).stage = row.stage
           /\ Marked(row, st).conflict = row.conflict
           /\ Marked(row, st).gen = row.gen
BY DEF Marked, Row

LEMMA Moves ==
    ASSUME NEW row \in Row, NEW stage \in Stages, NEW st \in Statuses
    PROVE  /\ Moved(row, stage, st) \in Row
           /\ Moved(row, stage, st).st = st
           /\ Moved(row, stage, st).stage = stage
<1>1. Moved(row, stage, st) \in Row
  BY Values, ZenonT(30) DEF Moved, Row
<1> QED BY <1>1 DEF Moved, Row

LEMMA Claims ==
    ASSUME NEW row \in Row, NEW w \in Workers
    PROVE  /\ Claimed(row, w) \in Row /\ Claimed(row, w).owner = w
           /\ Claimed(row, w).stage = row.stage /\ Claimed(row, w).conflict = row.conflict
           /\ Unclaimed(row) \in Row /\ ~InProgress(Unclaimed(row))
           /\ Unclaimed(row).stage = row.stage /\ Unclaimed(row).conflict = row.conflict
BY DEF Claimed, Unclaimed, Row, InProgress, Statuses

LEMMA Retryings ==
    ASSUME NEW row \in Row
    PROVE  /\ Retried(row) \in Row /\ ~InProgress(Retried(row))
           /\ Retried(row).stage = row.stage
<1>1. ASSUME NEW r \in Row, NEW n \in 0..2
      PROVE  /\ [r EXCEPT !.retry = n] \in Row
             /\ [r EXCEPT !.retry = n].st = r.st
             /\ [r EXCEPT !.retry = n].stage = r.stage
  <2>1. [r EXCEPT !.retry = n] \in Row
    BY Zenon DEF Row
  <2> QED BY <2>1 DEF Row
<1>2. ASSUME NEW st \in {"pending", "failed"}
      PROVE  Marked(row, st) \in Row /\ Marked(row, st).st = st
             /\ Marked(row, st).stage = row.stage
  BY Marks DEF Statuses
<1>3. /\ [Marked(row, "pending") EXCEPT !.retry = 1] \in Row
      /\ [Marked(row, "pending") EXCEPT !.retry = 1].st = "pending"
      /\ [Marked(row, "pending") EXCEPT !.retry = 1].stage = row.stage
  BY <1>1, <1>2, Values, Zenon
<1>4. /\ [Marked(row, "failed") EXCEPT !.retry = 2] \in Row
      /\ [Marked(row, "failed") EXCEPT !.retry = 2].st = "failed"
      /\ [Marked(row, "failed") EXCEPT !.retry = 2].stage = row.stage
  BY <1>1, <1>2, Values, Zenon
<1> QED BY <1>3, <1>4 DEF Retried, InProgress

\* A decision routes a row of Sourcing without conflict, and fails another.
LEMMA Completions ==
    ASSUME NEW row \in Row, NEW stage \in {"discovery", "extraction"}
    PROVE  /\ Completed(row, stage) \in Row /\ ~InProgress(Completed(row, stage))
           /\ Routed(row, stage) \in Row /\ ~InProgress(Routed(row, stage))
           /\ Parked(row) => Parked(Completed(row, stage))
<1>1. Routed(row, stage) \in Row /\ ~InProgress(Routed(row, stage))
  BY DEF Routed, Row, InProgress, Stages, Statuses
<1> QED BY <1>1, Marks DEF Completed, Parked, InProgress, Statuses

LEMMA Resets ==
    ASSUME NEW row \in Row
    PROVE  /\ ResetRow(row) \in Row /\ ~InProgress(ResetRow(row))
           /\ ResetRow(row).stage = row.stage
           /\ row.gen < MaxGens => Superseded(row) \in Row
           /\ Superseded(row).stage = row.stage
<1>1. row.gen < MaxGens => row.gen + 1 \in 0..MaxGens
  BY StoreAssumption DEF Row
<1>2. ResetRow(row) \in Row
  <2> DEFINE kept == IF row.stage = "review" THEN row.curated ELSE Absent
  <2>1. kept \in Sources /\ Marked(row, "pending") \in Row
    BY Marks, Values DEF Row
  <2>2. ASSUME NEW r \in Row PROVE [r EXCEPT !.retry = 0, !.curated = kept] \in Row
    <3> HIDE DEF kept
    <3> QED BY <2>1, Values, Zenon DEF Row
  <2>3. ResetRow(row) = [Marked(row, "pending") EXCEPT !.retry = 0, !.curated = kept]
    BY DEF ResetRow, Marked, Row
  <2> QED BY <2>1, <2>2, <2>3
<1>3. ResetRow(row).st = "pending" /\ ResetRow(row).stage = row.stage
  BY DEF ResetRow, Marked, Row
<1>4. row.gen < MaxGens => Superseded(row) \in Row
  BY <1>1, Values, Zenon DEF Superseded, Row
<1>5. Superseded(row).stage = row.stage
  BY DEF Superseded, Row
<1> QED BY <1>2, <1>3, <1>4, <1>5 DEF InProgress

LEMMA SendingsBack ==
    ASSUME NEW row \in Row, row.stage # "sourcing"
    PROVE  SentBack(row) \in Row /\ ~InProgress(SentBack(row))
<1>1. Previous[row.stage] \in Stages
  BY DEF Previous, Row, Stages
<1> DEFINE m == Moved(row, Previous[row.stage], "completed")
           d == IF row.stage = "extraction" THEN Absent ELSE row.data
           c == IF row.stage = "curation" THEN Absent ELSE row.curated
<1>2. m \in Row /\ m.st = "completed"
  BY <1>1, Moves, Values
<1>3. d \in Sources /\ c \in Sources
  BY Values DEF Row
<1>4. SentBack(row) = [m EXCEPT !.data = d, !.curated = c]
  BY DEF SentBack, Moved, Row
<1> HIDE DEF m, d, c
<1>5. [m EXCEPT !.data = d, !.curated = c] \in Row
  BY <1>2, <1>3, Zenon DEF Row
<1>6. [m EXCEPT !.data = d, !.curated = c].st = "completed"
  BY <1>2 DEF Row
<1> QED BY <1>4, <1>5, <1>6 DEF InProgress

LEMMA Sweepings ==
    ASSUME NEW row \in Row
    PROVE  LET new == Released(Swept(row), FALSE)
           IN  /\ new \in Row
               /\ InProgress(new) => new = row
               /\ Parked(row) => new = row
<1>1. /\ Swept(row) \in Row
      /\ InProgress(Swept(row)) => Swept(row) = row
      /\ Parked(row) => Swept(row) = row
  <2>1. \A stage \in Stages : Moved(row, stage, "pending") \in Row
                              /\ ~InProgress(Moved(row, stage, "pending"))
    BY Moves DEF Statuses, InProgress
  <2> QED BY <2>1 DEF Swept, Parked, Stages, InProgress
<1>2. ASSUME NEW r \in Row
      PROVE  /\ Released(r, FALSE) \in Row
             /\ InProgress(Released(r, FALSE)) => Released(r, FALSE) = r
             /\ Parked(r) => Released(r, FALSE) = r
  <2>1. Moved(r, "extraction", "pending") \in Row
        /\ ~InProgress(Moved(r, "extraction", "pending"))
    BY Moves DEF Statuses, Stages, InProgress
  <2> QED BY <2>1 DEF Released, Releasable, Parked
<1> QED BY <1>1, <1>2

-----------------------------------------------------------------------------
(* The poll.                                                               *)

DoneTask == [stage : AutoStages, phase : {"done"}, gen : 0..MaxGens, from : Sources]

Live(t) == t # None /\ t.phase \notin {"done", "refresh"}

\* A board in the making: the running map grows, and a row the worker claims
\* on the way is in it with its outcome to come.
Boarded(b, w) ==
    /\ b.item \in [Items -> Row]
    /\ b.task \in [Items -> Task \cup DoneTask \cup {None}]
    /\ \A i \in Items : task[w][i] # None => b.task[i] = task[w][i]
    /\ \A i \in Items : InProgress(b.item[i]) =>
          b.item[i].owner = w \/ (InProgress(item[i]) /\ b.item[i].owner = item[i].owner)
    /\ ~SameMillisecond => \A i \in Items :
          InProgress(b.item[i]) /\ b.item[i].owner = w => Live(b.task[i])
    /\ \A i \in Items : Parked(item[i]) => Parked(b.item[i])

LEMMA Tasks ==
    ASSUME NEW s \in AutoStages, NEW row \in Row, NEW from \in Sources
    PROVE  /\ \A phase \in Awaits[s] :
                 /\ Goes(s, phase, row, from).task \in Task
                 /\ Goes(s, phase, row, from).task.phase = phase
           /\ Goes(s, "done", row, from).task \in DoneTask
           /\ \A phase : Goes(s, phase, row, from).row = row
<1>1. row.gen \in 0..MaxGens
  BY DEF Row
<1>2. Awaits[s] \subseteq Phases
  BY DEF Phases
<1> QED BY <1>1, <1>2 DEF Goes, Task, DoneTask

LEMMA Begins ==
    ASSUME NEW row \in Row, NEW s \in AutoStages, NEW good \in BOOLEAN
    PROVE  LET begun == Begun(row, s, good)
           IN  /\ begun.row \in Row
               /\ begun.task \in Task \cup DoneTask
               /\ InProgress(begun.row) =>
                     InProgress(row) /\ begun.row.owner = row.owner /\ Live(begun.task)
               /\ Parked(row) => Parked(begun.row)
<1> DEFINE Right(g) == /\ g.row \in Row
                       /\ g.task \in Task \cup DoneTask
                       /\ InProgress(g.row) =>
                             InProgress(row) /\ g.row.owner = row.owner /\ Live(g.task)
                       /\ Parked(row) => Parked(g.row)
<1>0. /\ row.data \in Sources /\ row.page \in Sources
      /\ Absent \in Sources /\ Record \in Sources
  BY Values DEF Row, Sources
<1>1. CASE s = "discovery"
  <2>1. "search" \in Awaits[s]
    BY <1>1 DEF Awaits
  <2> QED BY <1>0, <1>1, <2>1, Tasks, TaskAssumption DEF Begun, Live
<1>2. CASE s = "curation"
  <2>1. "pipeline" \in Awaits[s]
    BY <1>2 DEF Awaits
  <2> QED BY <1>0, <1>2, <2>1, Tasks, TaskAssumption DEF Begun, Live
<1>3. CASE s = "sourcing"
  <2> DEFINE r == [row EXCEPT !.gen = IF @ = 0 THEN 1 ELSE @]
  <2>0. (IF row.gen = 0 THEN 1 ELSE row.gen) \in 0..MaxGens
    BY StoreAssumption DEF Row
  <2>1. r \in Row
    BY <2>0, Zenon DEF Row
  <2>2. r.owner = row.owner /\ (Parked(row) => Parked(r)) /\ (InProgress(r) => InProgress(row))
    BY DEF Row, Parked, InProgress
  <2>3. "engine" \in Awaits[s] /\ "reconcile" \in Awaits[s]
    BY <1>3 DEF Awaits
  <2>4. Begun(row, s, good) \in {Goes(s, "engine", r, Absent), Goes(s, "reconcile", r, Absent),
                                Goes(s, "done", Completed(r, "discovery"), Absent)}
    BY <1>3 DEF Begun, Sourced
  <2> HIDE DEF r
  <2>5. /\ Completed(r, "discovery") \in Row
        /\ ~InProgress(Completed(r, "discovery"))
        /\ Parked(r) => Parked(Completed(r, "discovery"))
    BY <2>1, Completions
  <2>6. Right(Goes(s, "engine", r, Absent)) /\ Right(Goes(s, "reconcile", r, Absent))
    BY <1>0, <2>1, <2>2, <2>3, Tasks, TaskAssumption DEF Live
  <2>7. Right(Goes(s, "done", Completed(r, "discovery"), Absent))
    BY <1>0, <2>2, <2>5, Tasks
  <2> QED BY <2>4, <2>6, <2>7
<1>4. CASE s = "extraction"
  <2> DEFINE failed == Marked(row, "failed")
             blocked == MarkedNoProfile(row)
             filled == [Marked(row, "completed") EXCEPT !.data = Record]
  <2>1. failed \in Row /\ ~InProgress(failed) /\ (Parked(row) => Parked(failed))
    BY Marks DEF InProgress, Statuses, Parked
  <2>2. blocked \in Row /\ ~InProgress(blocked) /\ (Parked(row) => Parked(blocked))
    <3>1. [failed EXCEPT !.noProfile = TRUE] \in Row
      BY <2>1, Values, Zenon DEF Row
    <3> HIDE DEF failed
    <3>2. [failed EXCEPT !.noProfile = TRUE].st = failed.st
          /\ [failed EXCEPT !.noProfile = TRUE].stage = failed.stage
          /\ [failed EXCEPT !.noProfile = TRUE].conflict = failed.conflict
      BY <2>1 DEF Row
    <3> USE DEF failed
    <3> QED BY <2>1, <3>1, <3>2 DEF MarkedNoProfile, InProgress, Parked
  <2>3. filled \in Row /\ ~InProgress(filled) /\ (Parked(row) => Parked(filled))
    <3> DEFINE m == Marked(row, "completed")
    <3>1. m \in Row /\ m.st = "completed" /\ (Parked(row) => Parked(m))
      BY Marks DEF Statuses, Parked
    <3>2. [m EXCEPT !.data = Record] \in Row
      BY <3>1, Values, Zenon DEF Row
    <3> HIDE DEF m
    <3>3. [m EXCEPT !.data = Record].st = m.st
          /\ [m EXCEPT !.data = Record].stage = m.stage
          /\ [m EXCEPT !.data = Record].conflict = m.conflict
      BY <3>1 DEF Row
    <3> USE DEF m
    <3> QED BY <3>1, <3>2, <3>3 DEF InProgress, Parked
  <2>4. "fetch" \in Awaits[s] /\ "refresh" \in Awaits[s]
    BY <1>4 DEF Awaits
  <2>5. Begun(row, s, good) \in {Goes(s, "refresh", filled, Record), Goes(s, "done", failed, Absent),
                                Goes(s, "done", blocked, Absent), Goes(s, "fetch", row, row.page)}
    BY <1>4 DEF Begun, Materialized, Scraped
  <2> HIDE DEF failed, blocked, filled
  <2>6. Right(Goes(s, "refresh", filled, Record))
    BY <1>0, <2>3, <2>4, Tasks
  <2>7. Right(Goes(s, "done", failed, Absent)) /\ Right(Goes(s, "done", blocked, Absent))
    BY <1>0, <2>1, <2>2, Tasks
  <2>8. Right(Goes(s, "fetch", row, row.page))
    BY <1>0, <2>4, Tasks, TaskAssumption DEF Live
  <2> QED BY <2>5, <2>6, <2>7, <2>8
<1> QED BY <1>1, <1>2, <1>3, <1>4 DEF AutoStages

\* The limit leaves a claim it has already bounded as it is.
LEMMA FirstOfFirst ==
    ASSUME NEW S \in SUBSET Items, NEW n \in Int
    PROVE  First(First(S, n), n) = First(S, n) /\ First(S, n) \subseteq S
<1> DEFINE T == First(S, n)
<1>1. T \subseteq S
  BY DEF First
<1>2. ASSUME NEW i \in T PROVE Cardinality({j \in T : j < i}) < n
  <2> DEFINE A == {j \in T : j < i}
             B == {j \in S : j < i}
  <2>1. IsFiniteSet(B)
    BY StoreAssumption, FS_Subset
  <2>2. A \subseteq B
    BY <1>1
  <2>3. Cardinality(A) <= Cardinality(B)
    BY <2>1, <2>2, FS_Subset
  <2>4. Cardinality(B) < n
    BY <1>2 DEF First
  <2>5. Cardinality(A) \in Nat /\ Cardinality(B) \in Nat
    BY <2>1, <2>2, FS_Subset, FS_CardinalityType
  <2> QED BY <2>3, <2>4, <2>5
<1>3. First(T, n) = {i \in T : Cardinality({j \in T : j < i}) < n}
  BY DEF First
<1> HIDE DEF T
<1>4. First(T, n) = T
  BY <1>2, <1>3
<1> USE DEF T
<1> QED BY <1>1, <1>4

\* Every claim of a stage comes back in the read, and nothing else, unless two
\* stages claim in one millisecond.
LEMMA ReadsBack ==
    ASSUME NEW b, NEW w, NEW S \in SUBSET Items, NEW n \in Int
    PROVE  ~SameMillisecond => ReadBack(b, w, First(S, n), n) = First(S, n)
<1>1. First(S, n) \subseteq S /\ First(First(S, n), n) = First(S, n)
  BY FirstOfFirst
<1>2. ASSUME ~SameMillisecond
      PROVE  ReadBack(b, w, First(S, n), n) = First(First(S, n), n)
  BY <1>2 DEF ReadBack
<1> QED BY <1>1, <1>2

LEMMA Sweeps ==
    ASSUME Inv, NEW w \in Workers, Alive(w)
    PROVE  Boarded(Swept1(w), w)
<1> DEFINE b == Swept1(w)
<1>1. item \in [Items -> Row] /\ task[w] \in [Items -> Task \cup {None}]
  BY DEF Inv, TypeOK, StoreTypeOK, WorkerTypeOK
<1>2. b.task = task[w] /\ b.item = [i \in Items |-> Released(Swept(item[i]), FALSE)]
  BY DEF Swept1, Sweep, Board
<1>3. ASSUME NEW i \in Items
      PROVE  /\ b.item[i] \in Row
             /\ InProgress(b.item[i]) => b.item[i] = item[i]
             /\ Parked(item[i]) => b.item[i] = item[i]
  BY <1>1, <1>2, Sweepings
<1>4. ASSUME ~SameMillisecond, NEW i \in Items, InProgress(item[i]), item[i].owner = w
      PROVE  Live(task[w][i])
  <2>1. Pending(w, i)
    BY <1>4 DEF Inv, ClaimHasTask, InProgress
  <2>2. task[w][i] \in Task
    BY <1>1, <2>1 DEF Pending
  <2>3. task[w][i].phase # "done"
    BY <2>2 DEF Task, Awaits, AutoStages
  <2> QED BY <2>1, <2>3 DEF Live, Pending
<1>5. b.item \in [Items -> Row] /\ b.task \in [Items -> Task \cup DoneTask \cup {None}]
  BY <1>1, <1>2, <1>3
<1>6. Boarded(b, w)
  <2> HIDE DEF b
  <2> QED BY <1>2, <1>3, <1>4, <1>5 DEF Boarded
<1> QED BY <1>6

LEMMA StageClaims ==
    ASSUME Inv, NEW w \in Workers, NEW b, Boarded(b, w), NEW s \in AutoStages,
           NEW good \in [Items -> BOOLEAN]
    PROVE  Boarded(ClaimStage(b, w, s, good), w)
<1> DEFINE n == MaxConcurrency - Cardinality(InMap(b.task))
           claimed == First(Claimable(b.item, s), n)
           back == ReadBack(b, w, claimed, n)
           rows == [i \in Items |-> IF i \in claimed THEN Claimed(b.item[i], w) ELSE b.item[i]]
           begun(i) == Begun(rows[i], s, good[i])
           dispatched == back \ InMap(b.task)
           c == ClaimStage(b, w, s, good)
<1>1. /\ c.item = [i \in Items |-> IF i \in dispatched THEN begun(i).row
                                   ELSE IF i \in back THEN Restored(rows[i]) ELSE rows[i]]
      /\ c.task = [i \in Items |-> IF i \in dispatched THEN begun(i).task ELSE b.task[i]]
  BY DEF ClaimStage
<1>2. IsFiniteSet(InMap(b.task))
  BY StoreAssumption, FS_Subset DEF InMap
<1>3. n \in Int
  BY <1>2, FS_CardinalityType, WorkerAssumption
<1>4. Claimable(b.item, s) \subseteq Items
  BY DEF Claimable
<1>5. ~SameMillisecond => back = claimed
  BY <1>3, <1>4, ReadsBack
<1> HIDE DEF n, claimed, back, c
<1>6. ASSUME NEW i \in Items
      PROVE  /\ rows[i] \in Row
             /\ InProgress(rows[i]) =>
                   \/ rows[i].owner = w
                   \/ InProgress(item[i]) /\ rows[i].owner = item[i].owner
             /\ Parked(item[i]) => Parked(rows[i])
             /\ i \notin claimed => rows[i] = b.item[i]
  <2>1. b.item[i] \in Row
    BY DEF Boarded
  <2>2. Claimed(b.item[i], w) \in Row /\ Claimed(b.item[i], w).owner = w
        /\ (Parked(b.item[i]) => Parked(Claimed(b.item[i], w)))
    BY <2>1, Claims DEF Parked
  <2> QED BY <2>1, <2>2 DEF Boarded
<1> HIDE DEF rows
<1>7. ASSUME NEW i \in Items
      PROVE  /\ begun(i).row \in Row
             /\ begun(i).task \in Task \cup DoneTask
             /\ InProgress(begun(i).row) =>
                   /\ InProgress(rows[i]) /\ begun(i).row.owner = rows[i].owner
                   /\ Live(begun(i).task)
             /\ Parked(rows[i]) => Parked(begun(i).row)
  BY <1>6, Begins
<1>8. ASSUME NEW i \in Items
      PROVE  /\ Restored(rows[i]) \in Row /\ ~InProgress(Restored(rows[i]))
             /\ Parked(rows[i]) => Parked(Restored(rows[i]))
  BY <1>6, Claims DEF Restored, Parked
<1> HIDE DEF begun
<1>9. ASSUME NEW i \in Items
      PROVE  /\ c.item[i] \in Row
             /\ InProgress(c.item[i]) =>
                   \/ c.item[i].owner = w
                   \/ InProgress(item[i]) /\ c.item[i].owner = item[i].owner
             /\ Parked(item[i]) => Parked(c.item[i])
  <2>1. CASE i \in dispatched
    <3>1. c.item[i] = begun(i).row
      BY <1>1, <2>1
    <3> QED BY <1>6, <1>7, <3>1
  <2>2. CASE i \notin dispatched
    <3>1. c.item[i] \in {Restored(rows[i]), rows[i]}
      BY <1>1, <2>2
    <3> QED BY <1>6, <1>8, <3>1
  <2> QED BY <2>1, <2>2
<1>10. ASSUME NEW i \in Items
       PROVE  /\ c.task[i] \in Task \cup DoneTask \cup {None}
              /\ task[w][i] # None => c.task[i] = task[w][i]
  <2>1. i \in dispatched => b.task[i] = None
    BY DEF InMap
  <2> HIDE DEF dispatched
  <2> QED BY <1>1, <1>7, <2>1 DEF Boarded
<1>11. ASSUME ~SameMillisecond, NEW i \in Items, InProgress(c.item[i]), c.item[i].owner = w
       PROVE  Live(c.task[i])
  <2>1. CASE i \in dispatched
    BY <1>1, <1>7, <1>11, <2>1
  <2>2. CASE i \notin dispatched
    <3>1. i \notin back
      BY <1>1, <1>8, <1>11, <2>2
    <3>2. c.item[i] = b.item[i] /\ c.task[i] = b.task[i]
      BY <1>1, <1>5, <1>6, <1>11, <2>2, <3>1
    <3> QED BY <1>11, <3>2 DEF Boarded
  <2> QED BY <2>1, <2>2
<1>12. c.item \in [Items -> Row] /\ c.task \in [Items -> Task \cup DoneTask \cup {None}]
  <2> HIDE DEF dispatched
  <2> QED BY <1>1, <1>9, <1>10
<1> USE DEF c
<1>13. Boarded(c, w)
  <2> HIDE DEF c, dispatched
  <2> QED BY <1>9, <1>10, <1>11, <1>12 DEF Boarded
<1> QED BY <1>13

LEMMA PollBoards ==
    ASSUME Inv, NEW w \in Workers, Alive(w), NEW good \in [Items -> BOOLEAN]
    PROVE  /\ Boarded(Swept1(w), w)
           /\ Boarded(Polled1(w, good), w) /\ Boarded(Polled2(w, good), w)
           /\ Boarded(Polled3(w, good), w) /\ Boarded(Polled4(w, good), w)
<1> USE DEF AutoStages
<1>1. Boarded(Swept1(w), w)
  BY Sweeps
<1>2. Boarded(Polled1(w, good), w)
  BY <1>1, StageClaims DEF Polled1
<1>3. Boarded(Polled2(w, good), w)
  BY <1>2, StageClaims DEF Polled2
<1>4. Boarded(Polled3(w, good), w)
  BY <1>3, StageClaims DEF Polled3
<1>5. Boarded(Polled4(w, good), w)
  BY <1>4, StageClaims DEF Polled4
<1> QED BY <1>1, <1>2, <1>3, <1>4, <1>5

-----------------------------------------------------------------------------
(* The steps.                                                              *)

ConflictStep ==
    \A i \in Items :
        /\ item[i].conflict /\ item[i].stage = "sourcing"
        /\ item'[i].st # "completed"
        => \/ item'[i].stage = "sourcing"
           \/ item[i].st = "pending" /\ item'[i].stage = "discovery" /\ moves' # moves

StaleStep ==
    \A w \in Workers, i \in Items :
        /\ task[w][i] # None /\ task[w][i].stage = "sourcing" /\ ~Current(w, i)
        /\ task'[w][i] = None /\ mode' = mode
        => item'[i].stage = item[i].stage

Good == Inv' /\ ConflictStep /\ StaleStep

\* What a write of one row owes: the claim is dropped or kept, the conflict held.
Allowed(row, new) ==
    /\ new \in Follows(row)
    /\ Parked(row) /\ new.st # "completed" => new.stage = "sourcing"

LEMMA RowFollows ==
    ASSUME Inv, item' \in [Items -> Row], \A i \in Items : item'[i] \in Follows(item[i]),
           running' \in BOOLEAN, profile' \subseteq {"row", "version"},
           mode' = mode, poll' = poll, task' = task,
           moves' \in 0..MaxMoves, faults' \in 0..MaxFaults
    PROVE  Inv' /\ StaleStep
<1>1. TypeOK'
  BY DEF Inv, TypeOK, StoreTypeOK, WorkerTypeOK
<1>2. \A i \in Items : InProgress(item'[i]) => InProgress(item[i]) /\ item'[i].owner = item[i].owner
  BY DEF Follows
<1>3. Owned' /\ DueAlive'
  BY <1>2 DEF Inv, Owned, DueAlive, InProgress, Alive
<1>4. (~SameMillisecond => ClaimHasTask)'
  BY <1>2 DEF Inv, ClaimHasTask, InProgress, Alive, Pending
<1>5. StaleStep
  BY DEF StaleStep
<1> QED BY <1>1, <1>3, <1>4, <1>5 DEF Inv

LEMMA RowSteps ==
    ASSUME Inv, item' \in [Items -> Row], \A i \in Items : Allowed(item[i], item'[i]),
           running' \in BOOLEAN, profile' \subseteq {"row", "version"},
           mode' = mode, poll' = poll, task' = task,
           moves' \in 0..MaxMoves, faults' \in 0..MaxFaults
    PROVE  Good
<1>1. Inv' /\ StaleStep
  BY RowFollows DEF Allowed
<1>2. ConflictStep
  BY DEF Allowed, Parked, ConflictStep
<1> QED BY <1>1, <1>2 DEF Good

\* A route that writes one row.
LEMMA RouteSteps ==
    ASSUME Inv, NEW i \in Items, NEW name, Route(name), NEW row, Writes(i, row),
           Allowed(item[i], row)
    PROVE  Good
<1>1. item \in [Items -> Row] /\ row \in Row
  BY DEF Inv, TypeOK, StoreTypeOK, Allowed, Follows
<1>2. moves' \in 0..MaxMoves
  BY PipelineAssumption DEF Route, Inv, TypeOK
<1>3. /\ running' = running /\ profile' = profile /\ faults' = faults
      /\ mode' = mode /\ poll' = poll /\ task' = task
  BY DEF Writes, worker
<1>4. item' = [item EXCEPT ![i] = row]
  BY DEF Writes
<1>5. ASSUME NEW j \in Items PROVE Allowed(item[j], item'[j])
  BY <1>1, <1>4 DEF Allowed, Follows, Parked
<1>6. item' \in [Items -> Row]
  BY <1>1, <1>4
<1>7. running \in BOOLEAN /\ profile \subseteq {"row", "version"} /\ faults \in 0..MaxFaults
  BY DEF Inv, TypeOK, StoreTypeOK
<1> QED BY <1>2, <1>3, <1>5, <1>6, <1>7, RowSteps

\* The segment of a task that ends with the write of its row.
LEMMA TaskSteps ==
    ASSUME Inv, NEW w \in Workers, NEW i \in Items, task[w][i] # None,
           NEW row, NEW t \in Task \cup {None}, Puts(w, i, row, t), Quiet,
           Allowed(item[i], row),
           ~SameMillisecond /\ InProgress(row) /\ row.owner = w /\ Alive(w)
               => t # None /\ t.phase # "refresh",
           task[w][i].stage = "sourcing" /\ ~Current(w, i) /\ t = None
               => row.stage = item[i].stage
    PROVE  Good
<1>1. /\ item \in [Items -> Row] /\ row \in Row
      /\ task \in [Workers -> [Items -> Task \cup {None}]]
  BY DEF Inv, TypeOK, StoreTypeOK, WorkerTypeOK, Allowed, Follows
<1>2. /\ item' = [item EXCEPT ![i] = row] /\ task' = [task EXCEPT ![w][i] = t]
      /\ running' = running /\ profile' = profile /\ mode' = mode /\ poll' = poll
      /\ moves' = moves /\ faults' = faults
  BY DEF Puts, Quiet
<1>3. item' \in [Items -> Row] /\ task' \in [Workers -> [Items -> Task \cup {None}]]
  BY <1>1, <1>2
<1>4. TypeOK'
  BY <1>2, <1>3 DEF Inv, TypeOK, StoreTypeOK, WorkerTypeOK
<1>5. /\ item'[i] = row /\ task'[w][i] = t
      /\ \A j \in Items : j # i => item'[j] = item[j]
      /\ \A v \in Workers, j \in Items : <<v, j>> # <<w, i>> => task'[v][j] = task[v][j]
  BY <1>1, <1>2
<1>6. \A j \in Items : InProgress(item'[j]) => InProgress(item[j]) /\ item'[j].owner = item[j].owner
  BY <1>5 DEF Allowed, Follows
<1>7. Owned' /\ DueAlive'
  BY <1>2, <1>6 DEF Inv, Owned, DueAlive, Alive, InProgress
<1>8. ASSUME ~SameMillisecond PROVE ClaimHasTask'
  <2> SUFFICES ASSUME NEW j \in Items,
                      item'[j].st = "in_progress", mode'[item'[j].owner] # "off"
               PROVE  /\ task'[item'[j].owner][j] # None
                      /\ task'[item'[j].owner][j].phase # "refresh"
    BY DEF ClaimHasTask, Alive, Pending
  <2>1. InProgress(item[j]) /\ item'[j].owner = item[j].owner /\ item[j].owner \in Workers
    BY <1>6 DEF Inv, Owned, InProgress
  <2>2. /\ task[item[j].owner][j] # None
        /\ task[item[j].owner][j].phase # "refresh"
    BY <1>2, <1>8, <2>1 DEF Inv, ClaimHasTask, InProgress, Alive, Pending
  <2>3. CASE item[j].owner = w /\ j = i
    BY <1>2, <1>5, <1>8, <2>1, <2>3 DEF InProgress, Alive
  <2>4. CASE ~(item[j].owner = w /\ j = i)
    <3>1. task'[item[j].owner][j] = task[item[j].owner][j]
      BY <1>5, <2>1, <2>4
    <3> QED BY <2>1, <2>2, <3>1
  <2> QED BY <2>3, <2>4
<1>9. ConflictStep
  BY <1>5 DEF Allowed, Parked, ConflictStep
<1>10. StaleStep
  BY <1>5 DEF StaleStep
<1> QED BY <1>4, <1>7, <1>8, <1>9, <1>10 DEF Inv, Good

\* What a task ends with that is neither a claim nor another stage.
LEMMA EndSteps ==
    ASSUME Inv, NEW w \in Workers, NEW i \in Items, task[w][i] # None, Quiet,
           NEW row \in Row, ~InProgress(row), NEW t \in Task \cup {None}, Puts(w, i, row, t),
           row.stage = item[i].stage
    PROVE  Good
<1>1. Allowed(item[i], row)
  BY DEF Allowed, Follows, Parked
<1> QED BY <1>1, TaskSteps

LEMMA TaskTypes ==
    ASSUME Inv, NEW w \in Workers, NEW i \in Items, task[w][i] # None
    PROVE  /\ item[i] \in Row /\ task[w][i] \in Task
           /\ task[w][i].from \in Sources /\ task[w][i].phase \in Awaits[task[w][i].stage]
           /\ task[w][i].stage \in AutoStages
BY DEF Inv, TypeOK, StoreTypeOK, WorkerTypeOK, Task

LEMMA Rephased ==
    ASSUME NEW t \in Task, NEW phase \in Awaits[t.stage]
    PROVE  [t EXCEPT !.phase = phase] \in Task /\ [t EXCEPT !.phase = phase].phase = phase
<1>1. phase \in Phases
  BY DEF Phases, Task
<1>2. [t EXCEPT !.phase = phase] \in [stage : AutoStages, phase : Phases,
                                      gen : 0..MaxGens, from : Sources]
  BY <1>1 DEF Task
<1>3. /\ [t EXCEPT !.phase = phase].phase = phase
      /\ [t EXCEPT !.phase = phase].stage = t.stage
  BY DEF Task
<1> QED BY <1>2, <1>3 DEF Task

LEMMA Columns ==
    ASSUME NEW row \in Row
    PROVE  /\ \A page \in Pages \cup {Absent} : [row EXCEPT !.page = page] \in Row
           /\ \A from \in Sources : [row EXCEPT !.data = from] \in Row
           /\ \A from \in Sources : [row EXCEPT !.curated = from] \in Row
           /\ \A b \in BOOLEAN :
                 /\ [row EXCEPT !.looked = b] \in Row /\ [row EXCEPT !.conflict = b] \in Row
                 /\ [row EXCEPT !.held = b] \in Row /\ [row EXCEPT !.record = b] \in Row
BY ZenonT(40) DEF Row

LEMMA TaskStepsGood ==
    ASSUME Inv, NEW w \in Workers, NEW i \in Items, TaskStep(w, i), Quiet
    PROVE  Good
<1> DEFINE row == item[i]
           t == task[w][i]
<1>0. t # None
  BY DEF TaskStep, Abandons, EngineAnswers, FindsConflict, RoutesItem, Discovers, Extracts,
         VariantGate, Curates, Fails, Retries, Settles, At, Pending
<1>1. /\ row \in Row /\ t \in Task
      /\ t.from \in Sources /\ t.phase \in Awaits[t.stage] /\ t.stage \in AutoStages
  BY <1>0, TaskTypes
<1>2. ASSUME NEW st \in {"pending", "completed", "failed", "needs_input"}
      PROVE  /\ Marked(row, st) \in Row /\ ~InProgress(Marked(row, st))
             /\ Marked(row, st).stage = row.stage
  BY <1>1, Marks DEF InProgress, Statuses
<1>3. ASSUME NEW st \in {"pending", "completed", "failed", "needs_input"},
             Ends(w, i, Marked(row, st))
      PROVE  Good
  BY <1>0, <1>2, <1>3, EndSteps DEF Ends
<1>4. CASE Abandons(w, i)
  BY <1>3, <1>4 DEF Abandons
<1>5. CASE EngineAnswers(w, i)
  <2> DEFINE new == [row EXCEPT !.looked = TRUE]
             next == [t EXCEPT !.phase = "reconcile"]
  <2>1. t.stage = "sourcing"
    BY <1>1, <1>5 DEF EngineAnswers, At, Awaits, AutoStages
  <2>2. next \in Task /\ next.phase = "reconcile"
    <3>1. "reconcile" \in Awaits[t.stage]
      BY <2>1 DEF Awaits
    <3> QED BY <1>1, <3>1, Rephased
  <2>3. new \in Row
    BY <1>1, Columns
  <2>4. new.st = row.st /\ new.owner = row.owner /\ new.stage = row.stage
    BY <1>1 DEF Row
  <2>5. Puts(w, i, new, next)
    BY <1>5 DEF EngineAnswers
  <2> HIDE DEF new, next
  <2>6. Allowed(row, new)
    BY <2>3, <2>4 DEF Allowed, Follows, InProgress, Parked
  <2>7. next # None
    BY <2>2, TaskAssumption
  <2> QED BY <1>0, <2>2, <2>4, <2>5, <2>6, <2>7, TaskSteps
<1>6. CASE FindsConflict(w, i)
  <2> DEFINE m == Marked(row, "needs_input")
             parked == [m EXCEPT !.conflict = TRUE]
  <2>1. m \in Row /\ ~InProgress(m) /\ m.stage = row.stage
    BY <1>2
  <2>2. parked \in Row /\ ~InProgress(parked) /\ parked.stage = row.stage
    <3> HIDE DEF m
    <3>1. parked \in Row
      BY <2>1, Columns
    <3> QED BY <2>1, <3>1 DEF Row, InProgress
  <2>3. /\ Marked(parked, "failed") \in Row /\ ~InProgress(Marked(parked, "failed"))
        /\ Marked(parked, "failed").stage = row.stage
    <3> HIDE DEF parked
    <3> QED BY <2>2, Marks DEF InProgress, Statuses
  <2>4. Ends(w, i, IF row.stage = "sourcing" THEN parked ELSE Marked(parked, "failed"))
    BY <1>6 DEF FindsConflict
  <2> HIDE DEF parked
  <2>5. CASE row.stage = "sourcing"
    BY <1>0, <2>2, <2>4, <2>5, EndSteps DEF Ends
  <2>6. CASE row.stage # "sourcing"
    BY <1>0, <2>3, <2>4, <2>6, EndSteps DEF Ends
  <2> QED BY <2>5, <2>6
<1>7. CASE RoutesItem(w, i)
  <2>1. PICK stage \in {"discovery", "extraction"} : Ends(w, i, Completed(row, stage))
    BY <1>7 DEF RoutesItem
  <2>2. ~row.conflict /\ Current(w, i)
    BY <1>7 DEF RoutesItem, Routable
  <2>3. Completed(row, stage) \in Row /\ ~InProgress(Completed(row, stage))
    BY <1>1, Completions
  <2>4. Allowed(row, Completed(row, stage))
    BY <2>2, <2>3 DEF Allowed, Follows, Parked
  <2> QED BY <1>0, <2>1, <2>2, <2>3, <2>4, TaskSteps DEF Ends
<1>8. CASE Discovers(w, i)
  <2>1. ASSUME NEW page \in Pages, Ends(w, i, Confirmed(row, page)) PROVE Good
    <3>1. Confirmed(row, page) \in Row
      BY <1>1, Values, Zenon DEF Confirmed, Row
    <3>2. ~InProgress(Confirmed(row, page)) /\ Confirmed(row, page).stage = row.stage
      BY <1>1 DEF Confirmed, Row, InProgress
    <3> QED BY <1>0, <2>1, <3>1, <3>2, EndSteps DEF Ends
  <2> QED BY <1>3, <1>8, <2>1 DEF Discovers
<1>9. CASE Extracts(w, i)
  <2> DEFINE m == Marked(row, "completed")
             new == [m EXCEPT !.data = t.from]
             next == [t EXCEPT !.phase = "refresh"]
  <2>1. t.stage = "extraction"
    BY <1>1, <1>9 DEF Extracts, At, Awaits, AutoStages
  <2>2. next \in Task
    <3>1. "refresh" \in Awaits[t.stage]
      BY <2>1 DEF Awaits
    <3> QED BY <1>1, <3>1, Rephased
  <2>3. m \in Row /\ ~InProgress(m) /\ m.stage = row.stage
    BY <1>2
  <2>4. new \in Row /\ ~InProgress(new) /\ new.stage = row.stage
    <3> HIDE DEF m
    <3>1. new \in Row
      BY <1>1, <2>3, Columns
    <3> QED BY <2>3, <3>1 DEF Row, InProgress
  <2>5. Puts(w, i, new, next)
    BY <1>9 DEF Extracts
  <2> HIDE DEF new, next
  <2> QED BY <1>0, <2>2, <2>4, <2>5, EndSteps
<1>10. CASE VariantGate(w, i)
  BY <1>3, <1>10 DEF VariantGate
<1>11. CASE Curates(w, i)
  <2> DEFINE m == Marked(row, "completed")
             new == [m EXCEPT !.curated = t.from]
  <2>1. m \in Row /\ ~InProgress(m) /\ m.stage = row.stage
    BY <1>2
  <2>2. new \in Row /\ ~InProgress(new) /\ new.stage = row.stage
    <3> HIDE DEF m
    <3>1. new \in Row
      BY <1>1, <2>1, Columns
    <3> QED BY <2>1, <3>1 DEF Row, InProgress
  <2>3. Ends(w, i, new)
    BY <1>11 DEF Curates
  <2> HIDE DEF new
  <2> QED BY <1>0, <2>2, <2>3, EndSteps DEF Ends
<1>12. CASE Fails(w, i)
  BY <1>3, <1>12 DEF Fails
<1>13. CASE Retries(w, i)
  <2>1. Retried(row) \in Row /\ ~InProgress(Retried(row)) /\ Retried(row).stage = row.stage
    BY <1>1, Retryings
  <2> QED BY <1>0, <1>13, <2>1, EndSteps DEF Retries, Ends
<1>14. CASE Settles(w, i)
  <2>1. Allowed(row, row)
    BY <1>1 DEF Allowed, Follows, Parked
  <2>2. t.phase = "refresh"
    BY <1>14 DEF Settles, At
  <2>3. t.stage # "sourcing"
    BY <1>1, <2>2 DEF Awaits
  <2>4. ~(~SameMillisecond /\ InProgress(row) /\ row.owner = w /\ Alive(w))
    BY <2>2 DEF Inv, ClaimHasTask, InProgress, Pending
  <2>5. Puts(w, i, row, None)
    BY <1>14 DEF Settles, Ends
  <2> QED BY <1>0, <2>1, <2>3, <2>4, <2>5, TaskSteps
<1> QED BY <1>4, <1>5, <1>6, <1>7, <1>8, <1>9, <1>10, <1>11, <1>12, <1>13, <1>14 DEF TaskStep

\* A route whose row comes out unclaimed, and does not leave Sourcing with a
\* conflict unless it is completed.
LEMMA FreeingSteps ==
    ASSUME Inv, NEW i \in Items, NEW name, Route(name), NEW row \in Row, ~InProgress(row),
           Writes(i, row), Parked(item[i]) => row.st = "completed" \/ row.stage = "sourcing"
    PROVE  Good
<1>1. Allowed(item[i], row)
  BY DEF Allowed, Follows
<1> QED BY <1>1, RouteSteps

LEMMA ItemRoutesGood ==
    ASSUME Inv, NEW i \in Items,
           \/ Reset(i) \/ Retry(i) \/ Skip(i) \/ SendBack(i) \/ ResetToStage(i) \/ Advance(i)
           \/ SetUrl(i) \/ Fallback(i) \/ ResolveConflict(i)
           \/ UseRecord(i) \/ Revert(i) \/ Hold(i)
    PROVE  Good
<1> DEFINE row == item[i]
<1>0. row \in Row
  BY DEF Inv, TypeOK, StoreTypeOK
<1>1. CASE Reset(i)
  <2> DEFINE begun == IF row.stage = "sourcing" THEN Superseded(row) ELSE row
  <2>1. begun \in Row /\ begun.stage = row.stage
    BY <1>0, <1>1, Resets DEF Reset
  <2>2. Writes(i, ResetRow(begun)) /\ Route("reset")
    BY <1>1 DEF Reset
  <2> HIDE DEF begun
  <2>3. /\ ResetRow(begun) \in Row /\ ~InProgress(ResetRow(begun))
        /\ ResetRow(begun).stage = row.stage
    BY <2>1, Resets
  <2> QED BY <2>2, <2>3, FreeingSteps DEF Parked
<1>2. CASE Retry(i)
  <2> DEFINE new == [row EXCEPT !.st = "pending", !.retry = 0, !.noProfile = FALSE]
  <2>1. "pending" \in Statuses
    BY DEF Statuses
  <2>2. new \in Row
    BY <1>0, <2>1, Values, Zenon DEF Row
  <2>3. ~InProgress(new)
    BY <1>0 DEF Row, InProgress
  <2>4. Writes(i, new) /\ Route("retry") /\ row.stage # "sourcing"
    BY <1>2 DEF Retry
  <2> HIDE DEF new
  <2> QED BY <2>2, <2>3, <2>4, FreeingSteps DEF Parked
<1>3. CASE Skip(i)
  <2> DEFINE new == [row EXCEPT !.st = "skipped", !.owner = None]
  <2>1. new \in Row
    BY <1>0, Values, Zenon DEF Row, Statuses
  <2>2. ~InProgress(new) /\ new.stage = row.stage
    BY <1>0 DEF Row, InProgress
  <2>3. Writes(i, new) /\ Route("skip")
    BY <1>3 DEF Skip
  <2> HIDE DEF new
  <2> QED BY <2>1, <2>2, <2>3, FreeingSteps DEF Parked
<1>4. CASE SendBack(i)
  BY <1>0, <1>4, SendingsBack, FreeingSteps DEF SendBack, Parked
<1>5. CASE ResetToStage(i)
  <2>1. PICK stage \in Stages :
          Writes(i, [row EXCEPT !.stage = stage, !.st = "completed", !.owner = None])
    BY <1>5 DEF ResetToStage
  <2> DEFINE new == [row EXCEPT !.stage = stage, !.st = "completed", !.owner = None]
  <2>2. new \in Row
    BY <1>0, Values, Zenon DEF Row, Statuses
  <2>3. new.st = "completed"
    BY <1>0 DEF Row
  <2>4. Route("to_stage")
    BY <1>5 DEF ResetToStage
  <2> HIDE DEF new
  <2> QED BY <2>1, <2>2, <2>3, <2>4, FreeingSteps DEF InProgress, new
<1>6. CASE Advance(i)
  <2>1. NextStage[row.stage] \in Stages
    BY <1>0, <1>6 DEF Advance, NextStage, Row, Stages
  <2> DEFINE new == Moved(row, NextStage[row.stage], "pending")
  <2>2. new \in Row /\ ~InProgress(new)
    BY <1>0, <2>1, Moves DEF InProgress, Statuses
  <2>3. Writes(i, new) /\ Route("advance") /\ ~Parked(row)
    BY <1>6 DEF Advance, Parked
  <2> HIDE DEF new
  <2> QED BY <2>2, <2>3, FreeingSteps
<1>7. CASE SetUrl(i)
  <2>1. PICK page \in Pages : Writes(i, Confirmed(row, page))
    BY <1>7 DEF SetUrl
  <2>2. Confirmed(row, page) \in Row
    BY <1>0, Values, Zenon DEF Confirmed, Row
  <2>3. ~InProgress(Confirmed(row, page)) /\ Confirmed(row, page).stage = row.stage
    BY <1>0 DEF Confirmed, Row, InProgress
  <2>4. Route("url") \/ Route("late_url")
    BY <1>7 DEF SetUrl
  <2> QED BY <2>1, <2>2, <2>3, <2>4, FreeingSteps DEF Parked
<1>8. CASE Fallback(i)
  <2>1. Moved(row, "discovery", "pending") \in Row
        /\ ~InProgress(Moved(row, "discovery", "pending"))
    BY <1>0, Moves DEF InProgress, Statuses, Stages
  <2> QED BY <1>8, <2>1, FreeingSteps DEF Fallback, Parked
<1>9. CASE ResolveConflict(i)
  <2> DEFINE new == [row EXCEPT !.conflict = FALSE]
  <2>1. new \in Row
    BY <1>0, Columns
  <2>2. new.st = row.st /\ new.owner = row.owner /\ new.stage = row.stage
    BY <1>0 DEF Row
  <2>3. Writes(i, new) /\ Route("resolve")
    BY <1>9 DEF ResolveConflict
  <2> HIDE DEF new
  <2>4. Allowed(row, new)
    BY <2>1, <2>2 DEF Allowed, Follows, InProgress, Parked
  <2> QED BY <2>3, <2>4, RouteSteps
<1>10. CASE UseRecord(i)
  <2>1. Routed(row, "extraction") \in Row /\ ~InProgress(Routed(row, "extraction"))
    BY <1>0, Completions
  <2> QED BY <1>10, <2>1, FreeingSteps DEF UseRecord, Parked
<1>11. CASE Revert(i)
  <2> DEFINE m == Moved(row, "discovery", "pending")
             new == [m EXCEPT !.record = FALSE, !.page = Absent, !.data = Absent]
  <2>1. m \in Row /\ ~InProgress(m)
    BY <1>0, Moves DEF InProgress, Statuses, Stages
  <2>2. new \in Row /\ ~InProgress(new)
    <3> HIDE DEF m
    <3>1. new \in Row
      BY <2>1, Values, Zenon DEF Row
    <3> QED BY <2>1, <3>1 DEF Row, InProgress
  <2>3. Writes(i, new) /\ Route("revert") /\ row.stage = "extraction"
    BY <1>11 DEF Revert
  <2> HIDE DEF new
  <2> QED BY <2>2, <2>3, FreeingSteps DEF Parked
<1>12. CASE Hold(i)
  <2> DEFINE new == [row EXCEPT !.held = ~row.held]
  <2>1. (~row.held) \in BOOLEAN
    OBVIOUS
  <2>2. new \in Row
    BY <1>0, <2>1, Columns
  <2>3. new.st = row.st /\ new.owner = row.owner /\ new.stage = row.stage
    BY <1>0 DEF Row
  <2>4. Writes(i, new) /\ Route("hold")
    BY <1>12 DEF Hold
  <2> HIDE DEF new
  <2>5. Allowed(row, new)
    BY <2>2, <2>3 DEF Allowed, Follows, InProgress, Parked
  <2> QED BY <2>4, <2>5, RouteSteps
<1> QED BY <1>1, <1>2, <1>3, <1>4, <1>5, <1>6, <1>7, <1>8, <1>9, <1>10, <1>11, <1>12

\* The bulk fallback takes a pending row out of Sourcing, in dispute or not.
LEMMA BulkFallbackGood ==
    ASSUME Inv, NEW i \in Items, BulkFallback(i)
    PROVE  Good
<1> DEFINE new == Moved(item[i], "discovery", "pending")
<1>1. /\ item \in [Items -> Row] /\ running \in BOOLEAN /\ profile \subseteq {"row", "version"}
      /\ faults \in 0..MaxFaults /\ moves \in 0..MaxMoves
  BY DEF Inv, TypeOK, StoreTypeOK
<1>2. new \in Row /\ ~InProgress(new)
  BY <1>1, Moves DEF InProgress, Statuses, Stages
<1>3. /\ item[i].st = "pending" /\ item' = [item EXCEPT ![i] = new]
      /\ new.stage = "discovery"
  BY <1>1 DEF BulkFallback, Writes, Moved, Row
<1>4. /\ running' = running /\ profile' = profile /\ faults' = faults
      /\ mode' = mode /\ poll' = poll /\ task' = task
  BY DEF BulkFallback, Writes, worker
<1>5. moves < MaxMoves /\ moves' = moves + 1
  BY DEF BulkFallback, Route
<1>6. moves' \in 0..MaxMoves /\ moves' # moves
  BY <1>1, <1>5, PipelineAssumption
<1> HIDE DEF new
<1>7. item' \in [Items -> Row] /\ \A j \in Items : item'[j] \in Follows(item[j])
  BY <1>1, <1>2, <1>3 DEF Follows
<1>8. Inv' /\ StaleStep
  BY <1>1, <1>4, <1>6, <1>7, RowFollows
<1>9. ConflictStep
  BY <1>1, <1>3, <1>6 DEF ConflictStep
<1> QED BY <1>8, <1>9 DEF Good

\* The routes on the batch and on the domain.
LEMMA BatchRoutesGood ==
    ASSUME Inv, PauseOrResume \/ SaveProfile \/ ActivateVersion
    PROVE  Good
<1>1. /\ item \in [Items -> Row] /\ running \in BOOLEAN /\ profile \subseteq {"row", "version"}
      /\ faults \in 0..MaxFaults
  BY DEF Inv, TypeOK, StoreTypeOK
<1>2. moves' \in 0..MaxMoves
  <2>1. Route("pause") \/ Route("profile") \/ Route("version")
    BY DEF PauseOrResume, SaveProfile, ActivateVersion
  <2>2. moves < MaxMoves /\ moves' = moves + 1
    BY <2>1 DEF Route
  <2> QED BY <2>2, PipelineAssumption DEF Inv, TypeOK
<1>3. mode' = mode /\ poll' = poll /\ task' = task /\ faults' = faults
  BY DEF PauseOrResume, SaveProfile, ActivateVersion, worker
<1>4. running' \in BOOLEAN
  BY <1>1 DEF PauseOrResume, SaveProfile, ActivateVersion
<1>5. profile' \subseteq {"row", "version"}
  BY <1>1 DEF PauseOrResume, SaveProfile, ActivateVersion
<1>6. \A row \in Row : Allowed(row, row)
  BY DEF Allowed, Follows, Parked
<1>7. CASE item' = item
  BY <1>1, <1>2, <1>3, <1>4, <1>5, <1>6, <1>7, RowSteps
<1>8. CASE item' = [i \in Items |->
         IF Releasable(item[i], TRUE) THEN Moved(item[i], "extraction", "pending") ELSE item[i]]
  <2>1. ASSUME NEW i \in Items PROVE item'[i] \in Row /\ Allowed(item[i], item'[i])
    <3> DEFINE new == Moved(item[i], "extraction", "pending")
    <3>1. item[i] \in Row /\ new \in Row /\ ~InProgress(new)
      BY <1>1, Moves DEF InProgress, Statuses, Stages
    <3>2. Releasable(item[i], TRUE) => ~Parked(item[i])
      BY DEF Releasable, Parked
    <3>3. item'[i] = IF Releasable(item[i], TRUE) THEN new ELSE item[i]
      BY <1>8
    <3> HIDE DEF new
    <3> QED BY <1>6, <3>1, <3>2, <3>3 DEF Allowed, Follows
  <2>2. item' \in [Items -> Row]
    BY <1>8, <2>1
  <2> QED BY <1>1, <1>2, <1>3, <1>4, <1>5, <2>1, <2>2, RowSteps
<1> QED BY <1>7, <1>8 DEF PauseOrResume, SaveProfile, ActivateVersion

-----------------------------------------------------------------------------
\* A step that adds a worker nobody refers to, or stops one.
LEMMA WorkerSteps ==
    ASSUME Inv, item' \in [Items -> Row], \A i \in Items : Allowed(item[i], item'[i]),
           NEW w \in Workers, NEW m \in Modes, mode' = [mode EXCEPT ![w] = m],
           poll' \in [Workers -> {"idle", "due", "refresh"}],
           \A v \in Workers : poll'[v] = "due" => poll[v] = "due" \/ v = w,
           m # "off", Alive(w) \/ (\A i \in Items : item[i].owner # w),
           UNCHANGED <<running, profile, task>>,
           moves' \in 0..MaxMoves, faults' \in 0..MaxFaults
    PROVE  Good
<1>1. /\ mode \in [Workers -> Modes] /\ mode' \in [Workers -> Modes]
      /\ running \in BOOLEAN /\ profile \subseteq {"row", "version"}
  BY DEF Inv, TypeOK, StoreTypeOK, WorkerTypeOK
<1>2. TypeOK'
  BY <1>1 DEF Inv, TypeOK, StoreTypeOK, WorkerTypeOK
<1>3. \A i \in Items : InProgress(item'[i]) => InProgress(item[i]) /\ item'[i].owner = item[i].owner
  BY DEF Allowed, Follows
<1>4. \A v \in Workers : mode'[v] # "off" <=> (mode[v] # "off" \/ v = w)
  BY <1>1
<1>5. Owned' /\ DueAlive'
  BY <1>3, <1>4 DEF Inv, Owned, DueAlive, Alive, InProgress
<1>6. ASSUME ~SameMillisecond PROVE ClaimHasTask'
  <2> SUFFICES ASSUME NEW j \in Items,
                      item'[j].st = "in_progress", mode'[item'[j].owner] # "off"
               PROVE  /\ task'[item'[j].owner][j] # None
                      /\ task'[item'[j].owner][j].phase # "refresh"
    BY DEF ClaimHasTask, Alive, Pending
  <2>1. InProgress(item[j]) /\ item'[j].owner = item[j].owner /\ item[j].owner \in Workers
    BY <1>3 DEF Inv, Owned, InProgress
  <2>2. mode[item[j].owner] # "off"
    BY <1>4, <2>1 DEF Alive
  <2> QED BY <1>6, <2>1, <2>2 DEF Inv, ClaimHasTask, InProgress, Alive, Pending
<1>7. ConflictStep
  BY DEF Allowed, Parked, ConflictStep
<1>8. StaleStep
  BY DEF StaleStep
<1> QED BY <1>2, <1>5, <1>6, <1>7, <1>8 DEF Inv, Good

LEMMA StartGood ==
    ASSUME Inv, NEW w \in Workers, Start(w), Quiet
    PROVE  Good
<1>1. item \in [Items -> Row]
  BY DEF Inv, TypeOK, StoreTypeOK
<1>2. PICK late \in SUBSET {i \in Items : item[i].st = "in_progress"} :
        item' = [i \in Items |-> IF i \in late THEN Unclaimed(item[i]) ELSE item[i]]
  BY DEF Start
<1>3. ASSUME NEW i \in Items PROVE item'[i] \in Row /\ Allowed(item[i], item'[i])
  <2>1. item'[i] \in {Unclaimed(item[i]), item[i]}
    BY <1>2
  <2>2. /\ Unclaimed(item[i]) \in Row /\ ~InProgress(Unclaimed(item[i]))
        /\ Unclaimed(item[i]).stage = item[i].stage
    <3> USE <1>1
    <3>1. \E v : v \in Workers
      OBVIOUS
    <3> QED BY <3>1, Claims
  <2> QED BY <1>1, <2>1, <2>2 DEF Allowed, Follows, Parked
<1>4. item' \in [Items -> Row]
  BY <1>2, <1>3
<1>5. /\ mode' = [mode EXCEPT ![w] = "on"] /\ poll' = poll
      /\ UNCHANGED <<running, profile, task, faults>> /\ moves' = moves
      /\ \A i \in Items : item[i].owner # w
  BY DEF Start, Quiet, Unused
<1>6. /\ moves' \in 0..MaxMoves /\ faults' \in 0..MaxFaults
      /\ poll' \in [Workers -> {"idle", "due", "refresh"}]
  BY <1>5 DEF Inv, TypeOK, WorkerTypeOK
<1> QED BY <1>3, <1>4, <1>5, <1>6, WorkerSteps DEF Modes

LEMMA SwitchGood ==
    ASSUME Inv, SwitchWorkspace
    PROVE  Good
<1>1. PICK w \in Workers : Stop(w)
  BY DEF SwitchWorkspace
<1>2. moves' \in 0..MaxMoves /\ faults' \in 0..MaxFaults
  <2>1. faults < MaxFaults /\ faults' = faults + 1 /\ moves' = moves
    BY DEF SwitchWorkspace, Fault
  <2> QED BY <2>1, PipelineAssumption DEF Inv, TypeOK
<1>3. /\ item' = item /\ mode' = [mode EXCEPT ![w] = "stopped"] /\ poll' = poll
      /\ UNCHANGED <<running, profile, task>> /\ Alive(w)
  BY <1>1 DEF Stop, SwitchWorkspace, store, Alive
<1>4. /\ item' \in [Items -> Row] /\ \A i \in Items : Allowed(item[i], item'[i])
      /\ poll' \in [Workers -> {"idle", "due", "refresh"}]
  BY <1>3 DEF Inv, TypeOK, StoreTypeOK, WorkerTypeOK, Allowed, Follows, Parked
<1> QED BY <1>2, <1>3, <1>4, WorkerSteps DEF Modes

LEMMA SelectVariantGood ==
    ASSUME Inv, NEW i \in Items, SelectVariant(i)
    PROVE  Good
<1>1. item \in [Items -> Row] /\ poll \in [Workers -> {"idle", "due", "refresh"}]
  BY DEF Inv, TypeOK, StoreTypeOK, WorkerTypeOK
<1>2. PICK page \in Pages : \E w \in Workers :
         /\ item' = [item EXCEPT ![i] = [@ EXCEPT !.stage = "extraction", !.st = "pending",
                        !.page = page, !.retry = 0, !.noProfile = FALSE]]
         /\ Unused(w)
         /\ mode' = [mode EXCEPT ![w] = "once"]
         /\ poll' = [poll EXCEPT ![w] = "due"]
  BY DEF SelectVariant
<1>3. PICK w \in Workers :
         /\ item' = [item EXCEPT ![i] = [@ EXCEPT !.stage = "extraction", !.st = "pending",
                        !.page = page, !.retry = 0, !.noProfile = FALSE]]
         /\ Unused(w)
         /\ mode' = [mode EXCEPT ![w] = "once"]
         /\ poll' = [poll EXCEPT ![w] = "due"]
  BY <1>2
<1> DEFINE new == [item[i] EXCEPT !.stage = "extraction", !.st = "pending",
                        !.page = page, !.retry = 0, !.noProfile = FALSE]
<1>4. new \in Row
  <2>1. item[i] \in Row /\ "extraction" \in Stages /\ "pending" \in Statuses
        /\ page \in Pages \cup {Absent}
    BY <1>1 DEF Stages, Statuses
  <2> QED BY <2>1, Values, Zenon DEF Row
<1>5. ~InProgress(new)
  BY <1>1 DEF Row, InProgress
<1>6. item' = [item EXCEPT ![i] = new]
  BY <1>1, <1>3
<1> HIDE DEF new
<1>7. ~Parked(item[i])
  BY DEF SelectVariant, Parked
<1>8. /\ item' \in [Items -> Row]
      /\ \A j \in Items : Allowed(item[j], item'[j])
  BY <1>1, <1>4, <1>5, <1>6, <1>7 DEF Allowed, Follows, Parked
<1>9. /\ moves' \in 0..MaxMoves /\ faults' \in 0..MaxFaults
      /\ UNCHANGED <<running, profile, task>>
  <2>1. moves < MaxMoves /\ moves' = moves + 1 /\ faults' = faults
    BY DEF SelectVariant, Route
  <2> QED BY <2>1, PipelineAssumption DEF Inv, TypeOK, SelectVariant
<1>10. /\ poll' \in [Workers -> {"idle", "due", "refresh"}]
       /\ \A v \in Workers : poll'[v] = "due" => poll[v] = "due" \/ v = w
       /\ \A j \in Items : item[j].owner # w
  BY <1>1, <1>3 DEF Unused
<1> QED BY <1>3, <1>8, <1>9, <1>10, WorkerSteps DEF Modes

LEMMA PollGood ==
    ASSUME Inv, NEW w \in Workers, Poll(w), Quiet
    PROVE  Good
<1>1. Alive(w)
  BY DEF Poll, CanPoll, Inv, DueAlive, Alive
<1>2. PICK good \in [Items -> BOOLEAN] :
        LET b == Polled4(w, good)
        IN  /\ item' = b.item
            /\ task' = [task EXCEPT ![w] = [i \in Items |->
                  IF b.task[i] # None /\ b.task[i].phase = "done" THEN None ELSE b.task[i]]]
  BY DEF Poll
<1> DEFINE b == Polled4(w, good)
<1>3. Boarded(b, w)
  BY <1>1, PollBoards
<1>4. /\ item' = b.item
      /\ task' = [task EXCEPT ![w] = [i \in Items |->
            IF b.task[i] # None /\ b.task[i].phase = "done" THEN None ELSE b.task[i]]]
  BY <1>2
<1> HIDE DEF b
<1>5. /\ task \in [Workers -> [Items -> Task \cup {None}]]
      /\ poll \in [Workers -> {"idle", "due", "refresh"}]
  BY DEF Inv, TypeOK, WorkerTypeOK
<1>6. /\ poll' = [poll EXCEPT ![w] = "refresh"] /\ mode' = mode
      /\ running' = running /\ profile' = profile /\ moves' = moves /\ faults' = faults
  BY DEF Poll, Quiet
<1>7. ASSUME NEW i \in Items
      PROVE  /\ task'[w][i] \in Task \cup {None}
             /\ b.task[i] # None /\ b.task[i].phase # "done" => task'[w][i] = b.task[i]
             /\ task[w][i] # None => task'[w][i] = task[w][i]
  <2>1. task'[w][i] = IF b.task[i] # None /\ b.task[i].phase = "done" THEN None ELSE b.task[i]
    BY <1>4, <1>5
  <2>2. b.task[i] \in Task \cup DoneTask \cup {None}
    BY <1>3 DEF Boarded
  <2>3. \A t \in DoneTask : t.phase = "done"
    BY DEF DoneTask
  <2>4. task[w][i] # None => b.task[i] = task[w][i] /\ task[w][i] \in Task
    BY <1>3, <1>5 DEF Boarded
  <2>5. \A t \in Task : t.phase # "done"
    BY DEF Task, Awaits, AutoStages
  <2> QED BY <2>1, <2>2, <2>3, <2>4, <2>5
<1>8. \A v \in Workers : v # w => task'[v] = task[v]
  BY <1>4, <1>5
<1>9. task' \in [Workers -> [Items -> Task \cup {None}]]
  <2>1. [i \in Items |-> IF b.task[i] # None /\ b.task[i].phase = "done" THEN None
                         ELSE b.task[i]] \in [Items -> Task \cup {None}]
    <3>1. ASSUME NEW i \in Items
          PROVE  (IF b.task[i] # None /\ b.task[i].phase = "done" THEN None ELSE b.task[i])
                     \in Task \cup {None}
      BY <1>3 DEF Boarded, DoneTask
    <3> QED BY <3>1
  <2> QED BY <1>4, <1>5, <2>1
<1>10. TypeOK'
  BY <1>3, <1>4, <1>5, <1>6, <1>9
     DEF Inv, TypeOK, StoreTypeOK, WorkerTypeOK, Boarded
<1>11. Owned'
  <2> SUFFICES ASSUME NEW i \in Items, item'[i].st = "in_progress"
               PROVE  item'[i].owner \in Workers
    BY DEF Owned, InProgress
  <2> QED BY <1>3, <1>4 DEF Boarded, InProgress, Inv, Owned
<1>12. DueAlive'
  BY <1>5, <1>6 DEF Inv, DueAlive, Alive
<1>13. ASSUME ~SameMillisecond PROVE ClaimHasTask'
  <2> SUFFICES ASSUME NEW i \in Items,
                      item'[i].st = "in_progress", mode'[item'[i].owner] # "off"
               PROVE  /\ task'[item'[i].owner][i] # None
                      /\ task'[item'[i].owner][i].phase # "refresh"
    BY DEF ClaimHasTask, Alive, Pending
  <2>1. CASE item'[i].owner = w
    <3>1. Live(b.task[i])
      BY <1>3, <1>4, <1>13, <2>1 DEF Boarded, InProgress
    <3> QED BY <1>7, <2>1, <3>1 DEF Live
  <2>2. CASE item'[i].owner # w
    <3>1. InProgress(item[i]) /\ item'[i].owner = item[i].owner /\ item[i].owner \in Workers
      BY <1>3, <1>4, <2>2 DEF Boarded, InProgress, Inv, Owned
    <3>2. task'[item[i].owner] = task[item[i].owner]
      BY <1>8, <2>2, <3>1
    <3> QED BY <1>6, <1>13, <3>1, <3>2 DEF Inv, ClaimHasTask, InProgress, Alive, Pending
  <2> QED BY <2>1, <2>2
<1>14. ConflictStep
  BY <1>3, <1>4 DEF ConflictStep, Boarded, Parked
<1>15. StaleStep
  BY <1>7, <1>8 DEF StaleStep
<1> QED BY <1>10, <1>11, <1>12, <1>13, <1>14, <1>15 DEF Inv, Good

LEMMA PollEndsGood ==
    ASSUME Inv, NEW w \in Workers, PollEnds(w), Quiet
    PROVE  Good
<1>1. /\ poll' = [poll EXCEPT ![w] = "idle"]
      /\ UNCHANGED <<item, running, profile, mode, task, moves, faults>>
  BY DEF PollEnds, Quiet, store
<1>2. TypeOK' /\ DueAlive'
  BY <1>1 DEF Inv, TypeOK, StoreTypeOK, WorkerTypeOK, DueAlive, Alive
<1>3. Owned' /\ (~SameMillisecond => ClaimHasTask)'
  BY <1>1 DEF Inv, Owned, ClaimHasTask, Alive, Pending, InProgress
<1>4. ConflictStep /\ StaleStep
  BY <1>1 DEF ConflictStep, StaleStep
<1> QED BY <1>2, <1>3, <1>4 DEF Inv, Good

\* Whatever the process leaves of the rows, no worker claims them any more.
LEMMA CrashesGood ==
    ASSUME Inv, Dies, UNCHANGED moves, faults' \in 0..MaxFaults, NEW w \in Workers, Alive(w),
           item' \in [Items -> Row],
           \A i \in Items : InProgress(item'[i]) => item'[i].owner \in Workers,
           \A i \in Items : Parked(item[i]) => item'[i].stage = "sourcing"
    PROVE  Good
<1>1. TypeOK'
  BY DEF Inv, TypeOK, StoreTypeOK, WorkerTypeOK, Dies, NoTasks, Modes
<1>2. Owned' /\ DueAlive'
  BY DEF Owned, DueAlive, InProgress, Dies
<1>3. ClaimHasTask'
  BY DEF ClaimHasTask, Dies, Alive, InProgress
<1>4. mode' # mode
  BY DEF Dies, Alive
<1>5. ConflictStep /\ StaleStep
  BY <1>4 DEF ConflictStep, StaleStep, Parked
<1> QED BY <1>1, <1>2, <1>3, <1>5 DEF Inv, Good

LEMMA CrashStepsGood ==
    ASSUME Inv, CrashStep \/ PollCrash
    PROVE  Good
<1>1. UNCHANGED moves /\ faults' \in 0..MaxFaults
  <2>1. faults < MaxFaults /\ faults' = faults + 1 /\ moves' = moves
    BY DEF CrashStep, PollCrash, Fault
  <2> QED BY <2>1, PipelineAssumption DEF Inv, TypeOK
<1>2. CASE CrashStep
  <2>1. PICK w \in Workers : Alive(w)
    BY <1>2 DEF CrashStep
  <2>2. Dies /\ item' = item
    BY <1>2 DEF CrashStep, Crash
  <2> QED BY <1>1, <2>1, <2>2, CrashesGood DEF Inv, TypeOK, StoreTypeOK, Owned, Parked
<1>3. CASE PollCrash
  <2>1. PICK w \in Workers : CrashInPoll(w)
    BY <1>3 DEF PollCrash
  <2>2. Alive(w) /\ Dies
    BY <2>1 DEF CrashInPoll, CanPoll, Inv, DueAlive, Alive
  <2>3. PICK good \in [Items -> BOOLEAN] :
          item' \in {Swept1(w).item, Polled1(w, good).item, Polled2(w, good).item,
                    Polled3(w, good).item}
    BY <2>1 DEF CrashInPoll
  <2>4. /\ Boarded(Swept1(w), w) /\ Boarded(Polled1(w, good), w)
        /\ Boarded(Polled2(w, good), w) /\ Boarded(Polled3(w, good), w)
    BY <2>2, PollBoards
  <2>5. ASSUME NEW b, Boarded(b, w), item' = b.item PROVE Good
    <3>1. item' \in [Items -> Row]
      BY <2>5 DEF Boarded
    <3>2. \A i \in Items : InProgress(item'[i]) => item'[i].owner \in Workers
      BY <2>5 DEF Boarded, Inv, Owned
    <3>3. \A i \in Items : Parked(item[i]) => item'[i].stage = "sourcing"
      BY <2>5 DEF Boarded, Parked
    <3> QED BY <1>1, <2>2, <3>1, <3>2, <3>3, CrashesGood
  <2> QED BY <2>3, <2>4, <2>5
<1> QED BY <1>2, <1>3

-----------------------------------------------------------------------------
LEMMA InitInv == Init => Inv
<1> SUFFICES ASSUME Init PROVE Inv
  OBVIOUS
<1>1. Entered("sourcing") \in Row
  <2>1. 0 \in 0..MaxGens
    BY StoreAssumption
  <2> QED BY <2>1, Values, Zenon DEF Entered, Row, Stages, Statuses
<1>2. Entered("sourcing").st = "pending"
  BY DEF Entered
<1>3. TypeOK
  BY <1>1, PipelineAssumption
     DEF Init, TypeOK, StoreTypeOK, WorkerTypeOK, NoTasks, Modes
<1>4. Owned /\ DueAlive /\ ClaimHasTask
  BY <1>2 DEF Init, Owned, DueAlive, ClaimHasTask, InProgress
<1> QED BY <1>3, <1>4 DEF Inv

LEMMA NextGood ==
    ASSUME Inv, [Next]_vars
    PROVE  Good
<1>1. CASE \E w \in Workers : Quiet /\ (Start(w) \/ PollStep(w))
  BY <1>1, StartGood, PollGood, PollEndsGood DEF PollStep
<1>2. CASE \E w \in Workers, i \in Items : Quiet /\ TaskStep(w, i)
  BY <1>2, TaskStepsGood
<1>3. CASE RouteStep
  BY <1>3, ItemRoutesGood, BulkFallbackGood, SelectVariantGood, BatchRoutesGood
     DEF RouteStep
<1>4. CASE CrashStep \/ PollCrash \/ SwitchWorkspace
  BY <1>4, CrashStepsGood, SwitchGood
<1>5. CASE UNCHANGED vars
  <2>1. UNCHANGED <<item, running, profile, mode, poll, task, moves, faults>>
    BY <1>5 DEF vars, pipeline, store, worker
  <2>2. TypeOK' /\ DueAlive'
    BY <2>1 DEF Inv, TypeOK, StoreTypeOK, WorkerTypeOK, DueAlive, Alive
  <2>3. Owned' /\ (~SameMillisecond => ClaimHasTask)'
    BY <2>1 DEF Inv, Owned, ClaimHasTask, Alive, Pending, InProgress
  <2>4. ConflictStep /\ StaleStep
    BY <2>1 DEF ConflictStep, StaleStep
  <2> QED BY <2>2, <2>3, <2>4 DEF Inv, Good
<1> QED BY <1>1, <1>2, <1>3, <1>4, <1>5 DEF Next

LEMMA InvHolds == Spec => []Inv
<1>1. Inv /\ [Next]_vars => Inv'
  BY NextGood DEF Good
<1> QED BY InitInv, <1>1, PTL DEF Spec

\* Rows, running maps and worker modes keep their types.
THEOREM ItemsTypeOK == Spec => []TypeOK
<1>1. Inv => TypeOK
  BY DEF Inv
<1> QED BY InvHolds, <1>1, PTL

\* As long as no two stages of a poll claim within one millisecond, every row
\* in progress under a living worker has a task whose outcome is to come.
THEOREM EveryClaimHasTask == ~SameMillisecond /\ Spec => []ClaimHasTask
<1>1. ASSUME ~SameMillisecond PROVE Inv => ClaimHasTask
  BY <1>1 DEF Inv
<1>2. ASSUME ~SameMillisecond PROVE Spec => []ClaimHasTask
  <2>1. Inv => ClaimHasTask
    BY <1>1, <1>2
  <2> QED BY InvHolds, <2>1, PTL
<1> QED BY <1>2

\* Evidence of a superseded sourcing generation moves no item.
THEOREM StaleStaysOut == Spec => StaleNeverRoutes
<1>1. Inv /\ [Next]_vars => [StaleStep]_vars
  BY NextGood DEF Good
<1>2. [StaleStep]_vars =>
        [\A w \in Workers, i \in Items :
           /\ task[w][i] # None /\ task[w][i].stage = "sourcing" /\ ~Current(w, i)
           /\ task'[w][i] = None /\ mode' = mode
           => item'[i].stage = item[i].stage]_vars
  BY DEF StaleStep
<1> QED BY InvHolds, <1>1, <1>2, PTL DEF Spec, StaleNeverRoutes

\* A conflict keeps its item in Sourcing, whatever tasks, polls, routes and
\* crashes meet at the row, unless it is pending and an operator falls back.
THEOREM ConflictHolds == Spec => ConflictHoldsSourcing
<1>1. Inv /\ [Next]_vars => [ConflictStep]_vars
  BY NextGood DEF Good
<1>2. [ConflictStep]_vars =>
        [\A i \in Items :
           /\ item[i].conflict /\ item[i].stage = "sourcing"
           /\ item'[i].st # "completed"
           => \/ item'[i].stage = "sourcing"
              \/ item[i].st = "pending" /\ item'[i].stage = "discovery" /\ moves' # moves]_vars
  BY DEF ConflictStep
<1> QED BY InvHolds, <1>1, <1>2, PTL DEF Spec, ConflictHoldsSourcing

=============================================================================

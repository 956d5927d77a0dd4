--------------------------- MODULE ShopSiteProofs ---------------------------
(***************************************************************************)
(* What the catalog keeps against ShopSite, for any number of products,    *)
(* change sets, drift rows and faults: first the types, then the three     *)
(* invariants, each with what it needs to be inductive.                    *)
(***************************************************************************)
EXTENDS ShopSiteSync, SequenceTheorems, FiniteSetTheorems, TLAPS

-----------------------------------------------------------------------------
(* Contents, files and rows.                                               *)

LEMMA FaultCounted ==
    ASSUME faults \in 0..MaxFaults, NEW kind, Fault(kind)
    PROVE  faults' \in 0..MaxFaults
BY FaultAssumption DEF Fault

LEMMA ContentsClosed ==
    /\ Nothing \in Contents
    /\ \A S \in SUBSET Skus, v \in Versions : Only(S, [t \in Skus |-> v]) \in Contents
    /\ \A c \in Contents, S \in SUBSET Skus : Only(S, c) \in Contents
    /\ \A c \in Contents, d \in Contents : Over(c, d) \in Contents
BY DEF Nothing, Contents, Only, Over

\* What is drawn from contents is of their pairs.
LEMMA PairsOf ==
    /\ Pairs(Nothing) = {}
    /\ \A c \in Contents : Pairs(c) \subseteq Skus \X Versions
    /\ \A c \in Contents, s \in Skus : c[s] # None => c[s] \in Versions /\ <<s, c[s]>> \in Pairs(c)
    /\ \A c \in Contents, d \in Contents : Pairs(c) \subseteq Pairs(Over(c, d))
    /\ \A c \in Contents, d \in Contents : Pairs(Over(c, d)) \subseteq Pairs(c) \cup Pairs(d)
<1>1. Pairs(Nothing) = {}
  BY DEF Pairs, ItemsOf, Nothing
<1>2. \A c \in Contents, s \in Skus : c[s] # None => c[s] \in Versions /\ <<s, c[s]>> \in Pairs(c)
  BY DEF Pairs, ItemsOf, Contents
<1>3. \A c \in Contents : Pairs(c) \subseteq Skus \X Versions
  BY <1>2 DEF Pairs, ItemsOf
<1>4. ASSUME NEW c \in Contents, NEW d \in Contents, NEW s \in ItemsOf(c)
      PROVE  <<s, c[s]>> \in Pairs(Over(c, d))
  <2>1. s \in Skus /\ c[s] # None /\ Over(c, d)[s] = c[s]
    BY DEF ItemsOf, Over
  <2> QED BY <2>1 DEF Pairs, ItemsOf
<1>5. ASSUME NEW c \in Contents, NEW d \in Contents, NEW s \in ItemsOf(Over(c, d))
      PROVE  <<s, Over(c, d)[s]>> \in Pairs(c) \cup Pairs(d)
  <2>1. s \in Skus /\ Over(c, d)[s] # None
    BY DEF ItemsOf
  <2> QED BY <2>1, <1>2 DEF Over
<1> QED BY <1>1, <1>2, <1>3, <1>4, <1>5 DEF Pairs

\* The drift rows, read as a function of their places.
LEMMA Rows ==
    ASSUME TypeOK
    PROVE  /\ Len(drift) \in Nat /\ DOMAIN drift = 1..Len(drift)
           /\ \A n \in DOMAIN drift : drift[n] \in DriftRow
<1>1. drift \in Seq(DriftRow)
  BY DEF TypeOK, CatalogTypeOK
<1> QED BY <1>1, LenProperties, ElementOfSeq

LEMMA RowsBack ==
    ASSUME TypeOK, NEW d, d \in [1..Len(drift) -> DriftRow]
    PROVE  d \in Seq(DriftRow) /\ Len(d) = Len(drift) /\ DOMAIN d = DOMAIN drift
<1>1. Len(drift) \in Nat
  BY Rows
<1>2. d \in Seq(DriftRow)
  BY <1>1, SeqDef
<1>3. Len(d) \in Nat /\ DOMAIN d = 1..Len(d) /\ DOMAIN d = 1..Len(drift)
  BY <1>2, LenProperties
<1>4. Len(d) = Len(drift)
  BY <1>1, <1>3
<1> QED BY <1>2, <1>3, <1>4, Rows

\* The ways the rows are rewritten keep their number and their types.
LEMMA ResolveRows ==
    ASSUME TypeOK, NEW n \in DOMAIN drift, NEW st \in {"kept_local", "accepted_remote"}
    PROVE  Resolve(n, st) \in [1..Len(drift) -> DriftRow]
BY Rows DEF Resolve, DriftRow

LEMMA LinkResolvedRows ==
    ASSUME TypeOK, NEW c \in Sets
    PROVE  LinkResolved(c) \in [1..Len(drift) -> DriftRow]
<1>1. \A n \in DOMAIN drift : [drift[n] EXCEPT !.st = "resolved"] \in DriftRow
  BY Rows DEF DriftRow
<1> QED BY <1>1, Rows DEF LinkResolved

LEMMA ReopenedRows ==
    ASSUME TypeOK, NEW c \in Sets
    PROVE  Reopened(c) \in [1..Len(drift) -> DriftRow]
<1>1. CASE Waiting(c) = {}
  BY <1>1, Rows DEF Reopened, TypeOK, CatalogTypeOK
<1>2. ASSUME NEW n \in DOMAIN drift
      PROVE  DetectedLast(n, [drift[n] EXCEPT !.st = "open", !.cs = None]) \in [1..Len(drift) -> DriftRow]
  <2>1. [drift[n] EXCEPT !.st = "open", !.cs = None] \in DriftRow
    BY Rows DEF DriftRow
  <2>2. \A m \in DOMAIN drift : m < Len(drift) => m + 1 \in DOMAIN drift
    BY Rows
  <2> QED BY <2>1, <2>2, Rows DEF DetectedLast
<1>3. CASE Waiting(c) # {}
  <2>1. PICK n \in DOMAIN drift :
            Reopened(c) = DetectedLast(n, [drift[n] EXCEPT !.st = "open", !.cs = None])
    BY <1>3 DEF Reopened, Waiting
  <2> QED BY <1>2, <2>1
<1> QED BY <1>1, <1>3

LEMMA AcceptedContents ==
    ASSUME TypeOK
    PROVE  /\ Accepted \in Contents
           /\ \A s \in Skus : Accepted[s] # None =>
                \E n \in DOMAIN drift : drift[n].sku = s /\ drift[n].remote = Accepted[s]
<1>1. ASSUME NEW s \in Skus, Accepted[s] # None
      PROVE  \E n \in DOMAIN drift : drift[n].sku = s /\ drift[n].remote = Accepted[s]
  BY <1>1 DEF Accepted
<1>2. \A s \in Skus : Accepted[s] \in Versions \cup {None}
  <2> TAKE s \in Skus
  <2>1. CASE Accepted[s] = None
    BY <2>1
  <2>2. CASE Accepted[s] # None
    BY <1>1, <2>2, Rows DEF DriftRow
  <2> QED BY <2>1, <2>2
<1>3. Accepted = [s \in Skus |-> Accepted[s]]
  BY DEF Accepted
<1> QED BY <1>1, <1>2, <1>3 DEF Contents

LEMMA AcceptedRows ==
    ASSUME TypeOK
    PROVE  [n \in DOMAIN drift |-> IF Clean(n) THEN [drift[n] EXCEPT !.st = "accepted_remote"]
                                               ELSE drift[n]] \in [1..Len(drift) -> DriftRow]
<1>1. \A n \in DOMAIN drift : [drift[n] EXCEPT !.st = "accepted_remote"] \in DriftRow
  BY Rows DEF DriftRow
<1> QED BY <1>1, Rows

\* Index rows.
LEMMA IndexRows ==
    ASSUME TypeOK
    PROVE  /\ \A kind \in {"file", "content"}, v \in Versions : Synced(kind, v) \in IndexRow
           /\ \A S : NotSynced(S) \in [Skus -> IndexRow]
           /\ \A s \in Skus : index[s] \in IndexRow
BY DEF TypeOK, CatalogTypeOK, Synced, NotSynced, IndexRow, Hash

-----------------------------------------------------------------------------
(* Types.                                                                  *)

\* The rows after a step that keeps their number.
LEMMA DriftTyped ==
    ASSUME TypeOK, drift' \in [1..Len(drift) -> DriftRow]
    PROVE  drift' \in Seq(DriftRow) /\ Len(drift') <= MaxDrifts
BY RowsBack DEF TypeOK, CatalogTypeOK

LEMMA EndedProcess ==
    ASSUME ProcessEnds
    PROVE  push' \in [Sets -> Job] /\ pulled' = None
BY ContentsClosed DEF ProcessEnds, Idle, Job

LEMMA WroteTyped ==
    ASSUME TypeOK, NEW c \in Sets, NEW S \in SUBSET Skus, Wrote(c, S)
    PROVE  file' \in Contents /\ index' \in [Skus -> IndexRow]
<1>1. cset[c].draft \in Contents /\ file \in Contents
  BY DEF TypeOK, CatalogTypeOK, ChangeSet
<1> QED BY <1>1, ContentsClosed, IndexRows DEF Wrote

LEMMA CommitTyped ==
    ASSUME TypeOK, file' \in Contents, Commit(file')
    PROVE  committed' \subseteq Skus \X Versions
BY PairsOf DEF Commit, TypeOK, CatalogTypeOK

LEMMA DraftedTyped ==
    ASSUME TypeOK, NEW c \in Sets, NEW content \in Contents
    PROVE  Drafted(c, content) \in [Sets -> ChangeSet]
<1>1. cset \in [Sets -> ChangeSet] /\ cset[c].draft \in Contents
  BY DEF TypeOK, CatalogTypeOK, ChangeSet
<1>2. Over(content, cset[c].draft) \in Contents
  BY <1>1, ContentsClosed
<1> DEFINE row == [cset[c] EXCEPT !.st = "draft", !.draft = Over(content, cset[c].draft)]
<1>3. row \in ChangeSet
  BY <1>1, <1>2 DEF ChangeSet
<1>4. Drafted(c, content) = [cset EXCEPT ![c] = row]
  BY <1>1 DEF Drafted, ChangeSet
<1> QED BY <1>1, <1>3, <1>4

LEMMA DeletedTyped ==
    ASSUME TypeOK, NEW c \in Sets
    PROVE  Deleted(c) \in [Sets -> ChangeSet]
<1>1. cset \in [Sets -> ChangeSet] /\ Nothing \in Contents
  BY ContentsClosed DEF TypeOK, CatalogTypeOK
<1> DEFINE row == [cset[c] EXCEPT !.draft = Nothing, !.st = IF cset[c].job THEN cset[c].st ELSE "gone"]
<1>2. row \in ChangeSet
  BY <1>1 DEF ChangeSet
<1>3. Deleted(c) = [cset EXCEPT ![c] = row]
  BY <1>1 DEF Deleted, ChangeSet
<1> QED BY <1>1, <1>2, <1>3

LEMMA StatusTyped ==
    ASSUME TypeOK, NEW c \in Sets, NEW st \in {"draft", "approved"}
    PROVE  [cset EXCEPT ![c].st = st] \in [Sets -> ChangeSet]
BY DEF TypeOK, CatalogTypeOK, ChangeSet

LEMMA EditTyped ==
    ASSUME TypeOK, Edit
    PROVE  TypeOK'
<1>1. PICK c \in Sets, content \in Contents : cset' = Drafted(c, content)
  BY ContentsClosed DEF Edit, Autosave, Promote
<1>2. UNCHANGED <<file, index, drift, remote, committed, shown, push, pulled, faults>>
  BY DEF Edit, Autosave, Promote
<1>3. cset' \in [Sets -> ChangeSet]
  BY <1>1, DraftedTyped
<1> QED BY <1>2, <1>3 DEF TypeOK, CatalogTypeOK

LEMMA ApprovalTyped ==
    ASSUME TypeOK, NEW c \in Sets, Approve(c) \/ CommitFails(c) \/ ApproveCut(c)
    PROVE  TypeOK'
<1>1. file' \in Contents /\ index' \in [Skus -> IndexRow]
  <2>1. PICK S \in SUBSET Skus : Wrote(c, S)
    BY DEF Approve, CommitFails, ApproveCut, ItemsOf
  <2> QED BY <2>1, WroteTyped
<1>2. committed' \subseteq Skus \X Versions
  BY <1>1, CommitTyped DEF Approve, CommitFails, ApproveCut, TypeOK, CatalogTypeOK
<1>3. cset' \in [Sets -> ChangeSet]
  BY StatusTyped DEF Approve, CommitFails, ApproveCut, TypeOK, CatalogTypeOK
<1>4. drift' \in Seq(DriftRow) /\ Len(drift') <= MaxDrifts
  <2>1. drift' = drift \/ drift' = LinkResolved(c)
    BY DEF Approve, CommitFails, ApproveCut
  <2> QED BY <2>1, LinkResolvedRows, DriftTyped DEF TypeOK, CatalogTypeOK
<1>5. push' \in [Sets -> Job] /\ pulled' \in Contents \cup {None}
  BY EndedProcess DEF Approve, CommitFails, ApproveCut, TypeOK
<1>6. faults' \in 0..MaxFaults
  <2>1. faults \in 0..MaxFaults
    BY DEF TypeOK
  <2> QED BY <2>1, FaultCounted DEF Approve, CommitFails, ApproveCut
<1>7. UNCHANGED <<remote, shown>>
  BY DEF Approve, CommitFails, ApproveCut
<1> QED BY <1>1, <1>2, <1>3, <1>4, <1>5, <1>6, <1>7 DEF TypeOK, CatalogTypeOK

LEMMA DisposalTyped ==
    ASSUME TypeOK, NEW c \in Sets, Discard(c) \/ DiscardCut(c)
    PROVE  TypeOK'
<1>1. cset' \in [Sets -> ChangeSet]
  <2>1. cset' = Deleted(c) \/ cset' = [cset EXCEPT ![c].draft = Nothing]
    BY DEF Discard, DiscardCut
  <2>2. [cset EXCEPT ![c].draft = Nothing] \in [Sets -> ChangeSet]
    BY ContentsClosed DEF TypeOK, CatalogTypeOK, ChangeSet
  <2> QED BY <2>1, <2>2, DeletedTyped
<1>2. drift' \in Seq(DriftRow) /\ Len(drift') <= MaxDrifts
  <2>1. drift' = drift \/ drift' = Reopened(c)
    BY DEF Discard, DiscardCut, Relinked
  <2> QED BY <2>1, ReopenedRows, DriftTyped DEF TypeOK, CatalogTypeOK
<1>3. push' \in [Sets -> Job] /\ pulled' \in Contents \cup {None}
  BY EndedProcess DEF Discard, DiscardCut, TypeOK
<1>4. faults' \in 0..MaxFaults
  <2>1. faults \in 0..MaxFaults
    BY DEF TypeOK
  <2> QED BY <2>1, FaultCounted DEF Discard, DiscardCut
<1>5. UNCHANGED <<file, index, remote, committed, shown>>
  BY DEF Discard, DiscardCut
<1> QED BY <1>1, <1>2, <1>3, <1>4, <1>5 DEF TypeOK, CatalogTypeOK

LEMMA RemoteEditTyped ==
    ASSUME TypeOK, NEW s \in Skus, NEW v \in Versions, RemoteEdit(s, v)
    PROVE  TypeOK'
<1>1. remote' \in Contents /\ shown' \subseteq Skus \X Versions
  BY DEF RemoteEdit, TypeOK, CatalogTypeOK, Contents
<1>2. faults' \in 0..MaxFaults
  BY FaultCounted DEF RemoteEdit, TypeOK
<1> QED BY <1>1, <1>2 DEF RemoteEdit, TypeOK, CatalogTypeOK

LEMMA PullTyped ==
    ASSUME TypeOK, Pull
    PROVE  TypeOK'
BY DEF Pull, TypeOK, CatalogTypeOK, catalog

\* The rows a check adds come after the others.
LEMMA DetectRows ==
    ASSUME TypeOK, Detect
    PROVE  /\ drift' \in Seq(DriftRow) /\ Len(drift') <= MaxDrifts
           /\ \A n \in DOMAIN drift : drift'[n] = drift[n] /\ n \in DOMAIN drift'
           /\ \A n \in DOMAIN drift' : n \in DOMAIN drift
                  \/ \E s \in ItemsOf(pulled) : drift'[n] = Opened(s)
<1>1. IsFiniteSet(Differing)
  <2>1. Differing \subseteq Skus /\ IsFiniteSet(Skus)
    BY CatalogAssumption DEF Differing, ItemsOf
  <2> QED BY <2>1, FS_Subset
<1>2. Cardinality(Differing) \in Nat
  BY <1>1, FS_CardinalityType
<1>3. PICK xml \in [1..Cardinality(Differing) -> Differing] :
          drift' = drift \o [n \in DOMAIN xml |-> Opened(xml[n])]
  BY DEF Detect
<1> DEFINE new == [n \in 1..Cardinality(Differing) |-> Opened(xml[n])]
<1>4. \A n \in 1..Cardinality(Differing) : xml[n] \in ItemsOf(pulled)
  BY DEF Differing
<1>5. \A s \in ItemsOf(pulled) : Opened(s) \in DriftRow
  <2> TAKE s \in ItemsOf(pulled)
  <2>1. s \in Skus /\ pulled[s] # None /\ pulled \in Contents
    BY DEF ItemsOf, Detect, TypeOK
  <2> QED BY <2>1, PairsOf DEF Opened, DriftRow
<1>6. new \in [1..Cardinality(Differing) -> DriftRow]
  BY <1>4, <1>5
<1>7. new \in Seq(DriftRow) /\ Len(new) = Cardinality(Differing) /\ drift' = drift \o new
  <2>1. new \in Seq(DriftRow)
    BY <1>2, <1>6, SeqDef
  <2>2. Len(new) \in Nat /\ DOMAIN new = 1..Len(new)
    BY <2>1, LenProperties
  <2>3. DOMAIN new = 1..Cardinality(Differing)
    OBVIOUS
  <2>4. Len(new) = Cardinality(Differing)
    BY <1>2, <2>2, <2>3
  <2> QED BY <1>3, <2>1, <2>4
<1>8. drift \in Seq(DriftRow) /\ Len(drift) \in Nat /\ DOMAIN drift = 1..Len(drift)
  BY Rows DEF TypeOK, CatalogTypeOK
<1>9. /\ drift' \in Seq(DriftRow) /\ Len(drift') = Len(drift) + Cardinality(Differing)
      /\ \A n \in 1..Len(drift) + Cardinality(Differing) :
            drift'[n] = IF n <= Len(drift) THEN drift[n] ELSE new[n - Len(drift)]
  <2> HIDE DEF new
  <2>1. /\ drift \o new \in Seq(DriftRow)
        /\ Len(drift \o new) = Len(drift) + Len(new)
        /\ \A n \in 1..Len(drift) + Len(new) :
              (drift \o new)[n] = IF n <= Len(drift) THEN drift[n] ELSE new[n - Len(drift)]
    BY <1>7, <1>8, ConcatProperties, Zenon
  <2> QED BY <1>7, <2>1
<1>10. DOMAIN drift' = 1..Len(drift) + Cardinality(Differing)
  BY <1>9, LenProperties
<1>11. ASSUME NEW n \in DOMAIN drift', n \notin DOMAIN drift
       PROVE  \E s \in ItemsOf(pulled) : drift'[n] = Opened(s)
  <2>1. n - Len(drift) \in 1..Cardinality(Differing) /\ drift'[n] = new[n - Len(drift)]
    BY <1>2, <1>8, <1>9, <1>10, <1>11
  <2> QED BY <1>4, <2>1
<1>12. Len(drift') <= MaxDrifts
  BY <1>9 DEF Detect
<1>13. ASSUME NEW n \in DOMAIN drift PROVE drift'[n] = drift[n] /\ n \in DOMAIN drift'
  <2>1. n \in 1..Len(drift) + Cardinality(Differing) /\ n <= Len(drift)
    BY <1>2, <1>8
  <2> QED BY <1>9, <1>10, <2>1
<1> QED BY <1>9, <1>11, <1>12, <1>13

LEMMA DetectTyped ==
    ASSUME TypeOK, Detect
    PROVE  TypeOK'
<1>1. \A s \in ItemsOf(pulled) : Checked(s) \in IndexRow
  <2> TAKE s \in ItemsOf(pulled)
  <2>1. s \in Skus /\ pulled[s] # None /\ pulled \in Contents
    BY DEF ItemsOf, Detect, TypeOK
  <2>2. pulled[s] \in Versions /\ index[s] \in IndexRow
    BY <2>1, PairsOf, IndexRows
  <2> QED BY <2>2, IndexRows DEF Checked, IndexRow
<1>2. index' \in [Skus -> IndexRow]
  BY <1>1, IndexRows DEF Detect
<1> QED BY <1>2, DetectRows DEF Detect, TypeOK, CatalogTypeOK

LEMMA ResolutionTyped ==
    ASSUME TypeOK, Resolution
    PROVE  TypeOK'
<1>1. PICK n \in OpenRows : KeepLocal(n) \/ AcceptRemote(n) \/ Reconcile(n)
  BY DEF Resolution
<1>2. n \in DOMAIN drift /\ drift[n] \in DriftRow /\ drift \in Seq(DriftRow)
  BY Rows DEF OpenRows, TypeOK, CatalogTypeOK
<1>3. drift[n].sku \in Skus /\ drift[n].remote \in Versions
  BY <1>2 DEF DriftRow
<1>4. UNCHANGED <<remote, shown, push, pulled>>
  BY DEF Resolution
<1>5. CASE KeepLocal(n)
  <2>1. drift' \in Seq(DriftRow) /\ Len(drift') <= MaxDrifts
    BY <1>2, <1>5, ResolveRows, DriftTyped DEF KeepLocal
  <2> QED BY <1>4, <1>5, <2>1 DEF KeepLocal, TypeOK, CatalogTypeOK
<1>6. CASE AcceptRemote(n)
  <2>1. drift' \in Seq(DriftRow) /\ Len(drift') <= MaxDrifts
    BY <1>2, <1>6, ResolveRows, DriftTyped DEF AcceptRemote, TypeOK, CatalogTypeOK
  <2>2. file' \in Contents
    BY <1>3, <1>6 DEF AcceptRemote, TypeOK, CatalogTypeOK, Contents
  <2>3. index' \in [Skus -> IndexRow]
    BY <1>3, <1>6, IndexRows DEF AcceptRemote, TypeOK, CatalogTypeOK
  <2>4. committed' \subseteq Skus \X Versions
    BY <1>3, <1>6 DEF AcceptRemote, TypeOK, CatalogTypeOK
  <2>5. faults' \in 0..MaxFaults
    BY <1>6, FaultCounted DEF AcceptRemote, TypeOK
  <2>6. cset' = cset
    BY <1>6 DEF AcceptRemote
  <2> QED BY <1>4, <2>1, <2>2, <2>3, <2>4, <2>5, <2>6 DEF TypeOK, CatalogTypeOK
<1>7. CASE Reconcile(n)
  <2>1. PICK c \in Sets :
            /\ cset' = Drafted(c, Only({drift[n].sku}, [s \in Skus |-> drift[n].remote]))
            /\ drift' = [drift EXCEPT ![n].cs = c, ![n].st = "in_reconcile"]
            /\ UNCHANGED <<file, index, committed, faults>>
    BY <1>7 DEF Reconcile
  <2>2. cset' \in [Sets -> ChangeSet]
    BY <1>3, <2>1, ContentsClosed, DraftedTyped
  <2>3. drift' \in [1..Len(drift) -> DriftRow]
    BY <1>2, <2>1, Rows DEF DriftRow
  <2>4. drift' \in Seq(DriftRow) /\ Len(drift') <= MaxDrifts
    BY <2>3, DriftTyped
  <2> QED BY <1>4, <2>1, <2>2, <2>4 DEF TypeOK, CatalogTypeOK
<1> QED BY <1>1, <1>5, <1>6, <1>7

LEMMA BulkTyped ==
    ASSUME TypeOK, BulkResolve
    PROVE  TypeOK'
<1>1. Accepted \in Contents /\ file \in Contents
  BY AcceptedContents DEF TypeOK, CatalogTypeOK
<1>2. file' \in Contents
  BY <1>1, ContentsClosed DEF BulkResolve
<1>3. index' \in [Skus -> IndexRow]
  <2>1. \A s \in Skus : Accepted[s] # None => Synced("content", Accepted[s]) \in IndexRow
    BY <1>1, PairsOf, IndexRows
  <2> QED BY <2>1, IndexRows DEF BulkResolve
<1>4. drift' \in Seq(DriftRow) /\ Len(drift') <= MaxDrifts
  BY AcceptedRows, DriftTyped DEF BulkResolve
<1>5. committed' \subseteq Skus \X Versions
  BY <1>1, PairsOf DEF BulkResolve, TypeOK, CatalogTypeOK
<1>6. faults' \in 0..MaxFaults
  BY FaultCounted DEF BulkResolve, TypeOK
<1> QED BY <1>2, <1>3, <1>4, <1>5, <1>6 DEF BulkResolve, TypeOK, CatalogTypeOK

LEMMA SyncTyped ==
    ASSUME TypeOK, NEW c \in Sets, PushStart(c) \/ Upload(c) \/ PushSucceeds(c) \/ PushFails(c)
    PROVE  TypeOK'
<1>1. /\ push[c] \in Job /\ push[c].items \in Contents
      /\ cset[c] \in ChangeSet /\ cset[c].draft \in Contents /\ Idle \in Job
  BY ContentsClosed DEF TypeOK, CatalogTypeOK, ChangeSet, Job, Idle
<1>2. push' \in [Sets -> Job]
  <2>1. [step |-> "preflight", items |-> cset[c].draft] \in Job
    BY <1>1 DEF Job
  <2>2. [push EXCEPT ![c].step = "applied"] \in [Sets -> Job]
    BY DEF Job, TypeOK
  <2> QED BY <1>1, <2>1, <2>2 DEF PushStart, Upload, PushSucceeds, PushFails, TypeOK
<1>3. cset' \in [Sets -> ChangeSet]
  <2>1. [cset EXCEPT ![c].job = TRUE] \in [Sets -> ChangeSet]
    BY DEF TypeOK, CatalogTypeOK, ChangeSet
  <2> QED BY <2>1 DEF PushStart, Upload, PushSucceeds, PushFails, catalog, TypeOK, CatalogTypeOK
<1>4. index' \in [Skus -> IndexRow]
  <2>1. MarkedSynced(c) \in [Skus -> IndexRow]
    BY <1>1, PairsOf, IndexRows DEF MarkedSynced
  <2> QED BY <2>1 DEF PushStart, Upload, PushSucceeds, PushFails, catalog, TypeOK, CatalogTypeOK
<1>5. remote' \in Contents /\ shown' \subseteq Skus \X Versions
  <2>1. Over(push[c].items, remote) \in Contents /\ Pairs(push[c].items) \subseteq Skus \X Versions
    BY <1>1, ContentsClosed, PairsOf DEF TypeOK, CatalogTypeOK
  <2>2. \/ UNCHANGED <<remote, shown>>
        \/ remote' = Over(push[c].items, remote) /\ shown' = shown \cup Pairs(push[c].items)
    BY DEF PushStart, Upload, PushSucceeds, PushFails, catalog
  <2> QED BY <2>1, <2>2 DEF TypeOK, CatalogTypeOK
<1>6. UNCHANGED <<file, drift, committed, pulled, faults>>
  BY DEF PushStart, Upload, PushSucceeds, PushFails, catalog
<1> QED BY <1>2, <1>3, <1>4, <1>5, <1>6 DEF TypeOK, CatalogTypeOK

LEMMA FullReconcileTyped ==
    ASSUME TypeOK, FullReconcile
    PROVE  TypeOK'
<1>1. index' \in [Skus -> IndexRow]
  BY DEF FullReconcile, IndexRow
<1>2. faults' \in 0..MaxFaults
  BY FaultCounted DEF FullReconcile, TypeOK
<1> QED BY <1>1, <1>2 DEF FullReconcile, TypeOK, CatalogTypeOK

LEMMA CrashTyped ==
    ASSUME TypeOK, Crash
    PROVE  TypeOK'
<1>1. faults' \in 0..MaxFaults
  BY FaultCounted DEF Crash, TypeOK
<1> QED BY <1>1, EndedProcess DEF Crash, TypeOK, CatalogTypeOK, catalog

\* The steps of Next, as the lemmas take them.
LEMMA Steps ==
    ASSUME [Next]_vars
    PROVE  \/ Edit \/ Pull \/ Detect \/ BulkResolve \/ Resolution \/ FullReconcile \/ Crash
           \/ \E c \in Sets : Approve(c) \/ CommitFails(c) \/ ApproveCut(c)
           \/ \E c \in Sets : Discard(c) \/ DiscardCut(c)
           \/ \E c \in Sets : PushStart(c) \/ Upload(c) \/ PushSucceeds(c) \/ PushFails(c)
           \/ \E s \in Skus, v \in Versions : RemoteEdit(s, v)
           \/ UNCHANGED vars
BY DEF Next, Approval, Disposal, Sync

\* The catalog keeps its types: every failure of an approval, a discard or a
\* sync leaves rows, files and sets of the kinds the code can read again.
THEOREM ShopSiteTypeOK == Spec => []TypeOK
<1>1. Init => TypeOK
  <2> SUFFICES ASSUME Init PROVE TypeOK
    OBVIOUS
  <2>1. [s \in Skus |-> Base] \in Contents /\ Nothing \in Contents
    BY CatalogAssumption, ContentsClosed DEF Contents
  <2>2. file \in Contents
    BY <2>1, ContentsClosed, CatalogAssumption DEF Init
  <2>3. index \in [Skus -> IndexRow]
    BY CatalogAssumption DEF Init, IndexRow, Synced, Hash
  <2>4. cset \in [Sets -> ChangeSet]
    BY <2>1 DEF Init, ChangeSet
  <2>5. drift \in Seq(DriftRow) /\ Len(drift) <= MaxDrifts
    BY EmptySeq, CatalogAssumption DEF Init
  <2>6. Pairs(file) \subseteq Skus \X Versions
    BY <2>2, PairsOf
  <2>7. push \in [Sets -> Job]
    BY <2>1 DEF Init, Idle, Job
  <2>8. CatalogTypeOK
    BY <2>2, <2>3, <2>4, <2>5, <2>6 DEF Init, CatalogTypeOK
  <2>9. pulled \in Contents \cup {None} /\ faults \in 0..MaxFaults
    BY FaultAssumption DEF Init
  <2> QED BY <2>7, <2>8, <2>9 DEF TypeOK
<1>2. TypeOK /\ [Next]_vars => TypeOK'
  <2> SUFFICES ASSUME TypeOK, [Next]_vars PROVE TypeOK'
    OBVIOUS
  <2>1. UNCHANGED vars => TypeOK'
    BY DEF vars, catalog, TypeOK, CatalogTypeOK
  <2> QED BY <2>1, Steps, EditTyped, ApprovalTyped, DisposalTyped, RemoteEditTyped, PullTyped,
             DetectTyped, ResolutionTyped, BulkTyped, SyncTyped, FullReconcileTyped, CrashTyped
<1> QED BY <1>1, <1>2, PTL DEF Spec

-----------------------------------------------------------------------------
(* Whatever is uploaded, Git has held.                                     *)

\* What waits to be pushed, and what is being pushed, Git has held.
CommitInv ==
    /\ \A c \in Sets : cset[c].st = "approved" => Pairs(cset[c].draft) \subseteq committed
    /\ \A c \in Sets : push[c].step # "none" => Pairs(push[c].items) \subseteq committed

\* An approval commits every item of its set before the set is approved,
\* unless it goes on after an item has failed.
LEMMA ApprovalCommits ==
    ASSUME TypeOK, "item" \notin Faults, NEW c \in Sets, Approve(c) \/ CommitFails(c) \/ ApproveCut(c)
    PROVE  /\ committed \subseteq committed'
           /\ push' = push \/ push' = [d \in Sets |-> Idle]
           /\ \/ cset' = cset
              \/ /\ cset' = [cset EXCEPT ![c].st = "approved"]
                 /\ Pairs(cset[c].draft) \subseteq committed'
<1> DEFINE draft == cset[c].draft
<1>1. draft \in Contents /\ file \in Contents
  BY DEF TypeOK, CatalogTypeOK, ChangeSet
<1>2. ASSUME Wrote(c, ItemsOf(draft)) PROVE Pairs(draft) \subseteq Pairs(file')
  <2>1. Only(ItemsOf(draft), draft) = draft
    BY <1>1 DEF Only, ItemsOf, Contents
  <2> QED BY <1>1, <1>2, <2>1, PairsOf DEF Wrote
<1>3. CASE Approve(c)
  <2>1. Wrote(c, ItemsOf(draft))
    BY <1>3 DEF Approve, Fault
  <2> QED BY <1>2, <1>3, <2>1 DEF Approve, Commit
<1>4. CASE CommitFails(c)
  BY <1>4 DEF CommitFails
<1>5. CASE ApproveCut(c)
  BY <1>2, <1>5 DEF ApproveCut, Commit, ProcessEnds
<1> QED BY <1>3, <1>4, <1>5

LEMMA CommitInvStep ==
    ASSUME TypeOK, CommitInv, "item" \notin Faults, [Next]_vars
    PROVE  CommitInv'
<1> DEFINE Kept == /\ committed \subseteq committed'
                   /\ \A c \in Sets : cset'[c].st = "approved" => Pairs(cset'[c].draft) \subseteq committed'
                   /\ push' = push \/ push' = [d \in Sets |-> Idle]
<1>1. Kept => CommitInv'
  BY DEF CommitInv, Idle
<1>2. cset \in [Sets -> ChangeSet]
  BY DEF TypeOK, CatalogTypeOK
<1>3. CASE UNCHANGED <<cset, push>> /\ committed \subseteq committed'
  BY <1>3 DEF CommitInv
<1>4. CASE Edit
  <2>1. PICK c \in Sets, content \in Contents : cset' = Drafted(c, content)
    BY <1>4, ContentsClosed DEF Edit, Autosave, Promote
  <2>2. cset'[c].st = "draft" /\ \A d \in Sets : d # c => cset'[d] = cset[d]
    BY <1>2, <2>1 DEF Drafted, ChangeSet
  <2>3. UNCHANGED <<committed, push>>
    BY <1>4 DEF Edit, Autosave, Promote
  <2> QED BY <1>1, <2>2, <2>3 DEF CommitInv
<1>5. ASSUME NEW c \in Sets, Approve(c) \/ CommitFails(c) \/ ApproveCut(c) PROVE CommitInv'
  <2>1. \A d \in Sets : d # c => (cset' = cset \/ cset'[d] = cset[d])
    BY <1>2, <1>5, ApprovalCommits
  <2>2. cset' # cset => cset'[c].draft = cset[c].draft /\ Pairs(cset[c].draft) \subseteq committed'
    BY <1>2, <1>5, ApprovalCommits DEF ChangeSet
  <2> QED BY <1>1, <1>5, <2>1, <2>2, ApprovalCommits DEF CommitInv
<1>6. ASSUME NEW c \in Sets, Discard(c) \/ DiscardCut(c) PROVE CommitInv'
  <2>1. cset'[c].draft = Nothing /\ \A d \in Sets : d # c => cset'[d] = cset[d]
    BY <1>2, <1>6 DEF Discard, DiscardCut, Deleted, ChangeSet
  <2>2. committed' = committed /\ (push' = push \/ push' = [d \in Sets |-> Idle])
    BY <1>6 DEF Discard, DiscardCut, ProcessEnds
  <2> QED BY <1>1, <2>1, <2>2, PairsOf DEF CommitInv
<1>7. CASE Resolution
  <2>1. committed \subseteq committed' /\ push' = push
    BY <1>7 DEF Resolution, KeepLocal, AcceptRemote, Reconcile
  <2>2. CASE cset' = cset
    BY <1>1, <2>1, <2>2 DEF CommitInv
  <2>3. CASE cset' # cset
    <3>1. PICK c \in Sets : \E content : cset' = Drafted(c, content)
      BY <1>7, <2>3 DEF Resolution, KeepLocal, AcceptRemote, Reconcile
    <3>2. cset'[c].st = "draft" /\ \A d \in Sets : d # c => cset'[d] = cset[d]
      BY <1>2, <3>1 DEF Drafted, ChangeSet
    <3> QED BY <1>1, <2>1, <3>2 DEF CommitInv
  <2> QED BY <2>2, <2>3
<1>8. ASSUME NEW c \in Sets, PushStart(c) PROVE CommitInv'
  <2>1. /\ push'[c].items = cset[c].draft /\ cset[c].st = "approved"
        /\ \A d \in Sets : d # c => push'[d] = push[d]
        /\ \A d \in Sets : cset'[d].st = cset[d].st /\ cset'[d].draft = cset[d].draft
        /\ committed' = committed
    BY <1>2, <1>8 DEF PushStart, ChangeSet, TypeOK
  <2> QED BY <2>1 DEF CommitInv
<1>9. ASSUME NEW c \in Sets, Upload(c) \/ PushSucceeds(c) \/ PushFails(c) PROVE CommitInv'
  <2>1. /\ push'[c].step # "none" => push'[c].items = push[c].items /\ push[c].step # "none"
        /\ \A d \in Sets : d # c => push'[d] = push[d]
        /\ UNCHANGED <<cset, committed>>
    BY <1>9 DEF Upload, PushSucceeds, PushFails, Idle, Job, TypeOK, catalog
  <2> QED BY <2>1 DEF CommitInv
<1>10. CASE Crash
  BY <1>1, <1>10 DEF Crash, ProcessEnds, catalog, CommitInv
<1>11. \/ Pull \/ Detect \/ BulkResolve \/ FullReconcile \/ UNCHANGED vars
       \/ \E s \in Skus, v \in Versions : RemoteEdit(s, v)
       => UNCHANGED <<cset, push>> /\ committed \subseteq committed'
  BY DEF Pull, Detect, BulkResolve, FullReconcile, RemoteEdit, vars, catalog
<1> QED BY <1>3, <1>4, <1>5, <1>6, <1>7, <1>8, <1>9, <1>10, <1>11, Steps

\* Where an approval stops at the first item that fails, Git has held whatever
\* a sync uploads, however approvals, discards and syncs are cut short.
THEOREM UploadsAreCommitted ==
    ASSUME "item" \notin Faults
    PROVE  Spec => []UploadedWasCommitted
<1>1. Init => CommitInv
  BY DEF Init, CommitInv, Idle
<1>2. TypeOK /\ CommitInv /\ [Next]_vars => CommitInv'
  BY CommitInvStep
<1>3. CommitInv => UploadedWasCommitted
  BY DEF CommitInv, UploadedWasCommitted
<1> QED BY <1>1, <1>2, <1>3, ShopSiteTypeOK, PTL DEF Spec

-----------------------------------------------------------------------------
(* What the index calls synced, ShopSite has shown.                        *)

\* What may still reach the index as synced, ShopSite has shown.
ShownInv ==
    /\ Pairs(remote) \subseteq shown
    /\ pulled # None => Pairs(pulled) \subseteq shown
    /\ \A n \in DOMAIN drift : <<drift[n].sku, drift[n].remote>> \in shown
    /\ \A c \in Sets : push[c].step = "applied" => Pairs(push[c].items) \subseteq shown
    /\ SyncedWasShown

\* A row of the new drift has the product and the content of an old one.
RowsKept ==
    \A m \in DOMAIN drift' : \E n \in DOMAIN drift :
        drift'[m].sku = drift[n].sku /\ drift'[m].remote = drift[n].remote

LEMMA NextRow ==
    ASSUME TypeOK
    PROVE  \A m \in DOMAIN drift : m < Len(drift) => m + 1 \in DOMAIN drift
BY Rows

\* Every way the rows are rewritten keeps them so.
LEMMA RewrittenRowsKept ==
    ASSUME TypeOK
    PROVE  /\ drift' = drift => RowsKept
           /\ \A n \in DOMAIN drift, st \in {"kept_local", "accepted_remote"} : drift' = Resolve(n, st) => RowsKept
           /\ \A n \in DOMAIN drift, c \in Sets :
                 drift' = [drift EXCEPT ![n].cs = c, ![n].st = "in_reconcile"] => RowsKept
           /\ \A c \in Sets : drift' = LinkResolved(c) \/ drift' = Reopened(c) => RowsKept
           /\ drift' = [n \in DOMAIN drift |->
                  IF Clean(n) THEN [drift[n] EXCEPT !.st = "accepted_remote"] ELSE drift[n]] => RowsKept
<1> DEFINE Alike(a, b) == a.sku = b.sku /\ a.remote = b.remote
<1>1. \A n \in DOMAIN drift : drift[n] \in DriftRow
  BY Rows
<1>2. ASSUME NEW n \in DOMAIN drift, NEW st, NEW c
      PROVE  /\ Alike([drift[n] EXCEPT !.st = st], drift[n])
             /\ Alike([drift[n] EXCEPT !.cs = c, !.st = st], drift[n])
             /\ Alike([drift[n] EXCEPT !.st = st, !.cs = c], drift[n])
  BY <1>1 DEF DriftRow
<1>3. ASSUME NEW n \in DOMAIN drift, NEW row, Alike(row, drift[n]), drift' = [drift EXCEPT ![n] = row]
      PROVE  RowsKept
  <2> SUFFICES ASSUME NEW m \in DOMAIN drift'
               PROVE  \E k \in DOMAIN drift : Alike(drift'[m], drift[k])
    BY DEF RowsKept
  <2>1. m \in DOMAIN drift
    BY <1>3
  <2>2. drift'[m] = IF m = n THEN row ELSE drift[m]
    BY <1>3, <2>1
  <2>3. CASE m = n
    BY <1>3, <2>2, <2>3
  <2>4. CASE m # n
    BY <2>1, <2>2, <2>4
  <2> QED BY <2>3, <2>4
<1>4. ASSUME NEW n \in DOMAIN drift, NEW st \in {"kept_local", "accepted_remote"}, drift' = Resolve(n, st) PROVE RowsKept
  BY <1>2, <1>3, <1>4 DEF Resolve
<1>5. ASSUME NEW n \in DOMAIN drift, NEW c \in Sets,
             drift' = [drift EXCEPT ![n].cs = c, ![n].st = "in_reconcile"]
      PROVE  RowsKept
  <2>1. drift' = [drift EXCEPT ![n] = [drift[n] EXCEPT !.cs = c, !.st = "in_reconcile"]]
    BY <1>5
  <2>2. Alike([drift[n] EXCEPT !.cs = c, !.st = "in_reconcile"], drift[n])
    BY <1>2
  <2> HIDE DEF Alike
  <2> QED BY <1>3, <2>1, <2>2
<1>6. ASSUME NEW c \in Sets, drift' = LinkResolved(c) PROVE RowsKept
  BY <1>2, <1>6 DEF LinkResolved, RowsKept
<1>7. ASSUME NEW c \in Sets, drift' = Reopened(c), Waiting(c) # {} PROVE RowsKept
  <2>1. PICK n \in DOMAIN drift :
            drift' = DetectedLast(n, [drift[n] EXCEPT !.st = "open", !.cs = None])
    BY <1>7 DEF Reopened, Waiting
  <2> SUFFICES ASSUME NEW m \in DOMAIN drift'
               PROVE  \E k \in DOMAIN drift : Alike(drift'[m], drift[k])
    BY DEF RowsKept
  <2>2. m \in DOMAIN drift
    BY <2>1 DEF DetectedLast
  <2>3. CASE m < n
    BY <2>1, <2>2, <2>3 DEF DetectedLast
  <2>4. CASE ~(m < n) /\ m < Len(drift)
    <3>1. m + 1 \in DOMAIN drift
      BY <2>2, <2>4, NextRow
    <3> QED BY <2>1, <2>2, <2>4, <3>1 DEF DetectedLast
  <2>5. CASE ~(m < n) /\ ~(m < Len(drift))
    <3>1. drift'[m] = [drift[n] EXCEPT !.st = "open", !.cs = None]
      BY <2>1, <2>2, <2>5 DEF DetectedLast
    <3>2. drift[n] \in DriftRow
      BY <1>1
    <3>3. Alike(drift'[m], drift[n])
      BY <3>1, <3>2 DEF DriftRow
    <3> QED BY <3>3
  <2> QED BY <2>3, <2>4, <2>5
<1>8. ASSUME NEW c \in Sets, drift' = Reopened(c), Waiting(c) = {} PROVE RowsKept
  BY <1>8 DEF Reopened, RowsKept
<1>9. ASSUME drift' = [n \in DOMAIN drift |->
                  IF Clean(n) THEN [drift[n] EXCEPT !.st = "accepted_remote"] ELSE drift[n]]
      PROVE  RowsKept
  BY <1>2, <1>9 DEF RowsKept
<1> QED BY <1>4, <1>5, <1>6, <1>7, <1>8, <1>9 DEF RowsKept

\* A step that writes no row of the index as synced, shows more or as much, and
\* takes remote, pulled and jobs from what was shown.
LEMMA ShownStep ==
    ASSUME TypeOK, ShownInv, [Next]_vars
    PROVE  ShownInv'
<1>1. shown \subseteq shown'
  BY Steps DEF Edit, Autosave, Promote, Approve, CommitFails, ApproveCut, Discard, DiscardCut,
               RemoteEdit, Pull, Detect, Resolution, BulkResolve, PushStart, Upload, PushSucceeds,
               PushFails, FullReconcile, Crash, catalog, vars
<1>2. Pairs(remote') \subseteq shown'
  <2>1. ASSUME NEW s \in Skus, NEW v \in Versions, RemoteEdit(s, v) PROVE Pairs(remote') \subseteq shown'
    BY <2>1 DEF RemoteEdit, Pairs, ItemsOf, ShownInv, TypeOK, CatalogTypeOK, Contents
  <2>2. ASSUME NEW c \in Sets, Upload(c) PROVE Pairs(remote') \subseteq shown'
    <3>1. remote \in Contents /\ push[c].items \in Contents
      BY DEF TypeOK, CatalogTypeOK, Job
    <3> QED BY <2>2, <3>1, PairsOf DEF Upload, ShownInv
  <2>3. CASE UNCHANGED remote
    BY <1>1, <2>3 DEF ShownInv
  <2> QED BY <2>1, <2>2, <2>3, Steps
         DEF Edit, Autosave, Promote, Approve, CommitFails, ApproveCut, Discard, DiscardCut,
             Pull, Detect, Resolution, BulkResolve, PushStart, PushSucceeds,
             PushFails, FullReconcile, Crash, catalog, vars
<1>3. pulled' # None => Pairs(pulled') \subseteq shown'
  <2>1. pulled' \in {pulled, remote, None}
    BY Steps DEF Edit, Autosave, Promote, Approve, CommitFails, ApproveCut, Discard, DiscardCut,
                 RemoteEdit, Pull, Detect, Resolution, BulkResolve, PushStart, Upload, PushSucceeds,
                 PushFails, FullReconcile, Crash, ProcessEnds, vars
  <2> QED BY <1>1, <2>1 DEF ShownInv
<1>4. \A n \in DOMAIN drift' : <<drift'[n].sku, drift'[n].remote>> \in shown'
  <2>1. CASE RowsKept
    BY <1>1, <2>1 DEF RowsKept, ShownInv
  <2>2. CASE Detect
    <3>1. \A s \in ItemsOf(pulled) : <<s, pulled[s]>> \in shown
      BY <2>2 DEF Detect, ShownInv, Pairs
    <3>2. \A n \in DOMAIN drift' : n \in DOMAIN drift => drift'[n] = drift[n]
      BY <2>2, DetectRows
    <3>3. \A n \in DOMAIN drift' : n \in DOMAIN drift \/ \E s \in ItemsOf(pulled) : drift'[n] = Opened(s)
      BY <2>2, DetectRows
    <3>4. \A s \in ItemsOf(pulled) : Opened(s).sku = s /\ Opened(s).remote = pulled[s]
      BY DEF Opened
    <3> QED BY <1>1, <3>1, <3>2, <3>3, <3>4 DEF ShownInv
  <2>3. CASE Resolution
    <3>1. PICK n \in DOMAIN drift : KeepLocal(n) \/ AcceptRemote(n) \/ Reconcile(n)
      BY <2>3 DEF Resolution, OpenRows
    <3>2. CASE KeepLocal(n)
      BY <2>1, <3>2, RewrittenRowsKept DEF KeepLocal
    <3>3. CASE AcceptRemote(n)
      <4>1. drift' = drift \/ drift' = Resolve(n, "accepted_remote")
        BY <3>3 DEF AcceptRemote
      <4> QED BY <2>1, <4>1, RewrittenRowsKept
    <3>4. CASE Reconcile(n)
      <4>1. PICK c \in Sets : drift' = [drift EXCEPT ![n].cs = c, ![n].st = "in_reconcile"]
        BY <3>4 DEF Reconcile
      <4> QED BY <2>1, <4>1, RewrittenRowsKept
    <3> QED BY <3>1, <3>2, <3>3, <3>4
  <2>4. CASE BulkResolve
    BY <2>1, <2>4, RewrittenRowsKept DEF BulkResolve
  <2>5. ASSUME NEW c \in Sets, drift' \in {drift, LinkResolved(c), Reopened(c)} PROVE RowsKept
    BY <2>5, RewrittenRowsKept
  <2>6. CASE UNCHANGED drift
    BY <2>1, <2>6, RewrittenRowsKept
  <2>7. \A c \in Sets : Approve(c) \/ CommitFails(c) \/ ApproveCut(c) \/ Discard(c) \/ DiscardCut(c)
            => drift' \in {drift, LinkResolved(c), Reopened(c)}
    BY DEF Approve, CommitFails, ApproveCut, Discard, DiscardCut, Relinked
  <2>8. \/ Edit \/ Pull \/ FullReconcile \/ Crash \/ UNCHANGED vars
        \/ \E c \in Sets : PushStart(c) \/ Upload(c) \/ PushSucceeds(c) \/ PushFails(c)
        \/ \E s \in Skus, v \in Versions : RemoteEdit(s, v)
        => UNCHANGED drift
    BY DEF Edit, Autosave, Promote, Pull, RemoteEdit, PushStart, Upload, PushSucceeds, PushFails,
           FullReconcile, Crash, catalog, vars
  <2> QED BY <2>1, <2>2, <2>3, <2>4, <2>5, <2>6, <2>7, <2>8, Steps
<1>5. \A c \in Sets : push'[c].step = "applied" => Pairs(push'[c].items) \subseteq shown'
  <2> SUFFICES ASSUME NEW c \in Sets, push'[c].step = "applied"
               PROVE  Pairs(push'[c].items) \subseteq shown'
    OBVIOUS
  <2>1. push \in [Sets -> Job]
    BY DEF TypeOK
  <2>2. CASE push'[c] = push[c]
    BY <1>1, <2>2 DEF ShownInv
  <2>3. CASE Upload(c)
    BY <2>1, <2>3 DEF Upload, Job
  <2>4. ASSUME NEW d \in Sets, PushStart(d) \/ Upload(d) \/ PushSucceeds(d) \/ PushFails(d), d # c
        PROVE  push'[c] = push[c]
    BY <2>1, <2>4 DEF PushStart, Upload, PushSucceeds, PushFails
  <2>5. ~(PushStart(c) \/ PushSucceeds(c) \/ PushFails(c))
    BY <2>1 DEF PushStart, PushSucceeds, PushFails, Idle
  <2>6. ASSUME NEW d \in Sets, Approve(d) \/ CommitFails(d) \/ ApproveCut(d) \/ Discard(d) \/ DiscardCut(d)
        PROVE  push'[c] = push[c]
    BY <2>6 DEF Approve, CommitFails, ApproveCut, Discard, DiscardCut, ProcessEnds, Idle
  <2>7. \/ Edit \/ Pull \/ Detect \/ BulkResolve \/ Resolution \/ FullReconcile \/ UNCHANGED vars
        \/ \E s \in Skus, v \in Versions : RemoteEdit(s, v)
        => push'[c] = push[c]
    BY DEF Edit, Autosave, Promote, RemoteEdit, Pull, Detect, Resolution, BulkResolve, FullReconcile, vars
  <2>8. ~Crash
    BY DEF Crash, ProcessEnds, Idle
  <2> QED BY <2>2, <2>3, <2>4, <2>5, <2>6, <2>7, <2>8, Steps
<1>6. SyncedWasShown'
  <2> SUFFICES ASSUME NEW s \in Skus, index'[s].st = "synced"
               PROVE  <<s, index'[s].hash.of>> \in shown'
    BY DEF SyncedWasShown
  <2> DEFINE Known == index'[s] = index[s]
                      \/ \E kind \in {"file", "content"} : \E v : index'[s] = Synced(kind, v) /\ <<s, v>> \in shown
  <2>1. Known => <<s, index'[s].hash.of>> \in shown'
    <3>1. CASE index'[s] = index[s]
      BY <1>1, <3>1 DEF ShownInv, SyncedWasShown
    <3>2. ASSUME NEW kind \in {"file", "content"}, NEW v, index'[s] = Synced(kind, v), <<s, v>> \in shown
          PROVE  <<s, index'[s].hash.of>> \in shown'
      <4>1. index'[s].hash.of = v
        BY <3>2 DEF Synced
      <4> QED BY <1>1, <3>2, <4>1
    <3> QED BY <3>1, <3>2
  <2>2. ASSUME NEW S, index' = NotSynced(S) PROVE Known
    BY <2>2 DEF NotSynced, TypeOK, CatalogTypeOK, IndexRow
  <2>3. CASE Detect
    <3>1. s \in ItemsOf(pulled) => <<s, pulled[s]>> \in shown
      BY <2>3 DEF Detect, ShownInv, Pairs
    <3>2. index[s] \in IndexRow
      BY IndexRows
    <3> QED BY <2>1, <2>3, <3>1, <3>2 DEF Detect, Checked, IndexRow
  <2>4. CASE Resolution
    <3>1. PICK n \in DOMAIN drift : KeepLocal(n) \/ AcceptRemote(n) \/ Reconcile(n)
      BY <2>4 DEF Resolution, OpenRows
    <3>2. <<drift[n].sku, drift[n].remote>> \in shown
      BY DEF ShownInv
    <3> QED BY <2>1, <3>1, <3>2 DEF KeepLocal, AcceptRemote, Reconcile, TypeOK, CatalogTypeOK
  <2>5. CASE BulkResolve
    <3>1. Accepted[s] # None => <<s, Accepted[s]>> \in shown
      BY AcceptedContents DEF ShownInv
    <3> QED BY <2>1, <2>5, <3>1 DEF BulkResolve
  <2>6. ASSUME NEW c \in Sets, PushSucceeds(c) PROVE Known
    <3>1. push[c] \in Job /\ push[c].items \in Contents
      BY DEF TypeOK, Job
    <3>2. push[c].items[s] # None => <<s, push[c].items[s]>> \in shown
      BY <2>6, <3>1, PairsOf DEF PushSucceeds, ShownInv
    <3> QED BY <2>6, <3>2 DEF PushSucceeds, MarkedSynced
  <2>7. ~FullReconcile
    BY DEF FullReconcile
  <2>8. ASSUME NEW c \in Sets, Approve(c) \/ CommitFails(c) \/ ApproveCut(c) PROVE Known
    BY <2>2, <2>8 DEF Approve, CommitFails, ApproveCut, Wrote
  <2>9. \/ Edit \/ Pull \/ Crash \/ UNCHANGED vars
        \/ \E c \in Sets : Discard(c) \/ DiscardCut(c)
        \/ \E c \in Sets : PushStart(c) \/ Upload(c) \/ PushFails(c)
        \/ \E t \in Skus, v \in Versions : RemoteEdit(t, v)
        => Known
    BY DEF Edit, Autosave, Promote, Pull, RemoteEdit, Discard, DiscardCut, PushStart, Upload,
           PushFails, Crash, catalog, vars
  <2> QED BY <2>1, <2>3, <2>4, <2>5, <2>6, <2>7, <2>8, <2>9, Steps
<1> QED BY <1>2, <1>3, <1>4, <1>5, <1>6 DEF ShownInv

\* No lost answer, stale fetch or drift resolution records a sync that never was.
THEOREM SyncedIsShown == Spec => []SyncedWasShown
<1>1. Init => ShownInv
  <2> SUFFICES ASSUME Init PROVE ShownInv
    OBVIOUS
  <2>1. DOMAIN drift = {}
    BY DEF Init
  <2>2. Pairs(remote) \subseteq shown /\ pulled = None /\ \A c \in Sets : push[c].step = "none"
    BY DEF Init, Idle
  <2>3. ASSUME NEW s \in Skus, index[s].st = "synced" PROVE <<s, index[s].hash.of>> \in shown
    <3>1. s \in Stocked /\ index[s].hash.of = Base
      BY <2>3 DEF Init, Synced
    <3>2. s \in ItemsOf(file) /\ file[s] = Base
      BY <3>1, CatalogAssumption DEF Init, ItemsOf, Only
    <3> QED BY <3>1, <3>2 DEF Init, Pairs
  <2> QED BY <2>1, <2>2, <2>3 DEF ShownInv, SyncedWasShown
<1>2. TypeOK /\ ShownInv /\ [Next]_vars => ShownInv'
  BY ShownStep
<1>3. ShownInv => SyncedWasShown
  BY DEF ShownInv
<1> QED BY <1>1, <1>2, <1>3, ShopSiteTypeOK, PTL DEF Spec

-----------------------------------------------------------------------------
(* A row in reconciliation has its draft.                                  *)

\* No draft is the reconciliation of two rows, or discarding it would leave one behind.
ReconcileInv ==
    /\ ReconcileHasDraft
    /\ \A m, n \in DOMAIN drift :
          drift[m].st = "in_reconcile" /\ drift[n].st = "in_reconcile" /\ drift[m].cs = drift[n].cs => m = n

\* A step that puts no row in reconciliation and takes no draft from one.
LEMMA RowsStay ==
    ASSUME ReconcileInv,
           \A n \in DOMAIN drift' : drift'[n].st = "in_reconcile" =>
               /\ n \in DOMAIN drift /\ drift[n].st = "in_reconcile" /\ drift'[n].cs = drift[n].cs
               /\ drift'[n].cs \in Drafts'
    PROVE  ReconcileInv'
BY DEF ReconcileInv, ReconcileHasDraft

LEMMA SameRows ==
    ASSUME ReconcileInv, UNCHANGED drift, Drafts \subseteq Drafts'
    PROVE  ReconcileInv'
BY RowsStay DEF ReconcileInv, ReconcileHasDraft

LEMMA ApprovalLinks ==
    ASSUME TypeOK, ReconcileInv, "torn" \notin Faults, NEW c \in Sets,
           Approve(c) \/ CommitFails(c) \/ ApproveCut(c)
    PROVE  ReconcileInv'
<1>1. CASE Approve(c)
  <2>1. \A d \in Drafts : d # c => d \in Drafts'
    BY <1>1 DEF Approve, Drafts, TypeOK, CatalogTypeOK
  <2>2. ASSUME NEW n \in DOMAIN drift', drift'[n].st = "in_reconcile"
        PROVE  n \in DOMAIN drift /\ drift[n].cs # c /\ drift'[n] = drift[n]
    <3>1. n \in DOMAIN drift /\ drift[n] \in DriftRow
      BY <1>1, <2>2, Rows DEF Approve, LinkResolved
    <3>2. drift[n].cs = c => drift'[n].st = "resolved"
      BY <1>1, <3>1 DEF Approve, LinkResolved, DriftRow
    <3>3. drift[n].cs # c => drift'[n] = drift[n]
      BY <1>1, <3>1 DEF Approve, LinkResolved
    <3> QED BY <2>2, <3>1, <3>2, <3>3
  <2> QED BY <2>1, <2>2, RowsStay DEF ReconcileInv, ReconcileHasDraft
<1>2. CASE CommitFails(c)
  BY <1>2, SameRows DEF CommitFails, Drafts
<1>3. CASE ApproveCut(c)
  <2>1. UNCHANGED <<cset, drift>>
    BY <1>3 DEF ApproveCut, Fault
  <2> QED BY <2>1, SameRows DEF Drafts
<1> QED BY <1>1, <1>2, <1>3

LEMMA DiscardReopens ==
    ASSUME TypeOK, ReconcileInv, NEW c \in Sets, Discard(c), cset[c].st = "draft"
    PROVE  ReconcileInv'
<1>1. drift' = Reopened(c)
  BY DEF Discard, Relinked
<1>2. \A d \in Drafts : d # c => d \in Drafts'
  BY DEF Discard, Deleted, Drafts, TypeOK, CatalogTypeOK
<1>3. CASE Waiting(c) = {}
  <2>1. drift' = drift
    BY <1>1, <1>3 DEF Reopened
  <2>2. \A n \in DOMAIN drift : drift[n].st = "in_reconcile" => drift[n].cs # c
    BY <1>3 DEF Waiting
  <2> QED BY <1>2, <2>1, <2>2, RowsStay DEF ReconcileInv, ReconcileHasDraft
<1>4. CASE Waiting(c) # {}
  <2>1. PICK n \in Waiting(c) : drift' = DetectedLast(n, [drift[n] EXCEPT !.st = "open", !.cs = None])
    BY <1>1, <1>4 DEF Reopened
  <2>2. n \in DOMAIN drift /\ drift[n].st = "in_reconcile" /\ drift[n].cs = c /\ drift[n] \in DriftRow
    BY <2>1, Rows DEF Waiting
  <2> DEFINE from(m) == IF m < n THEN m ELSE m + 1
  <2>3. DOMAIN drift = 1..Len(drift) /\ Len(drift) \in Nat /\ DOMAIN drift' = DOMAIN drift
    BY <2>1, Rows DEF DetectedLast
  <2>4. ASSUME NEW m \in DOMAIN drift', drift'[m].st = "in_reconcile"
        PROVE  from(m) \in DOMAIN drift /\ from(m) # n /\ drift'[m] = drift[from(m)]
    <3>1. CASE m < n
      BY <2>1, <2>3, <3>1 DEF DetectedLast
    <3>2. CASE ~(m < n) /\ m < Len(drift)
      <4>1. m + 1 \in DOMAIN drift /\ m + 1 # n
        BY <2>2, <2>3, <3>2
      <4> QED BY <2>1, <2>3, <3>2, <4>1 DEF DetectedLast
    <3>3. CASE ~(m < n) /\ ~(m < Len(drift))
      <4>1. drift'[m] = [drift[n] EXCEPT !.st = "open", !.cs = None]
        BY <2>1, <2>3, <3>3 DEF DetectedLast
      <4> QED BY <2>2, <2>4, <4>1 DEF DriftRow
    <3> QED BY <3>1, <3>2, <3>3
  <2>5. ASSUME NEW m \in DOMAIN drift', drift'[m].st = "in_reconcile" PROVE drift'[m].cs \in Drafts'
    <3>1. drift[from(m)].cs # c
      BY <2>2, <2>4, <2>5 DEF ReconcileInv
    <3> QED BY <1>2, <2>4, <2>5, <3>1 DEF ReconcileInv, ReconcileHasDraft
  <2>6. ASSUME NEW m \in DOMAIN drift', NEW k \in DOMAIN drift',
               drift'[m].st = "in_reconcile", drift'[k].st = "in_reconcile", drift'[m].cs = drift'[k].cs
        PROVE  m = k
    <3>1. from(m) = from(k)
      BY <2>4, <2>6 DEF ReconcileInv
    <3> QED BY <2>2, <2>3, <3>1
  <2> QED BY <2>5, <2>6 DEF ReconcileInv, ReconcileHasDraft
<1> QED BY <1>3, <1>4

LEMMA DisposalLinks ==
    ASSUME TypeOK, ReconcileInv, "torn" \notin Faults, NEW c \in Sets, Discard(c) \/ DiscardCut(c)
    PROVE  ReconcileInv'
<1>1. CASE Discard(c) /\ cset[c].st # "draft"
  <2>1. UNCHANGED drift /\ Drafts \subseteq Drafts'
    BY <1>1 DEF Discard, Relinked, Deleted, Drafts, TypeOK, CatalogTypeOK
  <2> QED BY <2>1, SameRows
<1>2. CASE DiscardCut(c)
  <2>1. UNCHANGED drift /\ cset' = [cset EXCEPT ![c].draft = Nothing]
    BY <1>2 DEF DiscardCut, Fault
  <2>2. Drafts \subseteq Drafts'
    BY <2>1 DEF Drafts, TypeOK, CatalogTypeOK, ChangeSet
  <2> QED BY <2>1, <2>2, SameRows
<1> QED BY <1>1, <1>2, DiscardReopens

LEMMA ResolutionLinks ==
    ASSUME TypeOK, ReconcileInv, Resolution
    PROVE  ReconcileInv'
<1>1. PICK n \in OpenRows : KeepLocal(n) \/ AcceptRemote(n) \/ Reconcile(n)
  BY DEF Resolution
<1>2. n \in DOMAIN drift /\ drift[n].st = "open" /\ \A m \in DOMAIN drift : drift[m] \in DriftRow
  BY <1>1, Rows DEF OpenRows
<1>3. ASSUME NEW st \in {"kept_local", "accepted_remote"}, drift' = Resolve(n, st), UNCHANGED cset
      PROVE  ReconcileInv'
  <2>1. \A m \in DOMAIN drift' : drift'[m].st = "in_reconcile" => m \in DOMAIN drift /\ drift'[m] = drift[m]
    BY <1>2, <1>3 DEF Resolve, DriftRow
  <2> QED BY <1>3, <2>1, RowsStay DEF ReconcileInv, ReconcileHasDraft, Drafts
<1>4. CASE KeepLocal(n)
  BY <1>3, <1>4 DEF KeepLocal
<1>5. CASE AcceptRemote(n)
  BY <1>3, <1>5, SameRows DEF AcceptRemote, Drafts
<1>6. CASE Reconcile(n)
  <2>1. PICK c \in Sets : \E content :
            /\ Fresh(c)
            /\ cset' = Drafted(c, content)
            /\ drift' = [drift EXCEPT ![n].cs = c, ![n].st = "in_reconcile"]
    BY <1>6 DEF Reconcile
  <2>2. c \notin Drafts /\ c \in Drafts' /\ Drafts \subseteq Drafts'
    BY <2>1 DEF Fresh, Drafts, Drafted, TypeOK, CatalogTypeOK, ChangeSet
  <2>3. drift'[n].cs = c /\ DOMAIN drift' = DOMAIN drift /\ \A m \in DOMAIN drift : m # n => drift'[m] = drift[m]
    BY <1>2, <2>1 DEF DriftRow
  <2>4. \A m \in DOMAIN drift : m # n /\ drift'[m].st = "in_reconcile" => drift'[m].cs \in Drafts
    BY <2>3 DEF ReconcileInv, ReconcileHasDraft
  <2>5. ReconcileHasDraft'
    BY <2>2, <2>3, <2>4 DEF ReconcileHasDraft
  <2> QED BY <2>2, <2>3, <2>4, <2>5 DEF ReconcileInv
<1> QED BY <1>1, <1>4, <1>5, <1>6

LEMMA ReconcileStep ==
    ASSUME TypeOK, ReconcileInv, "torn" \notin Faults, [Next]_vars
    PROVE  ReconcileInv'
<1>1. CASE Edit
  <2>1. PICK c \in Sets : \E content : cset' = Drafted(c, content)
    BY <1>1 DEF Edit, Autosave, Promote
  <2>2. Drafts \subseteq Drafts'
    BY <2>1 DEF Drafted, Drafts, TypeOK, CatalogTypeOK, ChangeSet
  <2>3. UNCHANGED drift
    BY <1>1 DEF Edit, Autosave, Promote
  <2> QED BY <2>2, <2>3, SameRows
<1>2. CASE Detect
  <2>1. ASSUME NEW n \in DOMAIN drift', drift'[n].st = "in_reconcile"
        PROVE  n \in DOMAIN drift /\ drift'[n] = drift[n]
    BY <1>2, <2>1, DetectRows DEF Opened
  <2>2. Drafts' = Drafts
    BY <1>2 DEF Detect, Drafts
  <2> QED BY <2>1, <2>2, RowsStay DEF ReconcileInv, ReconcileHasDraft
<1>3. CASE BulkResolve
  <2>1. ASSUME NEW n \in DOMAIN drift', drift'[n].st = "in_reconcile"
        PROVE  n \in DOMAIN drift /\ drift'[n] = drift[n]
    <3>1. n \in DOMAIN drift /\ drift[n] \in DriftRow
      BY <1>3, <2>1, Rows DEF BulkResolve
    <3> QED BY <1>3, <2>1, <3>1 DEF BulkResolve, DriftRow
  <2>2. Drafts' = Drafts
    BY <1>3 DEF BulkResolve, Drafts
  <2> QED BY <2>1, <2>2, RowsStay DEF ReconcileInv, ReconcileHasDraft
<1>4. ASSUME NEW c \in Sets, PushStart(c) \/ Upload(c) \/ PushSucceeds(c) \/ PushFails(c)
      PROVE  ReconcileInv'
  <2>1. UNCHANGED drift
    BY <1>4 DEF PushStart, Upload, PushSucceeds, PushFails, catalog
  <2>2. cset' = cset \/ cset' = [cset EXCEPT ![c].job = TRUE]
    BY <1>4 DEF PushStart, Upload, PushSucceeds, PushFails, catalog
  <2>3. Drafts \subseteq Drafts'
    BY <2>2 DEF Drafts, TypeOK, CatalogTypeOK, ChangeSet
  <2> QED BY <2>1, <2>3, SameRows
<1>5. \/ Pull \/ FullReconcile \/ Crash \/ UNCHANGED vars
      \/ \E s \in Skus, v \in Versions : RemoteEdit(s, v)
      => UNCHANGED <<cset, drift>>
  BY DEF Pull, FullReconcile, Crash, RemoteEdit, vars, catalog
<1>6. UNCHANGED <<cset, drift>> => ReconcileInv'
  BY SameRows DEF Drafts
<1> QED BY <1>1, <1>2, <1>3, <1>4, <1>5, <1>6, Steps, ApprovalLinks, DisposalLinks, ResolutionLinks

\* Unless the process ends between the status of a set and the drift row linked
\* to it, a product blocked by a reconciliation has a draft to unblock it.
THEOREM ReconciliationsEnd ==
    ASSUME "torn" \notin Faults
    PROVE  Spec => []ReconcileHasDraft
<1>1. Init => ReconcileInv
  BY DEF Init, ReconcileInv, ReconcileHasDraft
<1>2. TypeOK /\ ReconcileInv /\ [Next]_vars => ReconcileInv'
  BY ReconcileStep
<1>3. ReconcileInv => ReconcileHasDraft
  BY DEF ReconcileInv
<1> QED BY <1>1, <1>2, <1>3, ShopSiteTypeOK, PTL DEF Spec
=============================================================================

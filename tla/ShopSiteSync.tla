---------------------------- MODULE ShopSiteSync ----------------------------
(***************************************************************************)
(* The catalog against ShopSite: a drift check compares what ShopSite has  *)
(* with the files and opens drift rows; an operator resolves them, one by  *)
(* one or in bulk; a direct sync uploads an approved change set and marks  *)
(* its products synced.  The check and the sync wait for ShopSite, and     *)
(* anything may happen to the catalog meanwhile.                           *)
(***************************************************************************)
EXTENDS ChangeSets

\* After the bootstrap, which records hashJson of what it pulled.
Init ==
    /\ file = Only(Stocked, [s \in Skus |-> Base])
    /\ index = [s \in Skus |-> IF s \in Stocked THEN Synced("file", Base) ELSE [st |-> "absent", hash |-> None]]
    /\ cset = [c \in Sets |-> [st |-> "unused", draft |-> Nothing, job |-> FALSE]]
    /\ drift = <<>>
    /\ remote = file
    /\ committed = Pairs(file) /\ shown = Pairs(file)
    /\ push = [c \in Sets |-> Idle]
    /\ pulled = None
    /\ faults = 0

-----------------------------------------------------------------------------
\* External: an edit in ShopSite's back office.
RemoteEdit(s, v) ==
    /\ Fault("edit")
    /\ v # remote[s]
    /\ remote' = [remote EXCEPT ![s] = v]
    /\ shown' = shown \cup {<<s, v>>}
    /\ UNCHANGED <<file, index, cset, drift, committed, push, pulled>>

\* POST /drift/check fetches the XML; detectDrift runs once it has come.
Pull ==
    /\ pulled = None
    /\ pulled' = remote
    /\ UNCHANGED <<catalog, push, faults>>

\* Has ShopSite's product changed from the version last synced?
RemoteChanged(s) == index[s].hash # [kind |-> "content", of |-> pulled[s]]

\* The products the check opens a drift row for.
Differing == {s \in ItemsOf(pulled) : file[s] # pulled[s] /\ RemoteChanged(s)}

Opened(s) == [sku |-> s, remote |-> pulled[s], cs |-> None, st |-> "open"]

Checked(s) ==
    IF index[s].st = "absent" THEN index[s]
    ELSE IF file[s] = pulled[s] THEN Synced("content", pulled[s])
    ELSE [index[s] EXCEPT !.st = IF RemoteChanged(s) THEN "drifted" ELSE "not_synced"]

\* The XML's products come in the order of their SKUs.
Detect ==
    /\ pulled # None
    /\ Len(drift) + Cardinality(Differing) <= MaxDrifts
    /\ \E xml \in [1..Cardinality(Differing) -> Differing] :
        /\ \A m, n \in DOMAIN xml : m < n => xml[m] < xml[n]
        /\ drift' = drift \o [n \in DOMAIN xml |-> Opened(xml[n])]
    /\ index' = [s \in Skus |-> IF s \in ItemsOf(pulled) THEN Checked(s) ELSE index[s]]
    /\ pulled' = None
    /\ UNCHANGED <<file, cset, remote, committed, shown, push, faults>>

-----------------------------------------------------------------------------
\* POST /drift/:id/resolve, of an open row.
KeepLocal(n) ==
    /\ drift' = Resolve(n, "kept_local")
    /\ UNCHANGED <<file, index, cset, committed, faults>>

\* acceptRemoteForDrift; when Git throws, the row is left open.
AcceptRemote(n) ==
    /\ file' = [file EXCEPT ![drift[n].sku] = drift[n].remote]
    /\ index' = [index EXCEPT ![drift[n].sku] = Synced("content", drift[n].remote)]
    /\ \/ /\ committed' = committed \cup {<<drift[n].sku, drift[n].remote>>}
          /\ drift' = Resolve(n, "accepted_remote")
          /\ UNCHANGED faults
       \/ Fault("git") /\ UNCHANGED <<committed, drift>>
    /\ UNCHANGED cset

\* A new draft with ShopSite's version; the row goes on blocking.
Reconcile(n) ==
    \E c \in Sets :
        /\ Fresh(c)
        /\ cset' = Drafted(c, Only({drift[n].sku}, [s \in Skus |-> drift[n].remote]))
        /\ drift' = [drift EXCEPT ![n].cs = c, ![n].st = "in_reconcile"]
        /\ UNCHANGED <<file, index, committed, faults>>

Resolution ==
    /\ \E n \in OpenRows : KeepLocal(n) \/ AcceptRemote(n) \/ Reconcile(n)
    /\ UNCHANGED <<remote, shown, push, pulled>>

\* POST /drift/bulk-resolve: the open rows it takes for unmodified products.
Clean(n) ==
    /\ n \in OpenRows
    /\ \A c \in Drafts : cset[c].draft[drift[n].sku] = None
    /\ index[drift[n].sku].st # "not_synced"

\* Of several rows of a product the oldest is written last.
WrittenLast(n) ==
    Clean(n) /\ \A m \in DOMAIN drift : Clean(m) /\ drift[m].sku = drift[n].sku => n <= m

Accepted ==
    [s \in Skus |->
        LET last == {n \in DOMAIN drift : WrittenLast(n) /\ drift[n].sku = s}
        IN  IF last = {} THEN None ELSE drift[CHOOSE n \in last : TRUE].remote]

BulkResolve ==
    /\ ItemsOf(Accepted) # {}
    /\ file' = Over(Accepted, file)
    /\ index' = [s \in Skus |-> IF Accepted[s] = None \/ index[s].st = "absent"
                                THEN index[s] ELSE Synced("content", Accepted[s])]
    /\ drift' = [n \in DOMAIN drift |-> IF Clean(n) THEN [drift[n] EXCEPT !.st = "accepted_remote"]
                                                    ELSE drift[n]]
    /\ \/ committed' = committed \cup Pairs(Accepted) /\ UNCHANGED faults
       \/ Fault("git") /\ UNCHANGED committed
    /\ UNCHANGED <<cset, remote, shown, push, pulled>>

-----------------------------------------------------------------------------
\* runDirectSync: its checks and its job, before anything is awaited.
PushStart(c) ==
    /\ push[c] = Idle
    /\ cset[c].st = "approved"
    /\ ItemsOf(cset[c].draft) # {}
    /\ \A s \in ItemsOf(cset[c].draft) : ~Blocking(s)
    /\ push' = [push EXCEPT ![c] = [step |-> "preflight", items |-> cset[c].draft]]
    /\ cset' = [cset EXCEPT ![c].job = TRUE]
    /\ UNCHANGED <<file, index, drift, remote, committed, shown, pulled, faults>>

\* External: ShopSite imports the upload and finalizes it.
Upload(c) ==
    /\ push[c].step = "preflight"
    /\ remote' = Over(push[c].items, remote)
    /\ shown' = shown \cup Pairs(push[c].items)
    /\ push' = [push EXCEPT ![c].step = "applied"]
    /\ UNCHANGED <<file, index, cset, drift, committed, pulled, faults>>

\* The products of the sync, marked with the hash of what was uploaded.
MarkedSynced(c) ==
    [s \in Skus |-> IF push[c].items[s] = None \/ index[s].st = "absent"
                    THEN index[s] ELSE Synced("file", push[c].items[s])]

\* Variant: the products are marked before ShopSite has answered.
PushBelieved(c) ==
    /\ push[c].step # "none"
    /\ index' = MarkedSynced(c)
    /\ push' = [push EXCEPT ![c] = Idle]
    /\ UNCHANGED <<file, cset, drift, remote, committed, shown, pulled, faults>>

PushSucceeds(c) ==
    /\ push[c].step = "applied"
    /\ index' = MarkedSynced(c)
    /\ push' = [push EXCEPT ![c] = Idle]
    /\ UNCHANGED <<file, cset, drift, remote, committed, shown, pulled, faults>>

\* A refusal, an error or a lost answer, before or after the import.
PushFails(c) ==
    /\ push[c].step # "none"
    /\ push' = [push EXCEPT ![c] = Idle]
    /\ UNCHANGED <<catalog, pulled, faults>>

\* POST /sync/full-reconcile: the index is rebuilt from the files.
FullReconcile ==
    /\ Fault("rebuild")
    /\ index' = [s \in Skus |-> [st |-> IF file[s] = None THEN "absent" ELSE "not_synced", hash |-> None]]
    /\ UNCHANGED <<file, cset, drift, remote, committed, shown, push, pulled>>

Crash ==
    /\ Fault("crash")
    /\ ProcessEnds
    /\ UNCHANGED catalog

Sync == \E c \in Sets : PushStart(c) \/ Upload(c) \/ PushSucceeds(c) \/ PushFails(c)

Next ==
    \/ Edit \/ Approval \/ Disposal
    \/ \E s \in Skus, v \in Versions : RemoteEdit(s, v)
    \/ Pull \/ Detect
    \/ BulkResolve \/ Resolution
    \/ Sync \/ FullReconcile
    \/ Crash

Spec == Init /\ [][Next]_vars

-----------------------------------------------------------------------------
TypeOK ==
    /\ CatalogTypeOK
    /\ push \in [Sets -> Job]
    /\ pulled \in Contents \cup {None}
    /\ faults \in 0..MaxFaults

\* Whatever a sync sends to ShopSite, Git has held: no failure of an approval
\* between its files, its commit and its status leaves a set that can be
\* pushed without its commit.  (change-set-service.ts: approveChangeSet)
UploadedWasCommitted ==
    \A c \in Sets : push[c].step = "applied" => Pairs(push[c].items) \subseteq committed

\* A product the index calls synced was once shown by ShopSite with the
\* content the index has the hash of: no lost answer, stale fetch or drift
\* resolution records a sync that never was.  (sync-routes.ts, drift.ts)
SyncedWasShown ==
    \A s \in Skus : index[s].st = "synced" => <<s, index[s].hash.of>> \in shown

\* A drift row in reconciliation has its draft, so that approving or
\* discarding it can still unblock the product.  (change-set-service.ts)
ReconcileHasDraft ==
    \A n \in DOMAIN drift : drift[n].st = "in_reconcile" => drift[n].cs \in Drafts

\* A bulk resolution writes over no local content that ShopSite has never had.
BulkKeepsUnpushed ==
    [][BulkResolve => \A s \in Skus : file'[s] # file[s] /\ file[s] # None => <<s, file[s]>> \in shown]_vars
=============================================================================

---------------------------- MODULE CatalogStore ----------------------------
(***************************************************************************)
(* The catalog of one workspace: the product files and what Git has held   *)
(* of them, the product index, the change sets, the remote drift rows, and *)
(* ShopSite.  A product's content is a version.  Two hashes are taken of   *)
(* one, hashJson of the whole product and computeContentHash of the part   *)
(* ShopSite knows; they never agree, so a stored hash is a version with    *)
(* its kind.                                                               *)
(***************************************************************************)
EXTENDS Integers, Sequences, FiniteSets

CONSTANTS
    Skus,       \* products, in the order of their SKUs
    Stocked,    \* those the bootstrap has brought from ShopSite
    Sets,       \* change sets, numbered in the order of their creation
    Versions,   \* contents a product may have
    Base,       \* the bootstrapped content
    MaxDrifts,  \* bound: drift rows
    None

ASSUME CatalogAssumption ==
    /\ Skus \subseteq Nat /\ IsFiniteSet(Skus) /\ Stocked \subseteq Skus
    /\ Sets \subseteq Nat /\ IsFiniteSet(Sets)
    /\ MaxDrifts \in Nat
    /\ Base \in Versions
    /\ None \notin Versions /\ None \notin Nat /\ None \notin [kind : {"file", "content"}, of : Versions]

Contents == [Skus -> Versions \cup {None}]
Nothing == [s \in Skus |-> None]

Hash == [kind : {"file", "content"}, of : Versions]

IndexRow == [st : {"absent", "synced", "not_synced", "drifted"},
             hash : Hash \cup {None}]       \* last_synced_remote_hash

DriftRow == [sku : Skus, remote : Versions, cs : Sets \cup {None},
             st : {"open", "in_reconcile", "kept_local", "accepted_remote", "resolved"}]

ChangeSet == [st : {"unused", "draft", "approved", "gone"},
              draft : Contents,             \* its items
              job : BOOLEAN]                \* a sync job references it

VARIABLES
    file,       \* products/<sku>.json
    index,      \* product_index
    cset,       \* change_sets with change_set_items
    drift,      \* remote_drift, in the order of detected_at
    remote,     \* what ShopSite has
    committed,  \* history: every <<sku, version>> Git has held
    shown       \* history: every <<sku, version>> ShopSite has had

catalog == <<file, index, cset, drift, remote, committed, shown>>

CatalogTypeOK ==
    /\ file \in Contents
    /\ index \in [Skus -> IndexRow]
    /\ cset \in [Sets -> ChangeSet]
    /\ drift \in Seq(DriftRow) /\ Len(drift) <= MaxDrifts
    /\ remote \in Contents
    /\ committed \subseteq Skus \X Versions
    /\ shown \subseteq Skus \X Versions

-----------------------------------------------------------------------------

Synced(kind, v) == [st |-> "synced", hash |-> [kind |-> kind, of |-> v]]

ItemsOf(content) == {s \in Skus : content[s] # None}
Pairs(content) == {<<s, content[s]>> : s \in ItemsOf(content)}

\* The contents c, over those of d.
Over(c, d) == [s \in Skus |-> IF c[s] # None THEN c[s] ELSE d[s]]
Only(S, c) == [s \in Skus |-> IF s \in S THEN c[s] ELSE None]

\* The index rows of written products: inserted, or updated with no word on the hash.
NotSynced(S) == [s \in Skus |-> IF s \in S THEN [index[s] EXCEPT !.st = "not_synced"] ELSE index[s]]

OpenRows == {n \in DOMAIN drift : drift[n].st = "open"}
Blocking(s) == \E n \in DOMAIN drift : drift[n].sku = s /\ drift[n].st \in {"open", "in_reconcile"}

Resolve(n, st) == [drift EXCEPT ![n].st = st]

\* findLinkedDrift and resolveDrift.
LinkResolved(c) ==
    [n \in DOMAIN drift |-> IF drift[n].cs = c THEN [drift[n] EXCEPT !.st = "resolved"] ELSE drift[n]]

\* The row n, as row and detected last.
DetectedLast(n, row) ==
    [m \in DOMAIN drift |->
        IF m < n THEN drift[m] ELSE IF m < Len(drift) THEN drift[m + 1] ELSE row]

\* reopenDriftForChangeSet: the row the set was to reconcile, detected anew.
Waiting(c) == {n \in DOMAIN drift : drift[n].cs = c /\ drift[n].st = "in_reconcile"}

\* Variant: reopened under a status of its own.
ReopenedApart(c) ==
    IF Waiting(c) = {} THEN drift
    ELSE LET n == CHOOSE n \in Waiting(c) : TRUE
         IN  DetectedLast(n, [drift[n] EXCEPT !.st = "reopened", !.cs = None])

Reopened(c) ==
    IF Waiting(c) = {} THEN drift
    ELSE LET n == CHOOSE n \in Waiting(c) : TRUE
         IN  DetectedLast(n, [drift[n] EXCEPT !.st = "open", !.cs = None])

\* findActiveChangeSet: the latest draft, if there is one.
Drafts == {c \in Sets : cset[c].st = "draft"}
Active(c) == c \in Drafts /\ \A d \in Drafts : d <= c

\* createChangeSet: the next one.
Fresh(c) == cset[c].st = "unused" /\ \A d \in Sets : cset[d].st = "unused" => c <= d

\* upsertChangeSetItem, in the set the caller has found or created.
Drafted(c, content) ==
    [cset EXCEPT ![c].st = "draft", ![c].draft = Over(content, @)]

\* git add and git commit: what the files hold, Git holds.
Commit(files) == committed' = committed \cup Pairs(files)
=============================================================================

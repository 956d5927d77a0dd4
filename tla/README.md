# Baystate CMS in TLA+

Baystate CMS takes product spreadsheets through an onboarding pipeline into a
catalogue kept in Git and synchronised with ShopSite.  It is a TypeScript
program on Bun with one SQLite database (synchronous driver, WAL,
`busy_timeout`), so every statement or `db.transaction` is atomic, the code
between two `await`s of one process is not interrupted by that process, and
several processes may work on one database.  This directory models, checks and
proves properties of the four protocols of it where most can go wrong: the
Curation of a product family as one *cohort run* (ADR 0013), the per-item
pipeline from Sourcing to Review under operators' moves, the change sets between
files, Git, index and ShopSite, and the leased occurrences of event triggers.

## 1. Inventory

| component | state it keeps | operations and interactions | hard behaviours |
|---|---|---|---|
| Cohort runs (`db/repositories/classification-cohort-run-repo.ts`) | parent run rows: status, owner, lease, frozen hashes, outputs | claim, heartbeat, freeze, complete, supersede, reclaim, re-run; called by worker, freeze engine, executor, routes | compare-and-set on a lease, several processes |
| Freeze engine (`onboarding/cohort-curator.ts`) | captured evidence and authority (memory), child runs, OCR in the items | walks members awaiting OCR and ranking calls, then verifies and freezes in one transaction | state read before an await, interrupted freezes |
| Executor (same file) | projection commits, shared outputs | title and page call, member pipelines, brand check, terminal write | resume after a crash, ownership lost during a call |
| Lease keeper (`cohort-lease-keeper.ts`) | renewal timer, lost flag | renew on a timer, assert before a write | late timers, a suspended process |
| Worker (`job-queue.ts`) | running map, concurrency | poll: sweeps, stage legs, cohort leg, candidate refresh | claims against rows a task still runs for, reclaim against a live owner, limits, pauses |
| Items (`onboarding-item-repo.ts`) | stage, status, claim, source, data, retries | claimed and marked by the legs, moved by the sweeps and the routes; every write by id | a task that ends on an item moved under it, stranded and doubly owned items |
| Sourcing (`onboarding/sourcing/`, `onboarding-evidence-repo.ts`) | generations, attempts, conflicts | lookup, reconciliation, route; superseded by reset and retry | a stale generation's answer, an open conflict |
| Candidate cohorts (`curation-cohort-service.ts`, `curation-cohort-repo.ts`) | candidate rows and members | formed, ready, back to waiting, superseded when the membership changes | a family regrouped under its run |
| Review (`review-completion-gate.ts`, `onboarding-review-repo.ts`, routes) | durable review and approval of an item | advance, review-complete, approve, invalidate after an edit | the item is re-curated meanwhile |
| Change sets (`change-set-service.ts`, `git/`) | drafts, product files, index, Git history | autosave, promotion, approve, discard | files, index, history and status written apart |
| ShopSite (`shopsite/drift.ts`, `drift-routes.ts`, `sync-routes.ts`) | drift rows, index hashes, sync jobs | drift check, resolution, bulk resolution, direct sync, full reconcile | lost answers, state compared across an await |
| Triggers (`store-manager-trigger-repo.ts`, `-trigger-service.ts`, `-event-worker.ts`) | occurrences, leases, source cursors | observe, claim, dispatch, requeue, expire, cancel, run now | a dispatch longer than its lease, a tick cut between two writes |
| Schedules, playbooks, bulk review (`store-manager/`) | schedules, playbook runs | leased dispatch, steps with approvals | as triggers |
| Classification configuration (`classification/config-store.ts`) | versioned files | lock, compare-and-set | none in use: activation throws while the taxonomy is frozen |
| AI routing (`ai/`, `vlm-circuit-breaker.ts`) | health, breaker | calls, probes | late answers |
| Retrieval, extraction, crawler, client, benchmarks | mostly none | I/O and data transformation | outside a model checker's reach |

`PROJECT.json` lists every component with its status, and under `hazards` what
is hard to test, at its line; the properties below are aimed at that list.

What must be true of the modelled part.  *Cohorts*: one current run per
candidate row; a claim taken away only after its lease; nothing written under a
lost claim; what is executed was frozen at one instant under one authority; a
member committed once, atomically; supersession that leaves no residue;
decisions that stay; every claimed run decided in the end.  *Items*: no claim
without a task at it; superseded or disputed evidence never routes an item; data
that reaches Review stems from the item's present source; every item comes to
rest.  *Catalog*: what is uploaded was committed; what is called synced was
shown; a product blocked by a reconciliation has a draft that can unblock it;
unpushed local work is not overwritten in bulk.  *Triggers*: nothing observed is
lost, nothing ends twice, everything ends.

## 2. Modules

```
CohortStore    rows, statements' guards and writes
  CohortWorker   claim leg of the poll, tasks, crashes, clock
    CohortFreeze   freezeCohortForExecution
      CohortExecute  processCohort
        CohortReview   continuation, review, approval
          CohortRun      operators; Next, Spec, FairSpec
            CohortSafety   the properties, refinement of CohortLease
              MCCohortRun    small instances for TLC
              CohortClaims   history of claims, properties that need it
                MCCohortClaims   the same instances
                CohortClaimsProofs
CohortLease    abstract specification of a claim
CohortTypeProofs, CohortStepProofs, CohortSafetyProofs, CohortLeaseProofs

ItemStore      item rows and the writes on them
  ItemWorker     polls and the tasks of the four legs
    ItemPipeline   routes, crashes; Next, Spec, FairSpec, properties
      MCItemPipeline
      ItemPipelineProofs

CatalogStore   files, index, change sets, drift, what Git and ShopSite have
  ChangeSets     drafts, approval, discard
    ShopSiteSync   drift checks, resolutions, direct sync; Next, properties
      MCShopSiteSync
      ShopSiteProofs

Occurrences    the whole trigger protocol
  MCOccurrences
  OccurrencesProofs
```

Within a group the modules extend one another because all of them act on the
same rows; the groups share none, and meet in two places: an item that leaves
Review is promoted into a change set (`Promote` in ChangeSets, from nowhere),
and an approved set or a finished batch is what a trigger watches (`Change` in
Occurrences).

An operator whose comment begins with *Variant:* is a wrong form of the
definition after it.  The specification never uses it; `PROJECT.json` names it
so that a property can be seen to fail.

### Cohorts

**CohortStore.**  `run[r]` is a row of `classification_cohort_runs`; unused rows
have status `none`.  `child[r][m]` is the newest `classification_runs` row of
item `m` under parent `r`, numbered by `n` since rows are addressed by id.
`item[m]` holds stage, status, the child whose projection its curation data is
(`ref`), the semantic block, and what review and approval cover.  `evidence[m]`
is its extraction data: which operator edit it carries, the authority its stored
OCR was made under, and whether a freeze has marked that OCR as stale.
`authority` stands for the configuration, the Page
catalogue and the model policy, which the code compares by digest.  Timestamps
are ticks left (`lease`).

**CohortWorker.**  `task[w][r]` is one `processCohortRun` call of worker `w`,
one per run as in its `running` map.  A `pc` in `SyncPc` is JavaScript running
to the next await, one in `AwaitPc` a model call under a `CohortLeaseKeeper`.
`observed[w]` is the row a reclaim has read and verified and not yet written:
other processes act in between, the worker's own tasks do not.  `Crash` kills a
process; `Tick(S)` lets time pass with the workers in `S` suspended.

**CohortFreeze** and **CohortExecute** have one action per synchronous section:
what runs from one await to the next, with all its writes.  Alternatives of a
section (committed, conflict, drifted, lost) are actions of their own.  OCR of
another authority is marked and, for the first `FreezeOcrRerunCap` such members
of a freeze, made again; past the cap it is frozen under its marker.  A heartbeat that the code performs inside a section is part of its action, whether
it renews, is skipped, or ends the task.

**CohortReview** and **CohortRun** hold the continuation sweep, the human gates
and the operator routes.  `Disturbances` selects those a run meets, `MaxMoves`
bounds them; reviews are bounded by the items.

**CohortLease** says what a claim promises with the insides left out: `Acquire`,
`TakeOver` (lapsed only), `Lapse`, `Proceed`, `Supersede`.  `CohortSafety!Lease`
maps it onto run rows.

**CohortClaims** adds three history variables, which no guard reads: `taken[w][r]`
(another worker held `r` since the task of `w` began), `astray[r]` (such a task
has written for `r`) and `crossed[r]` (the brand check of another run has blocked
an item `r` committed).  They tell apart two claims of one worker, and two runs
with the same items, which the rows do not: see section 4.

### Items

**ItemStore.**  `item[i]` is a row of `onboarding_items` with its current
sourcing generation: `page` is `source_url`, `data` and `curated` say which
source the extraction and the curation data stem from.  Its operators are the
repository's updates as functions of a row; most take the row in whatever stage
it is, as the code's `WHERE id = ?` does.  `Swept` and `Released` are the two
sweeps.

**ItemWorker.**  A poll runs without an await from its sweeps to its last
dispatch, so `Poll` composes a board (rows, running map, rows claimed so far)
through the sweeps and the four stages of `buildAutoStages`, each claiming,
restoring rows whose task still runs, and dispatching up to the first await;
`CrashInPoll` ends the process between two of them.  Then the worker awaits the
candidate refresh and polls again only after `PollEnds`.  `task[w][i]` is an
entry of the running map, with what the task read when it began (`gen`, `from`).
`Start` requeues old claims; `Stop` leaves the tasks of a worker running.

**ItemPipeline.**  The routes, which write whether or not a task is at the item.
`Disturbances` selects them.  `Fallback` is the route of one item, which refuses
an open conflict, `BulkFallback` the repair of many, which does not look for one.
A workspace switch replaces the worker and counts as a fault.

### Catalog

**CatalogStore.**  Contents are versions.  The index keeps a hash with its kind:
`hashJson` of the whole product (`file`) and `computeContentHash` (`content`) of
the same version never agree.  `drift` is in the order of `detected_at`, which
`reopenDriftForChangeSet` renews.  `committed` and `shown` record what Git has
held and ShopSite has had.

**ChangeSets.**  `Approve`, `CommitFails` and `ApproveCut` are the outcomes of
one synchronous `approveChangeSet`: files and index first, then the commit, then
the status, then the linked drift row.  `Discard` deletes, then reopens.
`Faults` selects what may go wrong: an item that cannot be written (`item`), Git
(`git`), the end of the process between two steps (`crash`), or between the
status of a set and the drift row that depends on it (`torn`).

**ShopSiteSync.**  A drift check awaits the download (`Pull`) and then compares
(`Detect`); a direct sync checks and opens its job (`PushStart`), and ShopSite
may have applied the upload (`Upload`) when the answer is lost (`PushFails`).

### Triggers

**Occurrences.**  `occ[k]` is a row keyed by its occurrence key, `lease[k]` the
lease beside it.  `Sweep` is `tickOnce` up to its first dispatch: expiry,
cancellation, observation of every changed source and the list of due rows;
`SweepCut` ends it anywhere.  `Take` claims, `TickDone` and `RequestDone` bring
the result of a dispatch, perhaps after its lease has lapsed and the row has
been claimed again.

## 3. What TLC checks

`CHECK_DEADLOCK FALSE` is set where the modelled part really rests once its work
and its bounds are used up: in every run but Board, whose worker polls for ever.

| run | instance | shows |
|---|---|---|
| Handover | 2 workers, 2 members, 1 run, TTL 2, 2 faults, 1 edit, 1 authority change, 1 re-run of OCR to a freeze | `TypeOK`, `CommittedTogether`, `CleanCompletion`, `FrozenUnderOneAuthority`, `SupersededLeavesNoChildRunning`, `NoWriteAfterLoss`, `DecisionsAreHistory`, `CommittedOncePerRun` while a run changes hands in its freeze or its execution |
| Comeback | 2 workers, 1 member, 1 run, TTL 1, 3 faults, concurrency 2, 1 reset or advance, reviews | `CommittedTogether`, `CleanCompletion`, `NoWriteAfterLoss`, `CommittedOncePerRun` when a worker with a free slot reclaims a run it still has a task for |
| Lease | 2 workers, 1 member, 2 candidate rows, 2 runs, TTL 3, 2 faults, regrouped | `LiveClaimsAreRespected`, and `ImplementsLease`: the claim protocol refines `CohortLease` |
| Operators | 1 worker, 2 members, 2 runs, 2 re-runs or resets, reviews | `SupersededLeavesNoChildRunning`, `LiveClaimsAreRespected` with operators at every step |
| Settles | 2 workers, 1 member, 1 run, TTL 3, 3 faults, pause, wait, edit or authority change | `SkippedHeartbeatIsSafe`; `EveryRunSettles` under `FairSpec` |
| Board | 1 item, 2 workers, all 18 kinds of routes, 2 moves, 1 crash or workspace switch | `TypeOK`, `ClaimHasTask`, `StaleNeverRoutes`, `ConflictHoldsSourcing`; `EveryItemRests` under `FairSpec`, unless a version is all the domain ever has |
| ChangeSets | 1 product, 2 change sets, 2 versions, 2 drift rows, 2 faults of `git`, `crash`, `edit`, `rebuild` | `TypeOK`, `UploadedWasCommitted`, `SyncedWasShown`, `ReconcileHasDraft` |
| Occurrences | 1 batch, 1 change set, 1 request, 1 retry, 2 changes, 1 fault of `crash`, `throw`, `off` | `TypeOK`, `ObservedIsKept`, `ClaimIsReclaimable`, `EndsOnce`; `EveryOccurrenceEnds` under `FairSpec` |
| LostEdit | 1 worker, 1 member, 1 edit | violates `NoEditLost` |
| Recuration | 1 worker, 2 members, 2 runs, 1 authority change, reviews | violates `PromotedAsReviewed` |
| WrongPage | 1 item, send-back and set-url, no fault | violates `ReviewedFromItsSource` |
| BulkAccept | 2 products, 2 change sets, no fault | violates `BulkKeepsUnpushed` |

**Bounds, cohorts.**  Two workers are an owner and a thief; a third would only
repeat the thief.  Two members make "some committed, some not" and an order of
members possible, and with a cap of 1 on re-runs of OCR (the variable
`BAYSTATE_CMS_FREEZE_OCR_RERUN_CAP` of the code) one member is read again and the
other stays under its marker; two runs make a revision and its successor.  Faults count
crashes and stalled ticks together.  A tick is at most a third of a lease, so
TTL 1 and 2 never skip a heartbeat and TTL 3 does.  `MaxConcurrency` is 1 where a
busy worker's poll adds nothing and 2 in Comeback, whose subject it is (the
code's default is 3): stall, takeover, crash and comeback take three faults at
TTL 1.  With two members, concurrency 2 and no reset the properties of Comeback
hold on 3.4 million states, too many for a routine run.  `MaxAuthority`,
`MaxEdits` and `MaxMoves` bound counters the code does not have.  Symmetry
(workers) is used in safety runs only.

**Bounds, items.**  One item, since items meet only in the limits and in the
same-millisecond read-back (section 4); two workers are one in use and one
stopped or made by a variant selection.  Two moves put one route under a task
and another under what the first left behind; `MaxGens` 2 is one superseded
generation, and WrongPage needs two pages.  The claim's place in the poll and the
loop of retries need no more than one item.  An item failed for want of a profile
rests only if no sweep would release it (`Rests`), and `EveryItemRests` asks that
of every run but those in which a version without a profile row is what the
domain ends up with.

**Bounds, catalog.**  One product is enough for every pair of a fault and a
write of it; with two products, one drift row and one fault the same properties
hold on 10.4 million states.  Two sets are an approved and an active one, two
drift rows a linked one and one detected after it, two faults a failed approval
and a second one, or an edit in ShopSite.

**Bounds, triggers.**  The batch and the change set are the two kinds of source
with different lists; the request runs beside the tick; one retry distinguishes
requeue from failure; two changes take a batch back and on again.  With one
change and two faults the same properties hold.

**Fairness.**  *Cohorts*: a worker polls (a `setInterval` that is re-armed after
every poll); a task runs to its next await and an awaited call ends, possibly
with an error (every call has a timeout); time passes; a paused batch is resumed
and a waiting family becomes ready (operators; without it a claim may rightly
stay dormant); and a call retried for ever is answered at last (strong fairness
on `OcrReturns` and `OpReturns`, whose errors only leave the run to a reclaim).
*Items*: the server is used again after a crash or a switch (`getWorker` starts
a worker), the worker polls, refreshes end, and every lookup, fetch and pipeline
call answers or throws.  *Triggers*: the timer ticks, time passes, a run's
deadline ends its dispatch, a stopped server is started again and a kill switch
is lifted.  No fairness is given to faults or moves, all bounded.

## 4. Findings

1. **An edit lost under the freeze** (`LostEdit`).  The OCR write-back rebuilds
   the extraction data from the item loaded when the freeze began
   (`cohort-curator.ts:1305-1321`); an edit made during the call disappears, and
   the final verification compares with the data just written.  ADR 0013 (line
   42) claims execution "NEVER starts from a mixed-time snapshot".
2. **Promotion of data nobody reviewed** (`Recuration`).  A re-curation after
   drift, due to one sibling still in Curation, commits new data onto members
   already in Review (`cohort-curator.ts:3092-3095`) without ending their review;
   the advance route then promotes them, against its comment
   (`onboarding-routes.ts:1176-1180`) and `onboarding-review-repo.ts:12-13`.
3. **Data of the page before** (`WrongPage`).  An item is sent back from
   Extraction while its page is fetched, and is given another URL; the sweep
   moves it into Extraction again, where the old fetch completes it by id
   (`job-queue.ts:1757-1763`); Curation and Review follow.
   `onboarding-item-repo.ts:1081` speaks of "undoing results of the current
   stage".
4. **Bulk resolution over unpushed work** (`BulkAccept`).  The guard on
   `not_synced` (`drift-routes.ts:254-257`) cannot hold for an open drift row:
   the check that opened it has set `drifted` (`drift.ts:76-78`).  The route
   promises to spare "products with no local unpushed modifications" (line 214).

The instances leave out some behaviours that break a property and would hide
what else holds.  Each can be seen by changing a constant or a property of a
configuration:

- **A freeze of a family that no longer exists.**  Settles with `Disturbances`
  `{"regroup"}`, `Cohorts` `{1, 2}`: `EveryRunSettles` fails.  NULL hashes match
  vacuously (`cohort-curator.ts:1706-1711`), the freeze refuses a superseded
  candidate row, so the run is reclaimed and aborted at every lease expiry;
  `job-queue.ts:737-739` promises recovery.
- **A claim that comes back.**  Comeback with `NoWriteAfterTakeover`: a claim is
  a run and a worker id (`classification-cohort-run-repo.ts:824`).  A worker
  suspended in a model call loses its run, its successor lets it lapse, the woken
  worker's poll reclaims it before the keeper's timer has seen the loss, and
  `dispatchCohortRun` returns because the running map has the old task.  That
  task passes `assertHeld` and writes on from what it loaded before the takeover,
  against `cohort-lease-keeper.ts:73-76`.  Without the exception for `astray`
  runs `CommittedTogether`, `CommittedOncePerRun` and `CleanCompletion` fail
  there; with `Items` `{0, 1}`, `MaxAuthority` 2 and `Disturbances`
  `{"authority"}` so does `FrozenUnderOneAuthority`: the returned task, still in
  its freeze, goes on binding children to the authority it loaded.
- **A block from another run.**  Handover with `Cohorts` and `Runs` `{1, 2}`, TTL
  1, no faults, `Disturbances` `{"regroup"}` and `CleanCompletion` without
  `~crossed`: the family is regrouped while its run executes, and a run of the new
  row commits the same items as clean.  The brand check of the old run then blocks
  them by item id (`cohort-curator.ts:3340-3379`), after the new one has walked
  them, and the new run completes without a failure over blocked data of its own.
- **OCR past the cap.**  Handover with the invariant `FrozenOcrIsCurrent`: "old
  OCR under a changed model policy / local-VLM route is NEVER accepted"
  (`cohort-curator.ts:1234-1236`), but a member beyond the cap on re-runs keeps
  it and goes on to be hashed, frozen and projected (lines 1270-1275, 1328).
  `FrozenUnderOneAuthority` says what remains: such OCR carries its marker, and
  with it a digest that the evidence stage refuses (`evidence-extraction.ts:198-201`).
- **A member moved in the middle of its run.**  Comeback with
  `CommittedOncePerRun` without `status = "completed"`: an operator advances a committed member to Review, which
  leaves it `pending` there; the run is interrupted and resumed, the resume guard
  asks for a completed stage (`cohort-curator.ts:2771-2772`), and the member is
  executed and committed by the same run a second time.
- **A claim read back under another stage.**  Board with `SameMillisecond` TRUE
  and `Items` `{1, 2}`: `ClaimHasTask` fails.  The read-back names worker and
  time only (`onboarding-item-repo.ts:644-649`); the row of an earlier stage
  comes back with it, and the limit cuts off the one just claimed.
- **A bulk fallback past a conflict.**  Board with `ConflictNeverFallsBack`: an
  item with an open hard conflict "can never be moved to Discovery through the
  operator fallback" (`onboarding-item-repo.ts:1785-1790`), but only the fallback
  of one item looks (line 1872); the bulk repair takes any pending row of
  Sourcing (lines 1822-1852), and a requeue makes a disputed row one.
  `ConflictHoldsSourcing` shows that it is the only way out.
- **A release without end.**  Board with `EveryReleaseEnds`: a version active for
  a domain without a profile row is enough for the sweep to release a failed item
  (`domain-release.ts:104`) and not for its extraction, which fails at once and
  is released by the next poll; lines 23-27 there rule such loops out.
- **A restart within five minutes.**  Board with `PromptRestart` TRUE:
  `EveryItemRests` fails.  Only a start requeues claims, and only old ones
  (`onboarding-item-repo.ts:719-721`), so those of a process that died a minute
  ago stay `in_progress` until the next restart.
- **A torn approval or discard.**  ChangeSets with `Faults` `{"torn"}`:
  `ReconcileHasDraft` fails, and with it the product stays blocked.
- **An item that cannot be written.**  ChangeSets with `Faults` `{"item"}`:
  `UploadedWasCommitted` fails, for approval goes on without it
  (`change-set-service.ts:128-135`) and the push sends the whole set.
- **A claim without a lease.**  Occurrences with `Faults` `{"gap"}`:
  `ClaimIsReclaimable` fails; the row and its lease are two statements
  (`store-manager-trigger-repo.ts:372-380`), against line 487 there.
- **A dispatch beside itself.**  Occurrences with the invariant
  `NeverRunsTwice`: a dispatch that outlives its lease is swept and taken again,
  against `store-manager-trigger-repo.ts:305-309`; `EndsOnce` holds all the same.

Seen while modelling, without a property: items put back by an operator are swept forward again where
`onboarding-item-repo.ts:1082` says they will not rerun; a variant selection
builds a worker of its own, outside the concurrency of the first; a `Start`
requeues the rows of a stopped worker whose tasks still run; a product in sync
is reported as drifted after a direct sync, since the two hashes never agree
(`drift.ts:79-81`); the push of an older approved set marks newer content as
synced; the files of a failed approval are committed by the next one; discarding
a pushed set deletes its items and then fails on the sync job's reference
(`change-set-repo.ts:296-300`), leaving it approved and empty; and accepting
ShopSite's version leaves the file written and the row open when Git fails.

## 5. What is proved

For every value of the constants, under the assumptions on them (evaluated by
TLC on every run):

| theorem | module | property |
|---|---|---|
| `TypeCorrect` | CohortTypeProofs | `TypeOK` |
| `SkippedHeartbeats` | CohortSafetyProofs | `SkippedHeartbeatIsSafe` |
| `SupersededIsClean` | CohortSafetyProofs | `SupersededLeavesNoChildRunning` |
| `NoStaleWrite` | CohortSafetyProofs | `NoWriteAfterLoss` |
| `LiveClaims` | CohortSafetyProofs | `LiveClaimsAreRespected` |
| `HistoryIsKept` | CohortSafetyProofs | `DecisionsAreHistory` |
| `LeaseImplemented` | CohortLeaseProofs | `ImplementsLease` |
| `OneAuthority` | CohortClaimsProofs | `FrozenUnderOneAuthority` |
| `CommitsAreAtomic` | CohortClaimsProofs | `CommittedTogether` |
| `CommittedOnce` | CohortClaimsProofs | `CommittedOncePerRun` |
| `CompletionIsClean` | CohortClaimsProofs | `CleanCompletion` |
| `ShopSiteTypeOK` | ShopSiteProofs | `TypeOK` |
| `UploadsAreCommitted` | ShopSiteProofs | `UploadedWasCommitted`, if `"item" \notin Faults` |
| `SyncedIsShown` | ShopSiteProofs | `SyncedWasShown` |
| `ReconciliationsEnd` | ShopSiteProofs | `ReconcileHasDraft`, if `"torn" \notin Faults` |
| `OccurrencesTypeOK` | OccurrencesProofs | `TypeOK` |
| `OccurrencesEndOnce` | OccurrencesProofs | `EndsOnce` |
| `ObservationsKept` | OccurrencesProofs | `ObservedIsKept` |
| `ClaimsReclaimable` | OccurrencesProofs | `ClaimIsReclaimable`, if `"gap" \notin Faults` |
| `ItemsTypeOK` | ItemPipelineProofs | `TypeOK` |
| `EveryClaimHasTask` | ItemPipelineProofs | `ClaimHasTask`, if `~SameMillisecond` |
| `StaleStaysOut` | ItemPipelineProofs | `StaleNeverRoutes` |
| `ConflictHolds` | ItemPipelineProofs | `ConflictHoldsSourcing` |

**Cohorts.**  `TypeOK` is not inductive: a freeze writes `Members(r)`, which
needs the run's candidate row to exist.  `RowsAndMoves` adds `Claims`: a row that
is in use has a candidate row and an owner, and a busy task or an observed
verdict refers to such a row.  `CohortTypeProofs` has one lemma per action for
it.  The safety properties need `Safe`: `RowsAndMoves`, that an unused run is
blank (no children, no outputs, nothing frozen), and the two invariants
themselves.  The heart of it is `SkippedHeartbeatIsSafe`: a write in a section
that skipped its heartbeat is covered by the lease only because `lease + age >=
TTL` inside the interval, and a takeover needs `lease = 0`.  From it follow
`NoWriteAfterLoss` (the remaining writes assert the claim in their own action)
and that a superseded run gets no new child (every creation holds a live claim).
`CohortStepProofs` has the facts both proofs use about single actions.  The
refinement shows that every action on a run row is a step of `CohortLease` or a
stutter of its variables; ticks map to `Lapse` over the set of runs out of lease.

**What a run commits.**  The four properties of `CohortClaims` are theorems of
`HistorySpec`, for any number of workers, runs, members and faults, every
disturbance included.  The argument in one sentence: a task that kept its claim
(`Good`: it is busy, nobody has taken the run since it began, the run is live and
not `astray`) is the only one that writes for its run.  `StepSorts` first sorts
the steps of the system: a step is the work of one task, or it belongs to no task
(`Background`: operators, reviews, crashes, the clock), and the latter only fails
running children, moves items back or resets them, and never makes one completed.
`WorkMoves` says what the work of a task is in ten cases (`Captures`, `Freezes`,
`Loads`, `Begins`, `Delivers`, ...), and `GoodWrites` that if it wrote, either its
task was good or the run is astray from then on.  Seen from run `r`, every step
is then the work of `r`'s task or leaves `r` aside (`WorkElsewhere`).

The invariant is `Claimed`, with these parts:

- `Safe` (from `CohortSafetyProofs`) and `FreshOwns`: a fresh task's worker owns
  the live run.
- `Phases`: a fresh task that is freezing has a run that is, a task past the freeze
  one that is underway, and so is the run an item refers to.
- `Views`, `Walks`, `Order`, `Snaps`: during a freeze, a member already walked has
  a child bound to no older authority than the task's, and its stored OCR was made
  under the task's or is marked as stale; no other task that touched it has a newer one.  They carry
  `FrozenUnderOneAuthority` through a freeze that was interrupted under another
  authority.
- `Piping`, `Newest`, with `CommittedTogether` itself: the child a task awaits is
  the newest of its member, and an item refers to the newest child of its run as
  long as it stands completed.  Without them a late pipeline could mark a child
  other than the one it ran, or a resumed walk miss what was committed.
- `Recalled`, `Clean`, `Emptied`: what `processCohort` read before its first await
  still agrees with the items of the members not yet walked, though an await lies
  between, and those already walked are completed and clean unless the task has
  noted a failure.  They make the terminal write truthful.

TLC checks `Claimed` on the instance of Handover as well.  `SeenAssumption` (the
null `None` is not a record of what was read) is the one assumption added for it.

**Catalog.**  `CommitInv`: what an approved set holds and what is being pushed
is committed; an approval writes every file before the commit, and a set is
approved only after it.  `ShownInv`: what ShopSite has, what a check has pulled,
what a drift row says and what a push has applied was all shown.  `ReconcileInv`
adds that no two rows wait for the same set, which is what lets an approval or
a discard resolve or reopen the one row there is.

**Triggers.**  `RetryInv` bounds the retry count of a row against what its
dispatches have read: a request's late requeue may come once beside the tick's.
The other three properties follow from it and from what one sweep makes of a row
(`SweptRow`) and a late result of a row (`EndedRow`).

**Items.**  One invariant, `Inv`, carries all four: the types, that a claimed row
names a worker (`Owned`), that a worker due for a poll is alive (`DueAlive`) and,
if no two stages of a poll claim within a millisecond, `ClaimHasTask`.  A poll
is five updates of a board; `Boarded` says what holds of the board between any
two of them, so that a crash there is covered too: entries of the running map
stay, a row in progress was so before or is claimed by this worker, one it owns
has a live task, and an item parked by a conflict is still in Sourcing.
The one way out, the bulk fallback of a pending row, is a route and no part of a
poll (`BulkFallbackGood`).
`StageClaims` shows that a stage keeps it.  The step that needs the millisecond
is `ReadsBack`: read back by worker and time, an earlier claim may push one of
the stage's own out of the limit, in progress without a task (section 4).  Every
other write is shown to take the claim away or to leave it be (`Allowed`),
whatever task is at the row.

Model-checked only: `EveryRunSettles`, `EveryItemRests` and
`EveryOccurrenceEnds` (liveness under fairness is out of the prover's reach).
Every safety and action property of the passing runs is a theorem.

## 6. What the models leave out

- *Cohorts.*  Failures to capture the authorities; a digest of the OCR that cannot
  be computed, every authority change is taken to change it, and an edit leaves
  the images that OCR reads; a call that leaves no row behind (every OCR and ranking call marks
  its child as used); families without verified pages; brands are one frozen
  flag, and members that disagree block one another when two or more are
  committed; the proposals of a run are
  accepted as a whole; drift of the shared outputs is detected when execution
  starts; the status `completed_with_abstentions` is `completed`.
- A tick does not fall between a reclaim's read and its write, and a further row
  of the same reclaim is read when its verdict is taken.  A crashed worker is
  represented by its successor under the same identity.  Sections of one process
  interleave with those of its other tasks as if they were of another process,
  which only adds behaviours; a reclaim's read, a timer callback, waits for the
  sections of its own process to end.
- `cancelled` runs and the aborts for missing snapshots or items are not
  reachable through the worker.  Active cohort mode is assumed; shadow mode, the
  completeness checklist, send-back and skip of reviewed items are not here.
  Candidate rows are environment: regrouping keeps the members in the checked
  instances (the proofs allow any), and readiness comes and goes.
- *Items.*  Sourcing is automatic (the manual mode holds every outcome for the
  operator), items have no siblings (the family barrier before the Sourcing
  claim), curation is without cohorts, `MaxExtractionConcurrency` is
  `MaxConcurrency`, and the legacy entry policy and the parking status of
  profiles have no rows.  The refresh queue and the assignment of brands and
  domains, which also write rows by id, are not actions.  Discovery confirms or
  parks in one section; its run records are left out.
- *Catalog.*  Page assignments, sync job events and base hashes; ShopSite applies
  an upload as a whole; publishing; the bootstrap is the initial state; the
  drafts a review exports (`onboarding-review-repo.ts:536`) and product deletion;
  the dynamic imports of the bulk route are taken as immediate, so it is one
  step.
- *Triggers.*  The observations of failed syncs and of product fields, schedules
  and their cursors, the heartbeat of an occurrence, which nothing calls; a
  dispatch is one awaited call, whatever its playbook does.
- *Not modelled at all*: retrieval and parsing, classification stages, model
  prompts, the configuration store, AI connections and the circuit breaker,
  playbook runs, bulk review, the assistant, the client, the crawler and
  benchmarks.  Most of the repository's lines are these: data transformation,
  schema migrations, user interface and I/O, with no protocol of their own.

## 7. Where it could go

Candidate cohorts with grouping and readiness instead of environment actions;
playbook runs and schedules over the occurrence protocol; the refresh queue as
an action of ItemPipeline; the circuit breaker's probe.

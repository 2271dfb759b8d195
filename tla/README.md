# A TLA+ model of MetaFusion

MetaFusion keeps the metadata and artwork of Plex libraries in step with TMDb
and Fanart.tv.  A job runs on a schedule or on request.  It reads the Plex
inventory, decides which items need work, evaluates them concurrently, and
writes either Kometa YAML (`RUN_MODE=kometa`) or Plex itself
(`RUN_MODE=plex`).  What makes this hard is not the evaluation of one item but
the memory between jobs and what happens around it: what may be skipped next
time, what must be retried, what is the user's, what is confirmed gone, and
what keeps a failing provider from being hammered.  That is what this directory
models, checks and proves.

All paths below are under `src/`.

## Inventory

| Component | Source | State | Operations | What makes it correct | Modules |
|---|---|---|---|---|---|
| Adaptive lanes | `helper/concurrency.py` | limit, active, failure streak, circuit, half-open flag; `provider_health` | acquire, wait, release, pressure, begin and finish of a controller | no more than the limit run, nobody sleeps beside a free slot, an open circuit admits a probe only | `AdaptiveLane` |
| Incremental planning | `helper/incremental.py` | `library_scan_state` | full-scan decision, `plan_items`, scan marks | nothing that changed is left out | `IncrementalJob` |
| Durable state | `helper/state_db.py`, `helper/cache.py` | `meta_db.sqlite3`; pending writes of `MediaStateStore` | retry queue, media state, ownership, cleanup tables | a row never claims more than was done; a flush is all or nothing | `RetryQueue`, `MediaStore`, `MediaMap` |
| Job orchestration | `metafusion.py` | the running job, `job_runs` | startup, daily jobs, reload, libraries in turn, cleanup, flush, shutdown | the order of durable steps; no slot is forgotten; one library's failure is not another's | `Scheduler`, `LibraryRun`, `IncrementalJob` |
| Library processing | `modules/processing.py` | selected, queued, busy, successful and failed items | `process_library`, `process_item` | failures are recorded, successes are output before they are recorded | `IncrementalJob`, `KometaOutput` |
| Identity | `modules/processing.py`, `modules/builder.py`, `helper/identity.py` | `identity_bindings`, `identity_overrides`, `identity_review_queue`, ids in `media_state` | learn, override, recover a stale id, review | an item is taken for a record of its own title | `Identity` |
| Builders and artwork | `modules/builder.py`, `modules/utils.py`, `helper/asset_registry.py` | managed image files, destination claims | select, download, compare, replace | one owner for a destination; the user's images stay | `Artwork` |
| Cleanup | `modules/cleanup.py` | `cleanup_candidates` | observe, confirm, cancel, delete | nothing goes for media that is still there | `Cleanup` |
| Quarantine | `helper/quarantine.py` | `cleanup_quarantine` and its folder | move, restore, purge, repair | what was taken away can be put back | `Quarantine` |
| Kometa output | `modules/kometa.py`, `helper/io.py`, `helper/metadata_provenance.py`, `helper/output_management.py` | one YAML file for a type of library, its backups, `metadata_field_provenance` | merge, validate, snapshot check, backup, replace, restore | user fields survive; the ledger is true | `KometaOutput` |
| TMDb, Fanart.tv clients | `helper/tmdb.py`, `helper/tmdb_cache.py`, `helper/fanart.py` | response cache, requests in flight | request, retry, cache, evict | what is served is as fresh as the plan assumes | `ChangeFeed` |
| TMDb change feed | `helper/tmdb_changes.py` | checkpoint | plan a window, collect, commit | no change falls between two windows | `ChangeFeed` |
| Plex client and writes | `helper/plex.py`, `helper/plex_metadata.py` | Plex fields and locks, ownership rows | apply, roll back, restore, unlock; inventory by pages | only owned fields are changed | `PlexMetadata`, `LibraryRun` |
| Runtime safeguards | `helper/runtime.py`, `helper/config_reload.py`, `helper/upgrade_canary.py`, `helper/recovery.py`, ... | run lock, configuration in force, canary record, bundles | lock, reload, qualify a build | one job at a time; no unproven build on all libraries | `Scheduler`, `LibraryRun` |
| Reports, dashboard, configuration, Formula 1 | the rest | none that jobs read back | formatting, parsing | | not modelled |

How they interact.  `main` is a scheduler that takes the run lock for each job.
`run_metafusion_job` opens the media-state store and a concurrency controller,
lists the libraries, reads every inventory, and processes one library after the
other.  `process_library` puts selected items in a queue; its workers enter the
item lane and call `process_item`, whose provider calls enter the lanes of
their providers.  Results reach SQLite at different times: retry rows and
identity bindings at once, each in its own transaction, media-state rows only
when the store is flushed at the end of the job, scan marks after each library,
provenance after the last one.  Libraries of a type share a YAML file.  Users
change Plex, the files and the artwork at any time.  A job can be cancelled by
a signal at every await, and killed everywhere.

The hard behaviours are listed with their lines under `hazards` in
`PROJECT.json`, with the properties that cover them or the reason none does.

## Modules

`RetryQueue` is extended by `IncrementalJob`, `Identity` by `KometaOutput`, and
`MediaStore` instantiates `MediaMap`, the specification it implements.  Each
`MC` module gives the constants of its namesake values for TLC, each `_proofs`
module holds theorems.

| Module | Models |
|---|---|
| `RetryQueue` | the statements that change a row of `item_retry_queue`, as operators on rows |
| `IncrementalJob` | one library over any number of jobs: planning, preload, evaluation on the item lane, output, markers, retry rows, scan mark, flush, cancel, kill; Plex and the operator around it |
| `AdaptiveLane` | one lane of the concurrency controller over several jobs |
| `ChangeFeed` | the TMDb change feed, its checkpoint and the response cache over any number of jobs |
| `MediaMap`, `MediaStore` | what `MediaStateStore` promises, and how it does it with rows, an overlay and one transaction |
| `Cleanup` | candidates, confirmation and removal over many jobs |
| `Quarantine` | one artwork file moved to, restored from and purged out of quarantine, step by step |
| `Artwork` | one destination that several items resolve to, from selection to record |
| `PlexMetadata` | the fields and tags of one item and its children in direct Plex mode, and their ledger |
| `Scheduler` | the long-running process over several starts |
| `LibraryRun` | one job over several libraries |
| `Identity` | which TMDb record an item is taken for |
| `KometaOutput` | the metadata files Kometa reads, over jobs and libraries |

### IncrementalJob

A job goes through the phases `idle`, `listed` (inventory read), `preload`,
`work`, `record`, `clear`, `complete`, `flush`, which are the places of
`process_library` and `run_metafusion_job` between which the state on disk
changes.  Durable variables (`out`, `rows`, `retry`, `scan`) survive `Crash`;
everything else is the running job's.

* An item's content is a number: `ver` is the latest edit, `marker` Plex's
  `updatedAt`.  A user edit raises both, a write by MetaFusion only the marker.
  `out` says which edit, under which configuration, the output shows.
* `mem` is the media-state mapping as the job sees it (rows plus pending
  writes); `FlushCache` makes it durable.  `child_inventory_fingerprint` is
  part of what `marker` stands for.
* Time has no end: at `MaxNow` the clock stays, and instead everything that is
  on record (the last full scan, the retries) gets a tick older, so that
  intervals still pass and full scans become due for ever.  `MaxMarker` bounds
  the edits and writes of each item.
* The recheck timers of metadata and artwork, and the TMDb change feed, only
  add items to a plan: `PlanLibrary` lets any set of further items be due.
* The item lane is reduced to its failure streak.  The circuit stays open for
  the rest of the library, because the workers empty the queue against an open
  circuit in far less than its cooldown of 30 seconds.
* `CancelJob` is the cancellation of the job's task.  Items being evaluated
  record a transient failure, the loop over the markers may be cut anywhere,
  and the flush in `run_metafusion_job` still happens.  `Crash` is a kill.

### AdaptiveLane

The lock of an `asyncio.Condition` is only ever held between two awaits, so
`acquire` up to its `wait`, a wake-up, and a `release` are single steps.  A
task that releases may acquire again before those it woke have run: `WakeUp`
has a disjunct for the waiter that finds its slot taken.  `Tick` waits for
woken tasks, which is the assumption that an event loop is not blocked for a
whole cooldown.  The traits of the kinds of lane are a set, and the checked
lane has all of them, so that its behaviours include those of every real lane.

`BeginJob` takes the saved health or, as after a failed load and in a dry run
(`concurrency.py:538-555`), fresh limits; `EndJob` saves it, or leaves the row
as it was, as when saving fails (620-625), after a dry run, and after a job
without calls.  `blind` remembers that the running job began without the saved
health: such a job does not keep to a cooldown that still runs, and what it
saves replaces it.  `SavedCooldownHonoured` is about the other jobs.

### ChangeFeed

The module follows a change at TMDb until the output shows it.  Time is
relative, so that it needs no end: a change is the set element of its age in
days, the checkpoint the age of its date, a cached response the ticks it has
left.  A day has `Hours` ticks, because the checkpoint is an instant but the
feed counts calendar days, and a job may see midnights (`JobDays`) between its
plan and its commit.  Ages beyond `Horizon`, which no window reaches, are one.

* `Begin...` is `library_full_scan_decisions` and `prepare_tmdb_change_plan`;
  `baseline_full_scan`, `baseline_required` and `checkpoint_stale` act alike
  and are one status.  A missing checkpoint is one that is too old.
* `FetchOk`, `FetchFails`, `UseCached` are `tmdb_api_request` for a title's
  details.  `missing[t]` are the changes the output lacks, `cache[t].lacks`
  those a response lacks.  The output is taken to change with the evaluation,
  as in direct Plex mode.
* Responses are committed at the end of the job, rolled back when that fails
  or when the job dies, and committed early under disk pressure; the cache
  gives responses up by its limits, for space, or when its database is corrupt
  (`CacheGivesUp`).

### MediaMap and MediaStore

`MediaMap` is a mapping a job edits, a copy of it that survives, and one step
that makes the whole of the one the other; a preview saves nothing.
`MediaStore` has the three tables (`media_state`, season rows, the ownership
index), the pending writes, deletions and preview memory laid over them, and a
transaction that goes row by row and may fail after any of them.  The mapping
of `Implements` is `Get` for the edited and `DatabaseEntry` for the saved
mapping.  Between jobs the operator forgets claims and rebinds libraries.

### Cleanup and Quarantine

In `Cleanup` an item (a title or a season of one) has a state row, which may
own an artwork file, and an entry in the YAML; each of the two is a `Slot` with
a candidate of its own: a count, an age in ticks, and whether the key it is
recorded under is that of a row.  The phases of a job are those of
`cleanup_title_orphans`.  `absent` is a history variable: what full scans have
really seen.  In `Quarantine` every file operation and every transaction of
`quarantine.py` is a step, with a failure, a kill and an edit of the user's
possible after each; `taken` and `cut` are history.  A purge is a pass over the
records that had expired when it began (`due`).  A copy that is not what was
stored (another checksum, no regular file, a path that leads out of the folder)
is `foreign`: the purge protects it, touches neither file nor record, and meets
it again the next time (`quarantine.py:155-158`, `170-173`).  Copies are
altered, removed and put right again between operations and while a purge goes
through its records, not during the moves of `quarantine_managed_asset` and
`restore_quarantined_asset`.

### Artwork

A file is its content: an image of a provider, named by its source, or an image
of the user's.  `work[i]` is where the evaluation of an item is; a step ends
where the code awaits.  `cache` and `disk` are the two copies of the media
state, `claimed` and `claimers` the registry, `verified` the claims whose
content was compared.  Left out: the split-show preserve policy
(`builder.py:3388`), a season without a candidate, an invalid path, dry run,
audit mode.

### PlexMetadata

Each object (the item, a season, an episode) has one scalar and one tag field,
each with a lock.  `plan` is what has been decided for the object being written,
`pend` what is to be recorded for it; the ledger is saved for the whole item
after its children.  `mine`, `given`, `shut` and `author` are history: whose a
value, a tag or a lock is, as far as anybody could know.  `loose` marks what
the program itself gives up on: a rollback that failed, a write that was not
confirmed, a kill.

### Scheduler and LibraryRun

`Scheduler` has the places of `main`: starting, watching the lock, the startup
job or the catch-up, registering, and the loop of reading the configuration,
`run_pending` and waiting.  A job opens, works and closes.  Another process (an
operator's command, a rebuild) may hold the run lock.  `since`, `tried`, `owed`,
`won` and `stale` are history.

`LibraryRun` reads every library page by page twice: in the discovery, and
again when its turn comes (`process_library`).  `Stable` is the comparison of
the two, `Canary` the upgrade canary, `SafeTypes` the decision which types of
media the cleanup may take anything of for absent.  What processing does to the
items is `IncrementalJob`'s, what the cleanup does is `Cleanup`'s; which
libraries are due is left open.

### Identity and KometaOutput

`Identity` takes an item for the operator's override, the binding learned, the
record a stale id was replaced with, Plex's id, or the record that has the
external id; `Resolved` is the whole of `resolve_tmdb_id` and
`tmdb_details_with_recovery`, with every failure of a request.  `KometaOutput`
goes through `process_library` and `write_kometa_metadata`: fingerprint, read,
merge per item, check, backup, replace, reread, restore, prune; entries of a
library become records when its write succeeded, and records become the ledger
at the end of the job.  A field has a place (season and episode numbers) and a
key.  All values TMDb has for an item change at once.  Left out: the search by
title (off by default), selectors, key order and the wording of entries.

## Runs

| Run | Checks | Distinct states |
|---|---|---|
| `job_kometa` | `RecordedIsOutput`, `AppliedOrSelectable`, `CertifiedFullScan` | 4.6 M |
| `job_plex` | `OwnWriteRecorded`, `Converges` | 1.5 M |
| `lane` | `NoLostWakeup`, `SavedCooldownHonoured`, `CircuitGuards`, `EveryWaiterLeaves` | 152 k |
| `feed` | `NoGapBetweenWindows`, `ListedIsApplied`, `OutputConverges` | 917 k |
| `store` | `ScopeReads`, `Implements` | 101 k |
| `cleanup` | `RowsConfirmed`, `QuarantineIsJust`, `Reconciled` | 1.1 M |
| `quarantine` | `Restorable`, `NothingDestroyed`, `RetentionEnds` | 103 k |
| `artwork` | `OneTitle`, `UserArtKept`, `ConfirmedTwice` | 2.1 M |
| `plex_fields` | `WritesTracked`, `UserValueKept`, `UserTagsKept`, `UserLockKept`, `Served` | 976 k |
| `scheduler` | `SlotServed`, `StartupCovers`, `ConfigFollowed`, `DueRuns` | 1.7 M |
| `library_run` | `PresentIsSeen`, `MissingIsGuarded`, `BuildQualified`, `OthersProcessed` | 6.4 M |
| `kometa` | `FieldsKept`, `LedgerTrue`, `FilesFollow`, `RightTitle` | 578 k |

Every module states its properties after its actions, each with a comment that
says what code it is about.  The type invariants are not among the properties
of the runs: the theorems below have them for all values of the constants.

Bounds, and why they are enough:

* `job_kometa`, `job_plex`: two items, because items meet only in the lane's
  streak, the abort of a library and the scan mark; one step of back-off
  reaches pending, parked and reset; two faults reach a crash after a failure.
  `MaxMarker`, `MaxConf`, `MaxFaults` (2 each in `job_kometa`) bound edits,
  configurations and failures.  The items of `job_kometa` are symmetric; those
  of `job_plex` are not.  There one (`b`) never shows its whole inventory and
  always has work left, so that its marker may stay at 1, while the marker of
  the other goes to 3: it can be edited and written in one job, in this order
  or the other, which is the case of divergence 1, and `Converges` includes it.
  One configuration and one fault are left for it.
* `lane`: three callers are a holder, a probe and a waiter; limit 1 growing to
  3, window 2, threshold 2, cooldown 1; `MaxNow` 5, `MaxOps` 6 calls in a job.
* `feed`: one title, because titles meet only through the job; two libraries,
  one of them empty, because a plan is stale if any library's is; a day of two
  ticks, a window of one day, responses that live three ticks (longer than a
  day, so that a change can fall between a cached response and the next
  window); one change and one kill.
* `store`: two movies that may be rebound and a show, two libraries, one place
  for artwork, one fault.
* `cleanup`: a show, its season and another title that shares its folder; two
  confirmations, one tick of grace, three moves of media, one fault.
* `quarantine`: two units of one item, two ticks of retention, three faults; any
  number of changes to files and copies.
* `artwork`: two editions of a movie and a show, five sources and one image of
  the user's; two changes of the world.
* `plex_fields`: an item and its season, two values, two tags, a limit
  of one write, two attempts; two changes, one fault.  The policies are
  `fill_missing` and `managed`: `overwrite` is in the module and in the
  theorems, not in the run (divergence 9).  `UserTagsKept` is about `apply` only, since a restore puts back
  the original tags.
* `scheduler`: a day of three ticks and a catch-up age of one, so that a start
  comes at the time of a slot, late, and too late for it; two configurations, a
  history of two rows; three ticks, two edits, two starts, one job of another
  process.  A stopped
  process stays stopped, so deadlock is not an error.
* `library_run`: two libraries with two items and a page of one, so that a
  reading can miss an item that moves; two builds; two moves in a job, one
  fault.  Three moves between the four readings break `PresentIsSeen`: an item
  can always be where the program is not looking.  `MissingIsGuarded` is about
  libraries that are discovered automatically or selected; one that is neither
  is not guarded by the code.  `BuildQualified` is about libraries: Formula 1 and
  the restore commands run outside the canary.  The job ends.
* `kometa`: two shows in two libraries that share a file and a movie, one
  backup, one change, one fault.  With one change a rematch and a recovered id do
  not meet, nor do external ids conflict (divergence 6): for those `RightTitle`
  rests on its theorem `TitlesAreRight`, under `Unmistakable`, alone.

## Fairness

What fairness is assumed is what the program's own loop provides.

* A job that is under way goes on (`WF(JobStep)`, `WF(InOperation)`,
  `WF(Finish(c))`): asyncio runs tasks that are ready, every provider call has a
  timeout.  A waiter woken gets to run (`WF(WakeUp(c))`).  That a caller in the
  lane ends also rests on `MaxOps`: the work of a job is finite.
* The scheduler starts jobs again and again, and some of them are not forced
  (`SF(BeginScheduled)`, `SF(BeginFull)`, `SF(BeginApply("managed"))`,
  `SF(StartJob(Items))`); `WF(MainStep)` is the loop of `main` itself.  Strong
  fairness is needed because users' and operators' actions in between may make
  the start impossible for a while.
* Days pass: `WF(Tick)` where the clock never waits (`IncrementalJob`),
  `SF(Tick)` where a tick waits while a job is at a step that takes no time.  A
  provider that is asked for ever answers at last (`SF(FetchOk(t))`, used for the
  feed only).
* That purges go on is not assumed: they run only at the start of a cleanup that
  is no dry run (`modules/cleanup.py:130`) and by `--cleanup-purge`.  It is the
  premise of `RetentionEnds`, `[]<>(at = "purge")`.
* Nothing is assumed of failures, kills and users' changes; they are bounded
  in number, so that from some point on there are none.  In `quarantine` only
  failures and kills are bounded: files and copies change for ever.

## Where the code and its words part

None of these is checked by a run, since each run states what holds; each was
met with TLC under the constants given, or follows from the lines.

1. *An edit made while a job runs can be lost for a while in direct Plex mode
   without cleanup* (`modules/processing.py:569`; `docs/operations.md:197`).
   With `PlexMode = TRUE`, `CleanupEnabled = FALSE`, threshold and interval 2,
   `MaxMarker` 3, one configuration and no fault, `AppliedOrSelectable` is
   violated: the marker recorded after the job's own write covers the edit.  The
   edit is output by the next full scan, which is what `Converges` says.
2. *A half-open circuit may have no probe* (`helper/concurrency.py:295`;
   `docs/operations.md:414`): the flag is set before the wait for a slot.
3. *A change at TMDb can be lost when a cached response outlives a day but not
   two* (`helper/tmdb_changes.py:63`; `docs/runtime-safeguards.md:43`).
4. *An entry of an edition can be removed unconfirmed*
   (`modules/cleanup.py:575`; `docs/policies.md:386`).
5. *Rebinding a show loses claims of its seasons* (`helper/state_db.py:3789`;
   `docs/lifecycle-management.md:178`).
6. *A record without external ids may be taken for a verified replacement of a
   stale one* (`modules/processing.py:261`): `media_state` keeps
   `tmdb_recovery_source_id` and the fingerprint when a later match's record
   overwrites `tmdb_id`.  `RightTitle` is stated for items whose matches all
   have external ids (`Unmistakable`).
7. *A failed read of a show's episodes removes its seasons from the YAML, the
   user's fields included* (`helper/plex.py:797`, `modules/builder.py:3031`;
   `modules/kometa.py:186`, `docs/modes.md:31`): the error is swallowed and the
   empty inventory is taken for authoritative.  `FieldsKept` excuses seasons
   dropped by such a read.
8. *With cleanup enabled one item without path or season inventory aborts its
   library in every full scan* and nothing is output (`docs/policies.md:382`
   says the cleanup is skipped); a parked item is still selected by every
   incremental run (`docs/operations.md:278`).
9. *`overwrite` followed by `managed` with an empty TMDb value rewrites the
   original in every job* (`docs/policies.md:301`), and under the write limit
   starves what comes after it.
10. *A slot that passes while the process starts, or in the 30 seconds before a
    reload registers anew, is lost until the next day*, and due jobs collected
    before a signal are still run (`docs/operations.md:842`).  `SlotServed` is
    about the slots that come after registration (`since`).

11. *A protected copy leaves no trace.*  `docs/lifecycle-management.md:109-113`
    has protected outcomes in the cleanup history; `quarantine.py:155-158` and
    `170-173` write no row for them, and the record stays active, at every purge
    anew.  `RetentionEnds` excuses them (`foreign`).
12. *A saved cooldown does not bind every later job.*  After a failed load and in
    a dry run the limits are fresh (`helper/concurrency.py:538-555`), which the
    code says in its log; `SavedCooldownHonoured` is about the other jobs.

Further places a maintainer may want to look at.  A library that failed once in
a full scan is out of phase with the others, and the cleanup, which wants all
of them in one job, may not run until something forces a full scan.  Ten failed
or refused rows after a success may cause a second catch-up.  With
`BackupCount` 0 a reread that fails deletes the file (`modules/kometa.py:486`).
A user's edit between the fingerprint check and the replacement is lost.
Relinquished tags stay in `owned_values` while there are other changes.  A
season poster shared by two shows in one folder can be quarantined while a
live owner uses it.

## Proofs

The safety invariants and action properties of all runs are proved, for every
value of the constants, from the assumptions named in the modules and the
hypotheses given here.  The theorems are listed under `theorems` in
`PROJECT.json`.  All follow one pattern: an inductive invariant, a lemma for
each action and each part of the invariant it can disturb, one lemma for
`Next`, and a last step in temporal logic.  TLC also checked every inductive
invariant on the instance of its component's run, where it holds too.

**`IncrementalJob_proofs`.**  `TypeOK` is not inductive: which items are queued,
busy and done, and what the loop over the markers has left, have to fit the
phase (`Quiet`).
* `RetryCleared`, that a retry row is cleared only when the item's evaluation has
  been output: `OkIsOutput`, an item counted as successful has its output written.
* `KometaRecords` (`RecordedIsOutput`), `KometaSelects` (`AppliedOrSelectable`):
  `KometaInv` says that a marker recorded or to be recorded is of an edit that
  the output shows, and that nothing in the past of a job is newer than its
  inventory.  Both assume `~PlexMode`; divergence 1 is why.
* `FullScansCertify` (`CertifiedFullScan`): `FullInv`, an item of a full scan is
  queued, busy, done, failed, or put off by a retry row of the marker the scan saw.
* `OwnWritesSettle` (`OwnWriteRecorded`): `OwnWriteInv`, an item whose own write
  has not been followed by a reload is among those written or failed.

**`ChangeFeed_proofs`.**  `Safe` says what a plan's window covers (`PlanInv`), that
what the plan lists is dealt with, unless the job still has to (`DealtWith`),
that a change not listed yet is young enough for the next window, and that a
cached response lacks only what the log of changes has.  `WindowsMeet`,
`ListedShown`, and, without a cache (`TTL = 0`), `NothingLostUncached`: no change
is lost at all.  Divergence 3 is why it assumes that.

**`Storage_proofs`.**  For the store, the invariant is about the session (there is nothing pending
without one), the shape of rows, the progress of a transaction, and the
ownership index: it has the claims of every row, and has a claim its row lacks
only for the season of a show that may be rebound (divergence 5).  `TypeCorrect`,
`IndexCorrect` (`IndexAgrees`, which no run checks) and `ScopeCurrent` hold
whatever is rebound.  `StoreImplementsMap`, every action of `MediaStore` is an
action of `MediaMap` or a stutter, one lemma for each, assumes that no show is.  For quarantine: what an operation has done so far
(`OperationInv`), a purge's records included, and where the file of a row is
(`RecordInv`);
`TakenIsRestorable`, `OperationsDestroyNothing`.

**`Cleanup_proofs`.**  A candidate has seen no more, and waited no longer, than the
absence it stands for (`CandidateInv`), what is eligible in a job is confirmed
(`EligibleInv`), a row that is gone was confirmed, or its title was (`RowInv`).  `RowsAreConfirmed`,
`QuarantineJust`, the latter when seasons are in their show's folder.

**`Artwork_proofs`.**  `KeptInv`: no recorded checksum and no verified claim is of
an image of the user's, and no evaluation that may still replace the file is
looking at one (`UserArtIsKept`).  `TitleInv`: all records, the claim and what
goes on under it are of one title (`OneTitleHolds`).  `PendingInv`: a canonical
image that waits for its second evaluation had a first one
(`CanonicalIsConfirmed`).

**`PlexMetadata_proofs`.**  `ObjectInv` has five parts for every object: what is
pending fits what Plex shows, and whose the values, tags and locks are is what
the ledger or the plan says.  They speak only of objects that are not `loose`.
`WritesAreTracked`, `UserValueIsKept`, `UserTagsAreKept`, `UserLocksAreKept`.

**`Service_proofs`.**  Three modules that run the others.
* Scheduler: between registration and the next run planned no time of the slot
  has passed untried (`SlotInv`), a catch-up that was owed was tried or is
  covered by a success (`StartupInv`, `PastInv`), what runs is what the file says
  once the reloader has seen it (`ConfInv`, `FollowInv`).
  `NoSlotUnnoticed`, `MissedSlotCovered`, `RunsWithTheFile`.
* LibraryRun: `MissingNotAbsent`, `UnprovenIsTried`, `FailureStopsNoOther`.
  `OneChangeIsSeen` is `PresentIsSeen` in a job during which the inventories
  change at most once: until the change a reading shows exactly what was there
  (`PagesInv`, `SeenInv`), so that the two readings of one of the libraries,
  when they agree, have the item.
* Lane: `WakeupsKept`, `CircuitHolds`, `CooldownSurvives` (for jobs
  that are not `blind`), and two that no run checks: `ActiveCounts`, the count of active operations is that of the
  callers that run, and `AdmissionBounded`, none is admitted beyond the limit.

**`KometaOutput_proofs`.**
* `TitlesAreRight` (`RightTitle`, items `Unmistakable`): every record chosen
  and every binding learned is of the title of the match it was made for
  (`ChosenInv`, `BindingInv`), and a recovery has the fingerprint of a match with
  an external id (`RecoveryInv`).
* `LedgerIsTrue` (`LedgerTrue`): for what the user has not touched, the file is
  what was read until it is replaced and the document afterwards (`FileInv`), the
  document has what was recorded of earlier libraries and collected of this one
  (`DocumentInv`), and the files have what was recorded (`RecordInv`).
* `FieldsAreKept` (`FieldsKept`): the document a merge makes of a reading lacks
  a field only if there is an excuse (`MergeInv`: dropped as an obsolete season
  or generated field, a deprecated key, or stored under the other key), what is
  replaced is what was fingerprinted, and the copy taken of it is among the
  backups (`ReplacedInv`).
* The last two assume `BackupCount > 0`, since without a backup a failed reread
  deletes the file.

## Only model-checked

* Liveness: `Converges`, `EveryWaiterLeaves`, `OutputConverges`, `Reconciled`,
  `RetentionEnds`, `Served`, `DueRuns`, `FilesFollow`.  Fairness needs `ENABLED`,
  which the prover does not have.
* `PresentIsSeen` for two changes in a job: it holds for two libraries, as the
  run shows, and does not hold for three, where two moves take an item past
  every reading.  The proof would be of one number of libraries.

No proof is by induction over data.  The recursive parts of the code (retries,
pages, rows of a transaction) are steps of the specifications instead.

## Plan

1. `TitlesAreRight` with the weakest hypothesis about the records: which
   replacements a recovery can be mistaken in.
2. `PresentIsSeen` for two changes that are not of the same item.
3. The half of `CertifiedFullScan` that concerns several libraries in one job,
   with `LibraryRun` and `IncrementalJob` composed.
4. Request coalescing and threads that outlive a cancelled task.

## Not modelled

Left out of modelled components, besides what is said above: several libraries
in one `IncrementalJob`, dry runs, ambiguous editions and parse errors beyond
their effect; the disabled feed, a clock set back, 404 responses that are
cached; exceptions to cleanup; the search by title; identity history and
identity reviews between reconcile and flush; selectors and wording in YAML.

Not modelled as a component: request coalescing (`helper/tmdb.py:214`), threads
that outlive a cancelled task (`modules/processing.py:1192`), CPU and memory
limits, the ledger of unresolved work, the recheck schedule of artwork, schema
migration and database maintenance, recovery bundles (pure input and output,
or operator's tools that run alone), reports, dashboard, diagnostics and the
parsing of the configuration (no state that a job reads back), and the
Formula 1 extension.

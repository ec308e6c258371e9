# fk-encore: verification

TLA+ modules for the parts of fk-encore in which several actors touch the same
state: model slots, the document pipeline, backups, realtime events, the photo
scan queue, the job scheduler, the map regions and the iOS upload queue. Each is
model-checked with TLC on small instances; every invariant and action property
that the runs confirm, and three refinements (of `ModelLine`, `EventFeed` and
`LocalCron`), are proved with TLAPS for every value of the constants.

fk-encore is a self-hosted family application (photos, documents, finance,
meters, travel) on Encore.ts: one Node process, one PostgreSQL database, a
handful of Python model servers, a Vue web client and iOS clients. One process
means one event loop: between two awaits a handler runs alone, and every await
that really waits lets all others in. Every statement on the connection pool is
a transaction of its own under READ COMMITTED. These two facts decide what one
action of a module is: the code between two awaits, with at most one SQL
statement in it; a statement that reads a snapshot and writes later is two.

## 1. Inventory

| Component | State | Operations | Hard behaviour |
|---|---|---|---|
| **ai-queue** (`ai-queue/`) | table `ai_model_slot`, waiter map, startup promise | `acquireSlot`, `pollSlot`, `cancelSlot`, `releaseSlot`, `wakeWaiter`, `cleanupStaleSlots`, `withAiSlot` | two conditional UPDATEs at once, a wakeup before the wait, deadline or abort against promotion, statement failures between insert, delete and promotion, restart |
| **document pipeline** (`documents/scan-*.ts`, `document-ops.ts`, `reprocess.ts`, `llm-client.ts`) | table `document_scan_queue`, `documents.status` and text, `document_embeddings` | claim, three kinds of job, done/failed/defer, re-queue of five kinds, cancel, retry, reset at boot | a re-queue in the middle of a job, a job that read an old text, swallowed errors, an LLM service that is down, the status moved by two jobs |
| **backup coordinator** (`backup/`) | module state (phase, timer, flags), prep promise, pool sessions, pause flag of the scan workers | `/start`, `/stop`, prep, safety timer, unwinding | check before an await, two starts, timer against stop against prep, backup mode bound to a pooled session |
| **realtime** (`realtime/`, `useRealtime.ts`) | table `realtime_events`, session map; in the page `lastSeq`, ids seen | publish, subscribe with replay, dispatch, unregister, handle, reconnect | commit out of the order of seq, replay beside live delivery, failed or truncated replay, dead sockets, crash |
| **photo scan queue** (`photo/scan-*.ts`, `worker-db-slots.ts`) | table `photo_scan_queue`, slot counter, health and pressure flags | claim, run, done/failed/defer, rescan, retry, cancel, follow-up jobs | rescan of a job being processed, follow-ups that meet an active row, claimed jobs waiting for a slot |
| library scan (`photo/library-scan-*.ts`) | table `library_scan_queue`, abort registry | enqueue, claim, progress, cancel, retry | cancel against the end of a scan |
| **local cron** (`lib/local-cron.ts`) | job entries, timers, saved rows | schedule, start, run now, pause, resume | overlapping runs, pause during a run, hydration against a pause, saves out of order |
| feed push (`push/feed-push-debounce.ts`) | buffer and timer per user | schedule, flush | online check before and after the wait |
| **map regions** (`osm-admin/`, `geo/`) | `osm_region_imports.status`, the geo service's tracker, imports and databases | create, approve, import tick, re-import, remove; import, reconcile, drop | unconditional status writes after seconds of awaits, two processes that restart by themselves |
| bank dialogs (`finance/tan-sessions.ts`, `fints-client.ts`) | TAN sessions, cached live clients | sync, complete, clean up | client taken before the result is stored |
| llm service (`llm-service/main.py`, `llama_supervisor.py`) | the llama-server process, configuration in use, lease, reload flags | start, stop, watch, reload with rollback, lend and return | a crash in the middle of a reload, the watcher thread against a stop |
| **iOS upload queue** (`UploadQueue.swift`, `BackgroundSyncManager.swift`, `ShareViewController.swift`) | one file that two processes share, the app's list in memory, the photos' bytes | load, reset, enqueue, claim, mark, purge, requeue, remove; the extension's enqueue, resume, mark, cancel | killed in the middle of an upload, both processes writing the file, a start of two unordered tasks |
| the rest | rows of one user | request handlers, calculations, rendering, model servers, clients | one request at a time, or content rather than protocol |

How they interact: the document, photo, finance and assistant workers are
callers of ai-queue (`withAiSlot`), the assistant with a better priority than
the background; the backup pauses the photo workers through a flag of
`photo/scan-worker.ts` and closes the application through the flag that
`maintenance.ts` reads; every queue announces its changes as realtime events;
the feed push asks the realtime session map whether its user is online; cron
jobs run the stale sweep, the retention and the nightly work.

What makes each correct:

* **ai-queue**: nobody runs without a granted row; a grant is never lost; the
  line does not stop while somebody waits; no row outlives its caller; every
  wait ends.
* **documents**: a document whose jobs are over shows an end state; what is
  shown as ready belongs to the current file; no job waits for ever on a service
  that is up.
* **backup**: maintenance mode, the workers' pause and PostgreSQL's backup mode
  begin and end together and always end; a timer acts on its own run only; a
  snapshot is taken while backup mode is in effect.
* **realtime**: a connection leaves no gap, a handler sees an event once, a
  session ends with its socket, and resuming misses nothing.
* **photo queue**: no database slot is lost or counted twice; a follow-up
  reaches the data it was queued for; the queue drains.
* **local cron**: what a job shows is what it does, and its saved row is what a
  restart should find.
* **regions**: two imports never load one database; a region shown as ready has
  its database; the status keeps to its arrows; an import ends.
* **uploads**: no photo leaves the list unsent unless the user takes it off;
  none stays claimed by nobody; a drain ends.

`PROJECT.json` lists every component and every hazard at its line, with the
properties that cover it or the reason why none does yet.

## 2. Modules

| Module | What it is |
|---|---|
| `AiQueue` | the line of one model |
| `ModelLine` | what that line promises, without statements, waiters or timers |
| `DocPipeline` | the jobs and requests of one document |
| `Backup` | the backup coordinator, its timer and its pool |
| `Realtime` | publishers, sessions and one page |
| `EventFeed` | what that page is promised, without rows, replays, messages or sockets |
| `PhotoScan` | the jobs, slots, follow-ups and requests of one photo |
| `LocalCron` | one job of the scheduler, whatever it does |
| `OsmRegion` | one map region; extends `LocalCron`, whose job its ticks are |
| `UploadQueue` | the upload queue of the iOS app and its share extension |
| `*Proofs` | theorems about the module of that name |
| `LineLemmas` | facts about lines (sequences without repetition) the proofs share |
| `MC*` | instances for TLC; the bounds are in the `.cfg` and `MC` files |

### AiQueue

Rows (`status`, `prio`, `nextId`, `stale`) are the table, filtered on one model
as every statement of the code is. `pc` says where a caller stands in
`withAiSlot`, `mine` is its `slotId`; `registered` and `woken` are the map of
`waiters.ts` and its resolved promises.

* `Insert`, `CheckFree`, `Activate` are `acquireSlot`: the conditional UPDATE
  reads its snapshot (`CheckFree`) before it commits (`Activate`), and two of
  them on different rows do not block each other.
* `Register`, `Poll`, `Sleep`, `Resume`, `Cancel`, `Expire` are
  `waitForActiveSlot` with its deadline and abort signal. Registration precedes
  the poll, as in the code.
* `Finish`, `Delete`, `Promote`, `Wake` are the `finally` and `releaseSlot`.
  `Promote` may pass over rows that another statement holds locked
  (`FOR UPDATE SKIP LOCKED`, `MaybeLocked`).
* `Age`, `Sweep` are the stale cleanup; a row may be swept though its caller is
  merely slow. `Crash` and `ClearOnStartup` are the restart.
* `AcquireFails`, `PollFails`, `DeleteFails`, `PromoteFails` are failing
  statements, each with what the surrounding code does about it. `orphans` and
  `stranded` are histories that name what such a failure left behind, so that
  the invariants can exempt exactly that.

`ImplementsLine` maps rows, places and tickets to `ModelLine`: every step of
the statements is a step of the plain line or a stutter, failures included.

### DocPipeline

One document; the order of claims across documents does not matter to it.
`active`, `done`, `failed`, `defers` are its rows in `document_scan_queue`
(the partial unique index allows one active row per service); `step` and `seen`
are where the worker of a service stands and what it read; `owns` says whether
the row it will settle by id still exists. Texts, categories and embeddings are
known by the version of the file they come from.

`healthy` is what the LLM service answers to the check in front of every claim
of classify and embed (`HealthChanges`); an outage counts as a failure in the
bounds, its end is free and never promised.

`Claim`, `Finish`, `Fail`, `Report`, `Defer` are the queue and the worker's
`catch`; `StartExtract` to `DropJobs` are `runTextExtract`; `ReadDocument` to
`InsertEmbedding` are `runClassify` and `runEmbed` with their two guards;
`Request` to `InsertJob` are the endpoints, statement by statement; then
`CancelQueue`, `RetryFailed`, `Crash`, `ResetStuckJobs`.
`disturbed` is a history: since the document was last at rest, an event has
lost a job (a re-queue that met a job at work, a cancelled queue, a retried
text extraction, a statement lost to an error or restart). The invariants speak
of undisturbed runs; that a disturbed one can go wrong is what
`NotLeftClassifying` shows.

### Backup

A step is what runs between two awaits that really wait; `pc` holds one entry
per task (prep and timer of a run, each `/stop`). `conn`, `idle` and `inBackup`
are the pool of `backup/pool.ts`: backup mode belongs to the session that
called `pg_backup_start` and ends with it, the session released last is taken
first, and one that stays unused may be closed (`IdleTimeout`, pg-pool's
default, which `pool.ts` leaves alone). `overlapped` is a history: two runs, or
a run and an unfinished forced stop, were under way at once. The code means to
exclude that and does not (see `NoStaleForceStop`); with it,
`MaintenanceMatchesPhase` and `BackupModeReleased` fail as well, for instance
when the first prep's failure marks the second run failed and its prep goes on
to "ready" with the application open. `NeverLeftPaused` and `MaintenanceEnds`
hold regardless.

### Realtime

Each event is published by a task of its own: `Insert` draws the seq, `Commit`
makes the row visible, `Dispatch` sends it in a later turn. A session is
registered, reads its replay (`ReplayQuery`) and sends it (`ReplaySend`) in
turns of their own. The page opens one socket after the other, drops known ids
and keeps the highest seq as its cursor. `handled` counts since the last cold
start: a truncated replay tells the page to reload its data.

`ImplementsFeed` maps all this to `EventFeed`: an event is announced once its
publisher is through (`Announced`), or has died with its row in the table; the
page sees all, some or nothing by its open socket (`Reader`), has taken as known
what is not above the cursor it came with (`Past`), has been told what it missed
when the whole replay was sent (`CaughtUp`) or that it must start cold when a
notice of truncation is on the wire (`Cut`); and what is due to it is what is on
the wire and not handled (`Due`). The feed says that the page never gets what it
may not see, that an event which became due stays so until it is handled or the
connection ends, and that it is handled once.

Abstracted: the page's id set is unbounded (the code keeps 1000), rows do not
expire (seven days), a page without a cursor asks for no replay, channels are
two kinds (allowed to every session or not).

### PhotoScan

One photo, geotagged inside an imported region, in sight of one of its points of
interest and seen by one user, with the default of one worker per service. An
installation has its services in an order (`EnabledServices`); one flag switches
both face services. Quality is queued
after a face detection even where it is switched off, and its job then does
nothing. `active`, `force`, `done`, `failed` are its
rows (one active row per service, by the partial unique index); `step`, `seen`,
`owns` are the workers as in `DocPipeline`; `inUse` and `waiters` are the
semaphore of `worker-db-slots.ts`; `followUps` are the jobs that a finished one
queues without waiting. Results are known by whether they are there.

* `Claim` is `dequeueNextJob` and `acquireDbSlot`: a job is claimed before it
  has a slot. `Settle`, with `Finish`, `Fail` and `Defer`, is the end of
  `processNext`; the slot goes to the next in line.
* `Embed` to `InsertMatches` are the jobs as far as they read what another
  writes: detection deletes faces that assignment and scoring have read, poi
  detection reads the vector that embedding stores. Errors that a job swallows
  are steps to its end with nothing done: the detector's in `DetectFaces`, those
  of geo and of the reference images in `NothingToMatch`, that of the read of
  the vector in `ReadEmbedding`.
* `FollowUp` is one of the statements sent off after a job; an active row
  stands for it (`ON CONFLICT DO NOTHING`).
* `Request` to `CancelPending` are the rescans, retries and cancellations,
  statement by statement; `Crash` and `ResetStuckJobs` the restart.

`lost` is a history: an event has lost a run that was due. `FollowUpArrives`
exempts just these, and without the exemption TLC finds each of them: a poi run
that read the missing vector goes on while embedding ends and its follow-up
meets the active row, then ends "done" without a match; quality against
detection likewise; `detectPhotoFaces` swallows the timeout of its model, and
`detectPoisForPhoto` a failing geo service: the job is "done", no row has
failed, and nothing queues another.

Abstracted: the faces of a photo are stored in one step, one statement each in
the code; an assignment that reads some of them is as one that has read none,
since the detection's follow-up comes in either case.

### LocalCron and OsmRegion

`LocalCron` is one entry of `lib/local-cron.ts`: `status`, `enabled`, `armed`,
and `run`, which tells the timer's run and runs by hand apart; `saves` are the
`persist` calls under way, each writing the whole row, `saved` the row. `Begin`
and `End` bracket the work, which the module leaves open; `CronSpec` is the
scheduler by itself. `mixed` and `blurred` are histories: saves that met or
failed, runs that were not alone.

`OsmRegion` extends it: a tick of the importer is the work of a run, so it has
its own place (`tick[r]`) for the timer and for every run by hand, and two
ticks may overlap. `row` is the status of `osm_region_imports`; `tracker`,
`data` and `proc` are the geo service's memory, its database and its imports,
which survive each other's restarts or not (`GeoRestart`, `AppRestart`,
`Reconcile`). `Pick` to `GiveUp` are `tickImporter`, `Create` to `Conclude` the
admin's requests, `Download` to `ImportEnds` the import, `Forget` and `Drop` the
removal of a database. The table of `state-machine.ts` is `Transitions`; the
code writes the status without consulting it, and `FollowsLifecycle` asks
whether it keeps to it all the same.

Three histories name what the properties exempt. `stale`: whose view of the row
is out of date. `crossed`: the entry in the geo service's memory was changed
under an import that was under way, by a drop or by a reconciliation that had
asked the database before the import began (two ticks after a restart of the geo
service do that); it ends when no import is left, and without it `OneImport`
fails in both ways. `disturbed`, which `ReadyIsComplete` exempts, is wider and
stays: a drop that met an import or a tick, or was cut short by a restart or a
failed statement; a tick that asked about half-loaded data after a restart; an
import started over the data of an earlier one.

Abstracted: the size of an extract is known; requests and drops come one at a
time; every call is answered or fails (`getImportStatus` itself has no timeout).
The sweep of stopped regions is a removal with a further guard.

### UploadQueue

`disk` is `upload_queue.json`, `items` the list of the app's actor, and
`share.copy` what the extension has read and is about to write back; `files` are
the photos with their bytes in `pending_uploads`, `stored` what the server has.
A method of the actor is one action, since the actor runs one at a time to its
end; whatever the app awaits (network, token, upload) lies between two actions.
The extension is a process of its own, so its reading and its writing are two.

* `ResetStale` and `Load` are the two tasks of `register`, in no order;
  `StartDrain` to `Purge` are `drainUploadQueue` and `drainLoop`, whose place and
  claimed item are `drain`; `Enqueue`, `Remove` and `Requeue` the other tasks.
* `ShareOpens` to `ShareCloses` are a session of the extension: items of earlier
  sessions (`previous`) are taken over without a claim, all of them again when
  the user tries again (`tried`), or cleared from view; new ones are enqueued and
  sent. `ShareCloses` is also its kill, anywhere; `Kill` is the app's.
* `clobbered` and `stranded` are histories. An entry is clobbered when a process
  writes its list over it without having read it: the other one has changed it
  since, or an app that was killed enqueues or removes something before its
  first load, with nothing in memory, and wipes its own list. An upload of a
  killed app is stranded when the reset, ahead of the load, does not find it.
  The invariants exempt exactly these, and TLC finds each case when the
  exemption is dropped.

Abstracted: a photo is enqueued once (the app compares hashes with the pending
items; a second attempt of the extension may enqueue it again under a new id);
an upload ends as done, cancelled or failed, the server having the photo or not
when the answer is lost; reading and writing the file succeed. (A file that
cannot be read or decoded leaves the app's list as it is and is an empty list to
the extension, whose next save then wipes it.)

## 3. What is checked

| Run | Properties | Instance | States |
|---|---|---|---|
| `aiqueue` | `Bookkeeping`, `NoLostWakeup`, `NoStrandedLine`, `NoZombieRow`, `RunnerIsActive`, `WaitEnds`, `OrphanSwept`, `ImplementsLine` | 2 callers, 3 rows, 1 fault | 172 k |
| `aiqueue_one_active` | `AtMostOneActive` violated | 2 callers, no fault | |
| `doc_pipeline` | `Settled`, `ReadyIsCurrent`, `EmbeddingIsCurrent`, `JobsEnd` | upload and retries, and either one request of any of 5 kinds or a cancelled queue, or 1 fault or outage; 2 defers | 515 k |
| `doc_left_classifying` | `NotLeftClassifying` violated | upload and a full re-queue, no fault | |
| `backup` | `NeverLeftPaused`, `MaintenanceMatchesPhase`, `BackupModeReleased`, `MaintenanceEnds` | 2 runs, 2 stops, 2 sessions, restarts | 138 k |
| `backup_snapshot` | `SnapshotInBackupMode` violated | 1 run | |
| `backup_stale_stop` | `NoStaleForceStop` violated | 2 runs | |
| `realtime` | `NoGap`, `AtMostOnce`, `SessionsEnd`, `Delivered`, `ImplementsFeed` | 3 events, 1 restricted, 2 connections, limit 1, crashes | 99 k |
| `realtime_resume` | `ResumeMissesNothing` violated | 3 events, 2 connections, limit 3 | |
| `photo_scan` | `TypeOK`, `SlotAccounting`, `FollowUpArrives`, `QueueDrains` | 2 slots; embedding and poi with every request, 2 faults; the face services with a forced rescan, and with a retry and 1 fault; quality switched off, with a cancellation | 887 k |
| `region_import` | `SavedAgrees`, `StatusTells`, `OneImport`, `ReadyIsComplete`, `FollowsLifecycle`, `ImportingEnds` | 3 requests and 1 fault, or 2 and 2; one run by hand, 2 imports at once | 1.09 M |
| `upload_queue` | `TypeOK`, `NothingLost`, `UploadingIsHeld`, `DrainEnds` | a photo with a file and one without; a session of the extension beside a request or a kill | 2.0 M |

The type invariants are all proved (section 4); those of the first four modules
and of `OsmRegion` are not checked again.

Why these bounds. *AiQueue*: three rows let a caller come back while the other
waits, and leave a row behind that nobody owns, so that a promotion chooses
between two; every race named in the hazards needs two callers and at most one
failure. Three callers and two priorities (2.4 M states) hold as well, and the
invariants are proved for any number. *DocPipeline*: each hazard
is one request, or one failure or restart, against one job; with two defers a
deferred job is retried once before its budget ends. `Budgets` says how many
requests and faults a behaviour may have; a request together with a fault (4.2 M
states) and two requests (9.0 M) were searched for the invariants once as well,
with the LLM service up, and hold. *Backup*: a third run adds
nothing but another overlap; 17 M states of it were searched without a
violation. *Realtime*: two events commit out of order and a third comes in
between; two connections are one resume; three connections (2.7 M states) hold.
A limit of 1 makes truncation happen. *PhotoScan*: every follow-up has two
services, and its hazards one request or failure beside it; with five services
and two slots a third claimed job waits. *OsmRegion*: a region has to be
requested, approved and then removed or re-imported, which is three requests; a
failed import that is tried again and fails again takes two failures. Two
overlapping ticks are the timer's and one by hand. *UploadQueue*: two processes
cross at one write of each, so one item they both know and one that only the app
can read are enough; what the kill leaves behind shows at the next start. One
session finds what the app enqueued as it would find what an earlier session
left.

Deadlock checking is on everywhere. `Quiet` in `AiQueue`, `DocPipeline`
and `PhotoScan` stutters exactly where the bounds or the absence of work let the system rest.

Mutants. Every property has a variant of one definition of the code
(`RegisterNobody`, `Queued`, `SignalBeforeMark`, ...), marked "Mutant" in its
module and named in `PROJECT.json`, with which TLC finds it violated.

### Fairness

* *AiQueue*: handlers run on, timers fire (the deadline of every wait), model
  calls have a time limit of their own, the cron keeps firing. No caller is
  promised a grant; `WaitEnds` holds because of the deadline.
* *DocPipeline*: workers poll every 30 s, so a claim that stays possible
  happens; jobs and requests run to their end. Nothing says that the LLM service
  recovers: while its health check fails classify and embed are not claimed, no
  defer is counted and they stay pending, so for these two `JobsEnd` asks for a
  check that succeeds from some time on, and for nothing else of the model (slots
  that time out, failing calls and a text that never comes use up the defers).
  For `text_extract` it holds unconditionally.
* *Backup*: timers fire, queries are answered or fail (the pool sets
  `connectionTimeoutMillis`), draining is bounded. `pg_dump` may take for ever
  until the abort signal kills it. No `/stop` is promised.
* *Realtime*: the server goes on with what it has begun, and what is on the
  wire of an open connection arrives. A dead socket is found by the heartbeat.
* *PhotoScan*: workers poll, so a claim that stays possible happens; jobs,
  follow-ups and requests run to their end. A pause, pressure or a model server
  that is down holds claims back as a whole and is assumed to be over in the end,
  so `QueueDrains` is about queue and slots, not availability. It exempts a row
  whose settling statement failed, which only a restart sets free.
* *OsmRegion*: timers fire, and ticks, imports, drops, saves and requests run to
  their end. No request is promised, `resume` included: `ImportingEnds` speaks
  of a job that is not paused.
* *UploadQueue*: a drain that has begun runs on, since every request has a time
  limit. No drain, session or restart is promised: `DrainEnds` says that one
  drain ends, not that a photo arrives.

### Where the code disagrees with what it says

1. **Two active slots** (`AtMostOneActive`, `ai-queue/api.ts:102`). Two
   conditional UPDATEs each see no active row. From then on every release
   promotes one, so the model stays doubled until both lines drain.
2. **A document left in "classifying"** (`NotLeftClassifying`,
   `documents/document-ops.ts:429`). A re-queue that meets classify at work
   finds its row active; classify ends, and the new text extraction sets the
   status back with no classify job left.
3. **The snapshot may be taken outside backup mode** (`SnapshotInBackupMode`,
   `backup/api.ts:206`). The session that called `pg_backup_start` lies idle in
   the pool while `pg_dump` runs, and the pool closes idle sessions.
4. **A stale forced stop** (`NoStaleForceStop`, `backup/api.ts:315`). Two
   `/start` pass the same check before its await; the first run's timer is
   overwritten, not cleared, and fires in the second run.
5. **An event may be lost on resume** (`ResumeMissesNothing`,
   `useRealtime.ts:298`). The cursor is the highest seq that arrived, and
   events arrive out of the order of their seq.

Seen while modelling and not stated as properties; where a property above would
fail by it, it is the case that property exempts.

* Documents: a retry of a failed `text_extract` alone puts the document into
  "classifying" with no classify job; `deleteJobsForDocument` of a locked file
  may drop the jobs of a re-queue that replaced the file meanwhile.
  `llm-client.ts:264-265` speaks of "an unbounded retry (no attempt cap, see
  scan-queue.ts deferJob)"; `deferJob` has a cap (`MAX_JOB_DEFERS`), and what is
  unbounded is the wait for the health check, which counts nothing.
* Realtime: `connect()` beside a pending reconnect timer opens a second socket
  that `disconnect()` does not close (`useRealtime.ts:329`); a session without a
  channel's permission moves the cursor past events of that channel, which a
  later session with it does not replay (`subscribe.ts:256`).
* Photos: `scan-queue.ts:284-291` says that queueing the poi job after the
  embedding "closes that race"; a poi run that is past its read keeps it open.
  A forced rescan of a row at work is swallowed when the first run settles that
  row by id. `scan-worker.ts:332-336` says timeouts of a model are deferred;
  `photo.service.ts:777` catches the detector's. A poi job whose geo service fails
  is "done" like one without a match (`poi-detection.ts:70-74`,
  `scan-worker.ts:426-434`).
* Cron: `documentation/handbuch/admin.md:143-144` says a running job cannot be
  started again; `fireJobNow` does not look at the status. The saved state of
  the jobs is read once, at the first `startLocalCron`: a job scheduled later
  starts enabled although paused, and its next save says so.
* Regions: `documentation/osm-admin-deployment.md` says a region `ready_running`
  has a complete database; after a restart `reconcileImportStatus` takes a partly
  loaded one for ready, and where its own query fails takes a complete one for
  missing and has it imported again. After such a restart two ticks may leave the
  entry "ready" beside a running import. The page lets an admin approve a `blocked_disk` region
  again, which `approve` refuses. Approving a failed region starts no import
  while the geo service remembers the failure. An import or a reconciliation that
  crosses a drop leaves an entry for a region that is gone. A failing poi
  backfill marks a region failed that is ready.
* Uploads: `documentation/ios-backup-sync.md:104-105` says that the list
  "survives app restarts"; a task that enqueues or removes something before the
  load of `register` (`BackgroundSyncManager.swift:70-72`) writes the empty list
  of the new process over it (`UploadQueue.swift:150-153`, `:327`). Lines
  108-115 say that a claimed item is invisible to the other process and that
  `resetStaleUploading` cleans up after a crash. The share extension uploads
  what it enqueues or takes over without claiming it, and the reset runs beside
  the load of the list it is to reset: if it comes first, an item stays
  "uploading" until it is removed. Each process writes its whole list over the
  file. An extension that is closed while it sends an item of an earlier session
  goes on to mark that item failed. Trying again after an error sends the items
  of earlier sessions once more and marks one that was done, its bytes gone,
  failed.

## 4. What is proved

For all values of the constants, under the named assumptions of each module
(numbers are numbers, markers are not members, sets of actors may be infinite):

| Module | Theorem | States |
|---|---|---|
| `AiQueueProofs` | `TypeCorrect`, `WellTyped` | `Spec => [](TypeOK /\ Bookkeeping)`, `Spec => []TypeOK` |
| | `NobodyIsStranded` | `Spec => []NoStrandedLine` |
| | `NoZombies` | `Spec => []NoZombieRow` |
| | `RunnersAreActive` | `Spec => []RunnerIsActive` |
| | `WakeupsArrive` | `Spec => []NoLostWakeup` |
| | `QueueImplementsLine` | `Spec => ImplementsLine` |
| `DocPipelineProofs` | `TypeCorrect` | `Spec => []TypeOK` |
| | `SettledInTheEnd` | `Spec => []Settled` |
| | `ReadyMeansCurrent` | `Spec => []ReadyIsCurrent` |
| | `EmbeddingMeansCurrent` | `Spec => []EmbeddingIsCurrent` |
| `BackupProofs` | `TypeCorrect` | `Spec => []TypeOK` |
| | `WorkersResume` | `Spec => []NeverLeftPaused` |
| | `MaintenanceIsTrue` | `Spec => []MaintenanceMatchesPhase` |
| | `ModeReleased` | `Spec => []BackupModeReleased` |
| `RealtimeProofs` | `TypeCorrect` | `Spec => []TypeOK` |
| | `HandledOnce` | `Spec => []AtMostOnce` |
| | `NothingIsMissed` | `Spec => []NoGap` |
| | `PageIsFed` | `Spec => ImplementsFeed` |
| `PhotoScanProofs` | `TypeCorrect` | `FairSpec => []TypeOK` |
| | `SlotsAddUp` | `FairSpec => []SlotAccounting` |
| | `FollowUpsArrive` | `FairSpec => []FollowUpArrives` |
| `OsmRegionProofs` | `RowsAgree` | `CronSpec => []SavedAgrees` |
| | `StatusIsTrue` | `CronSpec => []StatusTells` |
| | `ImplementsCron` | `FairSpec => CronSpec` |
| | `ImporterIsShownTrue` | `FairSpec => [](SavedAgrees /\ StatusTells)` |
| | `TypeCorrect` | `FairSpec => []TypeOK` |
| | `LoadedOnce` | `FairSpec => []OneImport` |
| | `ReadyHasItsData` | `FairSpec => []ReadyIsComplete` |
| | `LifecycleFollowed` | `FairSpec => FollowsLifecycle` |
| `UploadQueueProofs` | `TypeCorrect` | `Spec => []TypeOK` |
| | `NoPhotoIsLost` | `Spec => []NothingLost` |
| | `NothingStaysClaimed` | `Spec => []UploadingIsHeld` |

The arguments. No invariant is inductive as it stands; each proof has a
strengthening, one lemma per action or group of actions that disturbs it, and
the temporal step at the end.

*AiQueue.* `TypeOK` alone is not inductive: `AcquireFails` puts `mine[c]` into
`orphans`, which is a row only because a caller at that place owns one.
`Typed == TypeOK /\ Bookkeeping` is, and carries the rest: `OwnRow` (a caller
holds a row from its INSERT to the end, and its number is below `nextId`, so a
new row is nobody's), `OneOwner` (hence a deletion or wakeup concerns one
caller) and `InRegistry` (a caller between registration and unregistration is
registered or already woken). Each further invariant is inductive relative to
`Typed`. `NoStrandedLine`: the last active row goes only by `Delete` or `Sweep`,
which leave their actor at "promote", and a promotion finds nothing only if
every waiting row may be locked, by a caller that is itself about to activate
its row (`PromoteEffect`). `NoZombieRow`: the only ways out of `Holding` delete
the row or add it to `orphans`. `RunnerIsActive`: a running caller's row is
touched by its own `Delete` and by the sweep only, which takes stale rows.
`NoLostWakeup`: a row becomes active under a sleeping caller only by a
promotion, whose actor is then at "wake" and finds the caller registered. The
refinement maps each action to one step of `ModelLine` or to a stutter.

*DocPipeline.* `Flow` says where a job that is still owed is: promised by the
request being served, unclaimed in the table, or at work; "comes" is either of
the first two. While the document is not disturbed, a status that is not an end
state has a job that comes or is at work (`Carried`), and a text that will
change is followed by a classify and an embed job (`ReadersFollow`). `Reading`
adds what each worker has read against what the document holds now, which holds
because classify neither starts nor passes its check while a `text_extract` is
outstanding, and because a re-queue that overtakes a classify at work still owes
one of its own (`Kept`, which counts the requests that do). `EmbedCurrent`
follows the embedding: an embed job comes, or the one at work holds the current
text (`Fresh`), or it failed, or the text is embedded, or the document is parked
behind its password (`Parked`), which only a request that promises an embed ends.

*Backup.* `RunInv`: as long as no two runs overlapped, the prep at work is
`prepTask`, maintenance is on, the workers are paused, the phase is "draining"
or "dumping", and nobody else unwinds (`OneRun`). `PoolInv`: a session lies idle
or is held by one task that queries. `ModeOK`: a session in backup mode is the
one released last, so the next query takes it, with somebody there to end it, or
it is in the hand of one who does.

*Realtime.* `OnceAndKnown`: an event was handled once if it is known to the page
and never if not. For `NoGap`: what is above the cursor of a whole replay is
among the rows still to be sent, on the wire, handled, or about to be dispatched
to a session that is registered (`OwedOK`), and a truncation notice is never
ahead of a whole replay (`CutOffOK`). The refinement needs `FeedInv` besides: an
open connection is registered (`OpenIsServed`), so a live event reaches it; the
cursor is the highest seq handled (`CursorIsHighest`), so what the page names as
known is what the feed takes it to know; a wire carries one notice of truncation
at most (`EachToldOnce`), so that a cold start comes once; and the rows of a
replay lie above its cursor (`RowsAreAbove`), so that they were missed. Then
`Dispatch` is `Announce`, the first handling of an event `Handle`, `ReplaySend`
`CatchUp` or `CatchUpInPart` or, if its socket is gone, a stutter, and the query
itself changes nothing the page is promised.

*PhotoScan.* `SlotInv`: the counter is the number of workers past the line, the
line holds exactly the workers that wait, each once, and is empty while a slot
is free. `LineLemmas` says what joining and leaving a line do. `TypeOK` rests on
`Typed`, which says which services may have rows and what a request asks for at
each of its statements. `FollowUpArrives` speaks of the end and has to be
followed from the beginning. `Owned`: until something is lost, a worker that is
not idle still has its row. `SeenInv` relates what a job has read to what is
there: a run that ends having read what is there has written its result.
`FollowInv` then says, while nothing is lost and an embedding or faces are there,
that each job which follows has its result, or comes (`Comes`: its row is queued,
at work, failed, or owed by the request being served), or will be queued anew
(`Renewed`: its follow-up is pending, or the job it follows comes); and that a
run which is past its read without having seen them (`Blind`) is renewed, which
is the case of a follow-up that meets it. A step that would break this is one
that the history `lost` names.

*LocalCron, OsmRegion.* `CronInv`: a run at its save has its own save under way,
the last save tells the flag unless mixed, and a run that is alone is the one
the status speaks of. It is proved once, of `CronSpec`; `ImplementsCron` shows
that every step of the region is a step of the cron or leaves it alone, so both
theorems hold of the importer. Of the region itself, `EntryTells`: unless the
entry was changed under an import, imports are one at a time, none has lost its
connections and the entry tells whether there is one (`ImportsApart`); it needs
nothing of the ticks, since `startImport` looks and starts in one step, and so
holds whatever fails or restarts. `DataInv`: without a disturbance "ready" means
a full database whether the row, the tracker or a tick about to write says it
(`ReadyIsReady`), and a drop is alone (`DropsAlone`). `SeesRow`: a tick or
request whose view is not marked stale has seen the row as it is, which is what
makes its write an arrow.

*UploadQueue.* `Kept`: who reports an upload as done has been told that the
server has it (`Told`), a list names only what was enqueued (`Listed`), and the
extension's next write is of a new item that has its bytes, leaves out what the
user has taken off, or marks what it has read (`BeingEnqueued`, `BeingCancelled`,
`BeingMarked`). With it a write over an unchanged file takes a waiting photo off
the list, or its bytes away, only if the photo is stored or dropped; a write over
a changed one makes what has changed clobbered. `HeldInv`: an item shown as
uploading, in memory or in the file, is the drain's (`Held`), and memory agrees
with the file about the drain's item (`SeenByDrain`), so that a reset which finds
nothing has missed nothing but what it notes as stranded.

Only model-checked: liveness (`WaitEnds`, `OrphanSwept`, `JobsEnd`,
`MaintenanceEnds`, `SessionsEnd`, `Delivered`, `QueueDrains`, `ImportingEnds`,
`DrainEnds`), which the prover does not reach under fairness, and the properties
the code violates, each by a counterexample.

## 5. Not modelled

* A nested `withAiSlot` (`slot-helper.ts:172`) runs without a row of its own.
* Of the documents: what the jobs compute, and the jobs beside the pipeline
  (page words, tax values, receipts), which have no follow-up.
* Of the backup: the restore at startup and the guards in front of requests.
* Of realtime: retention, page reload, several pages of one user (they do not
  share a cursor), and the page's own handling of its socket.
* Of the photo queue: `enqueuePoiDetectionForMissingMatches`, the services that
  read nothing another job writes (geocoding, thumbnails, text, landmarks), the
  pause, pressure and health flags in front of a claim (all of them can only hold
  a row back that is still pending), several photos and users, recaps and
  regrouping.
* Of the regions: queries, replication and its healing, refresh, the cache of
  extracts, suggestions.
* Of the uploads: PhotoKit's background jobs, the metadata fast path, albums,
  failed reads and writes of the file, and what the upload of a dismissed extension still
  does (it may end, and mark its item, while the process lives).
* The llm service's reload: `main.py` and `llama_supervisor.py` share the server
  process between a loader and a watcher (`main.py:238`); see the plan.
* Accounting, planning, search, rendering and views: what can go wrong there is
  a figure or a picture, not an order of events. Invites and
  handover tokens are spent by one conditional statement each.

## 6. Plan

The order is by how much depends on the component and how hard it is to test.
Done: ai-queue, documents, backup, realtime, photo scan queue, local cron, map
regions, upload queue, and the theorems of section 4. What could follow:

1. **RealtimeBus**: several sockets of one page (timers, `connect`,
   `disconnect`), composed with `Realtime`.
2. **ModelReload**: reload, rollback, lease and the watcher thread. Questions:
   a crash has exactly one owner, a failed reload leaves the old model.
3. **FeedPush** and **TanDialog**, if they show questions of their own.
4. **ScanQueue**: the abstract queue of rows, claims and settlements that the
   document and the photo pipeline share in their statements, as a module both
   implement.

# Lancache orchestrator: TLA+ specifications

The orchestrator keeps a lancache filled: it syncs the operator's Steam and Epic
libraries into a SQLite database, prefills games through an agent that runs
beside the cache, measures on disk what is really cached, and tells Uptime-Kuma
and `/health` how it is doing. It is one asyncio process with one worker task,
plus an agent that is another, so its hard behaviour is not parallelism but
interleaving at every `await`: HTTP triggers, scheduler ticks, the worker,
background replacements and cancelled tasks share SQLite tables, files, locks and
module variables. This directory specifies that behaviour, model-checks it on
small instances, and proves the central properties for every instance.

## 1. The system

Sources are under `src/src/orchestrator` unless a path says otherwise.

| Component | State | Operations | What makes it correct | Here |
|---|---|---|---|---|
| Job queue (`jobs/worker.py`, `jobs/reaper.py`, `db/migrations`) | table `jobs`, the worker's local variables | claim, dispatch, mark with retry, heartbeat, boot reap | one job in flight per key; recorded outcome = real outcome; every queued job is claimed | `JobQueue`, `JobLedger` |
| HTTP triggers (`api/routers/*_trigger.py`, `sync.py`, `epic_*.py`) | table `jobs` | check, force upgrade, insert, re-read | a force is never recorded for a run that did not force | `JobQueue` |
| Scheduled ticks (`scheduler/jobs.py`) | `jobs`, `prefill_exclusions` | bulk and single INSERTs, classification | dedup with the triggers; the operator's word | `JobQueue`, `Curation`, `EpicLibrary` |
| Cache truth (`jobs/measurement.py`) | `games.status`, `measurement_transitions`, notice clock | record, trip, notify | the breaker bounds recorded loss; the log explains the status | `Measurement` |
| Measuring handlers (`jobs/handlers/{sweep,validate,purge}.py`, `jobs/sweep_pass.py`) | `sweep_pass`, `validation_history`, tasks | sweep, full sweep, validate, purge | a closed pass covers the library; a purge is measured | `Sweep` |
| Writer (`db/pool.py`) | writer connection, lock, flags, transaction | single write, write transaction, heal, replace, close | honest answers, no leak, no dead writer in use | `WriterConn` |
| Readers (`db/pool.py`) | queue, slots, flags, deficit | acquire, heal, release, replace, teardown | slots conserved, no connection in two hands | `ReaderPool` |
| Lifespan and scheduler manager (`api/main.py`, `scheduler/manager.py`) | tasks, scheduler, pool | start, failing start, stop | only what the stop cancelled may meet a closed pool | `Boot` |
| Migrations (`db/migrate.py`, `cli/commands/db.py`) | `schema_migrations`, the schema | check, apply all in one transaction | all or nothing; no gap, no drift; an interrupted upgrade resumes | `Migrations` |
| Reachability probe (`lancache/heartbeat.py`) | cached result, one-shot flag, lock | probe, refresh, invalidate | an invalidation is never swallowed | `Probe` |
| Agent runs (`agent/routers/steam.py`, `pull.py`, `agent/jobs.py`, `platform/steam/prefill_driver.py`, `selection_file.py`, `clients/agent_client.py`) | gate, job store, tasks, selection and sidecar | post and poll, prefill, fetch, pull, prune, time out, stop, crash | one SteamPrefill at a time; ok means that very work ran; a selection that was there comes back | `AgentJobs`, `AgentSteam` |
| A Steam app's cache (`agent/routers/steam.py`, `manifest_locator.py`, `downloaded_depots.py`, `validator/`) | manifests, chunk files, SteamPrefill's record | prefill, fetch, validate, purge | green means on disk; a purged game comes back | `SteamCache` |
| Manifest archive (`agent/manifest_archive.py`) | archive, temporary files | background sync, capture | an archived manifest is whole, and gets there | `Archive` |
| Manifest enumeration (`platform/steam/manifest_fetcher.py`, `jobs/handlers/fetch_manifests.py`) | sidecars, tally, monitor | start, helper, archive, sum up, heartbeat | every title is accounted for | `ManifestFetch` |
| Curation (`jobs/handlers/library_sync.py`, `platform/steam/store.py`, `selection_classifier.py`, `api/routers/prefill_exclusions.py`) | `steam_app_info`, `games`, `prefill_exclusions`, the selection | sync, classify, exclude, reconcile, prune | the operator's word stands and takes effect | `Curation` |
| Epic (`platform/epic/`, `jobs/handlers/prefill.py`, `agent/puller.py`, `agent/routers/epic.py`) | tokens, library, manifest rows, chunk files | login, refresh, sync, prefill, validate, purge | the session survives; downloads end; what was pulled is found | `EpicSession`, `EpicLibrary`, `EpicChunks` |
| Cache guard (`src/tools/cache_catcher/`) | deletion times, last alerts, monitors, history of keys | event, alert, liveness tick, daily probe, restart | a loss is told while pushes arrive within the latch; nothing else is | `CacheGuard`, `KeyBudget` |
| Read API, middleware, clients, settings, CLI output | none, or local to one request | queries, parsing | | not modelled (section 6) |

How they interact. Triggers, ticks and a finishing prefill INSERT rows of `jobs`;
partial UNIQUE indexes make the insert a no-op when the key is in flight. The
worker claims the oldest row, runs one handler at a time, records the outcome and
pushes a heartbeat if the scheduler asked for the job. Handlers call the agent by
POST and poll, and record what it measured through `record_measurement` alone.
Every statement goes through the pool: writes queue for one lock, reads share N
connections. On boot the schema is migrated, the pool opened, the reaper fails
what a previous process left running, and then the worker and the scheduler
start; on stop the scheduler goes first, then the worker, then the pool. The
agent and the database agree by files alone: manifests say what a measurement
counts, the selection file what SteamPrefill downloads.

Hard behaviours, by place: a row or file read before an `await` and used after it;
cancellation in the middle of a statement, a sweep, a lock wait or a process's
grace period; background tasks that outlive their caller; copies and records that
several parties read, edit and replace; retries that give up; tokens spent by an
answer that is then lost; crashes between two steps; breakers, guards and notices
at their thresholds. `PROJECT.json` lists each at its line with the property that
covers it.

## 2. Modules and how they correspond to the code

One SQL statement, one write transaction or one file operation is one step. A
handler of several is several actions, and everybody else may run in between. A
failed call is an action that spends one of a module's bounded faults.

**`JobQueue`** (with `JobLedger`, `JobQueueMC`, `JobQueue_proofs`). `jobs` is the
table in id order; a row carries its dedupe key `<<kind, scope>>`, its payload as
a flag, its source and state. `worker.pc` follows `worker_loop`: `idle`, `run`,
`mark`, `reject` (no handler), `beat` (heartbeat), `dead`, `off`. `reqs[r].pc`
follows one HTTP request, `proc` the lifespan, `kuma` is what the monitor last
heard. `Offered` limits which keys the environment asks for; `Legacy` are rows of a
retired kind. `JobLedger` is what the queue promises, without triggers, payload or
process: one ticket in hand, oldest first, ended only by its holder or by the
reaper while nobody holds one.

**`Measurement`** and **`Sweep`** (with `SweepMC`, `Sweep_proofs`). `Measurement` has
the breaker, the transition log and the notice clock as operators; `Sweep` adds
the handlers. `task[g]` is where the measurement of game g stands; `run` is the
handler in hand with the pass it read and whether a trip or the deadline cut it;
`orphans` are tasks of a cancelled sweep whose stamp is still on its way. Two
events in a tick of the clock share a timestamp, as two in a second do in SQLite.

**`WriterConn`** and **`ReaderPool`** (with `PoolMC`, `Pool_proofs`). `line` is
the asyncio lock: its head holds it. `op[w].pc` is the statement that write w
awaits; `txn` is the transaction of the installed connection and the writes in
it; `swapper[w]` the background task that w's loss spawned. A cancelled statement
may still run, because a connection executes on a thread of its own: both
outcomes are steps. In `ReaderPool`, `queue` is `_readers`, `slots` `_reader_pool`,
`healthy` `_reader_healthy` (index 0 stands for the key -1 of a connection without
a slot), `lost` `_lost_reader_slots`.

**`Migrations`**, **`Probe`**, **`Boot`** (with `SchemaHistory`, `BootMC`, `Boot_proofs`). A migration is
an id and a content; its script is a sequence of statements on tables, so that
"applied halfway" has a meaning. `db` is what is committed, `txn` a runner's write
transaction; the app and the operator's command line are two runners. `SchemaHistory`
is what the migrations promise, without runners, transactions or statements: the
database has the whole schema of one image, and an upgrade takes it in one step to
that of an image that continues it. `_expected_tables_for` folds over the scripts;
`ExpectedTables` says what comes out (created and not dropped later), and `BootMC`
lets TLC compare the two for its images (`TablesAgree`). `Probe` has
the cached answer by its age, the line of the lock, and for each client what it
was told. `Boot` composes both with the lifespan: `life` is where start or stop
stands, `worker`, `sched`, `tick` and `pool` what it has started. Nobody waits for
what the stop cancels: `tick` may be cancelled and still there, and a worker that is
cancelled in a sweep may leave `orphans`, the tasks of that sweep.

**`AgentSteam`** (with `AgentJobs`, `AgentSteamMC`, `AgentSteam_proofs`). `AgentJobs` is
the job store as operators, its eviction included. `task[j]` is the background
task of job j: `new`, `spawn` (the selection is overwritten, the process starts),
`run` or `term` (between SIGTERM and SIGKILL); `procs` are the processes alive,
`file` and `bak` the selection and its sidecar. There may be no selection at first;
`curated` remembers that there was one or that a prune has written one. `call` is the call of the worker
and `net` the POSTs sent and not handled: one whose caller gave up is handled all
the same. `Stop` is the lifespan, which cancels every task; `Crash` is the death
of the container.

**`SteamCache`** (with `SweepMC`, `SteamCache_proofs`). `shelf[d]` are depot d's
manifests at hand, oldest first, `.bin` or `.shas`, with the chunks that a parse
gets out of each: all, fewer or none; `disk` the chunk files by cache path; `record`
SteamPrefill's own list of builds downloaded. SteamPrefill (external) skips the
depots on record, downloads the others one by one and saves its memory of the
record at the end. Validate locates one
manifest per depot, parses, stats chunk by chunk and counts; purge locates every
manifest, unlinks, and edits the record by read and replace.

**`Archive`**, **`ManifestFetch`**, **`Curation`** (with `ContentMC`, `Content_proofs`).
`Archive` follows each copy of a manifest from opening a temporary file to the
rename and the time stamp, for the loop and for the capture after a prefill.
`ManifestFetch` keeps what the helper (external) said of each app, its exit, the
counters as the code adds them up and the heartbeat. `Curation` steps through a
library sync with its fetch budget, and through the five awaits of a classify
tick; `asked` remembers the operator's last word on an app. The selection has a
`form`: a list, missing, or garbled by a write that was cut short. A run of the agent
borrows the file: `lent` is what it will put back, which undoes a prune made in
between. A tick prunes a list and leaves any other file alone; SteamPrefill's own
`--select-apps` writes a good one.

**`EpicSession`**, **`EpicLibrary`**, **`EpicChunks`** (with `EpicLibraryMC`,
`Epic_proofs`). A refresh token belongs to a login and is spent by its use; `mem`
is the client's, `file` the persisted one, `alive` the logins Epic honours. Saving
truncates the file before it writes, so a save that fails leaves the old token, none
or the new one (`FailedSave`), and `unsaved` remembers that.
`EpicLibrary` adds the library, the ticks and the jobs that use the session;
`EpicChunks` the manifest rows by format, the pull with its slots and attempts,
and validate and purge by every configured cache identifier.

**`KeyBudget`**, **`CacheGuard`** (with `ContentMC`, `Content_proofs`). The thread that reads events and
the one that pushes liveness share the times of the last alerts; times are ages,
and the clock waits for a thread that is due. Objects are counted against the
nearer of two ceilings and their history is extrapolated. A history that cannot be
read is empty and the trend then unknown; a row that was cut short parses with some
other number of objects.

External behaviour that the code relies on and that is modelled from its use: a
write transaction of SQLite is atomic; an `asyncio.Lock` is FIFO; a statement sent
to aiosqlite may run although its caller was cancelled; a push may be lost; a
rename replaces a file at once; SteamPrefill, the manifest helper, the store and
Epic answer as described above.

## 3. What the runs check

Modules that share no variable are checked in one run when they belong together:
the MC module picks one of its `Parts` at the start and takes the steps of that
part alone, so the states add up and every property is checked of its own part.

| Run | Instance | Shows |
|---|---|---|
| `queue_safety` | 1 game with prefill and validate, a sweep, 2 requests, 3 faults, 1 restart | the payload in hand is the one that was read; recorded outcomes are real and a prefill leaves its validate; green monitors are the scheduler's; the queue implements `JobLedger` |
| `queue_live` | 1 request, 3 faults, 1 restart, no legacy row, fair | every queued job is claimed; every job in flight ends, or faults stranded it |
| `sweep` | 2 games, threshold 2, window and backoff 1, clock of 2, batch of 2, 2 jobs, 1 failure; and one app of 3 depots, one with 2 builds, a second build, a validate or purge, one harm | breaker, log, notices, pass coverage, measured purges; green rests on files, a purged depot comes back |
| `pool` | 2 readers, 2 coroutines, 3 faults; 2 writes of either kind, 2 faults, 1 cancellation; storm limits of 1; fair | slots conserved, green `/health` is whole, answers honest, the writer tracked, its lock never left with a task that is gone; no read and no write hangs |
| `agent` | 3 calls, one app with and without force, a store of 1 job, a selection or none at first, 1 prune, 1 write or start that fails, 1 stop or crash, fair | single flight, honest answers, a selection that was there returned, gate freed |
| `boot` | 7 images, 5 hosts, 2 starts, 1 fault or death, 1 command-line migration, 2 probes, 1 invalidation, fair | the migrations implement `SchemaHistory`, the app opens on its own, an interrupted upgrade resumes; invalidations land; only what the stop cancelled meets a closed pool |
| `epic` | 1 game, 1 login, 1 fault, 1 act of operator or cache; 2 logins beside library syncs alone; 2 builds that share a chunk, 2 hosts, 2 pulls, 2 slots, 2 attempts, 1 mishap; fair | the session survives a restart unless a save failed, downloads end, a validate finds what was pulled |
| `content` | 2 apps in `Curation`, 2 acts, 1 fault; 1 manifest, 2 failures in `Archive`; 3 titles, 2 runs in `ManifestFetch`; 3 events, 3 lost pushes or restarts in `CacheGuard`; 3 days in `KeyBudget`; fair | the operator's word wins, and takes effect in a selection that can be read, beside the runs that borrow it; archived manifests are whole and arrive; titles are accounted for; the monitors tell a loss while pushes arrive within the latch, and are green on room in what the probe could read |
| `agent_orphan` (violation) | 1 call, 1 stop | a stop between SIGTERM and SIGKILL orphans the process, against `test_prefill_driver.py:200` |
| `writer_cancel` (violation) | 1 cancellation | a cancelled `execute_write` is not rolled back, against the pool design (line 399) |
| `epic_login` (violation) | 2 logins | the client keeps asking with a dead token beside the operator's new one, against `client.py:4` |
| `steam_pin` (violation) | 1 app, 2 builds | a validate takes the newest manifest, not the one prefilled, against `manifest_locator.py:61` |

Why the bounds are enough. Three faults in the queue are what exhausts a mark's
retries, the only place where it counts failures; one restart gives every pair of
a state before and a state after. Two requests and the worker are the parties
that the trigger races need. In `sweep`, threshold 2 makes the first drop pass and
the second trip inside a window that the clock can leave (window and backoff are
one tick here; `BreakerCorrect` and `NoticeCorrect` prove their properties for
every value); two games are two
concurrent tasks, two batches of one, or a game that enters the library during a
pass. The Steam app has what can be told apart: a depot with an old and a new
build, one that SteamPrefill does not select and a shared one. Storm limit 1
instead of 3 lets two replacements in a minute reach the guard; two readers are
the least for which one slot's replacement can be confused with another's, and
three faults are what such a confusion takes. Three calls of the agent are a run,
a late POST of an abandoned one, and a successor; a store of one job makes every
creation evict. The images of `boot` are a fresh and an upgraded one, an edited
file, a hole, a script that loses a table, an unreadable manifest and a wrong pin;
two processes are the one that dies in the upgrade and the one that finds it.
Two logins are a session and the one that replaces it; the library's jobs see of a
session only whether a call is answered, so one login is enough for them. In `content` two failures
let one copy die and the other fail; the counts of keys lie below, at and above
three quarters of the nearer ceiling, and their rise reaches it within the horizon
or does not. Latch and cooldown are four intervals and one, as an hour and a quarter
of one are for a liveness loop of a quarter: three lost pushes are what makes the
latch run out before the cooldown lets the next alert through, so the run reaches
both sides of that condition.
In `content`, the curation begins with one app prefilled, the store information of an
old release, and a selection that is what was prefilled, or none; the host's operator may
change it at once. A part that is not taken begins empty, so that it multiplies nothing.

Deadlock is checked in `queue_safety`, `queue_live` and `sweep`, which stutters where
the Steam part has spent its bounds (`SteamRests`). It is not checked for the
others, which really may stop: a closed pool, an agent whose calls are spent, a
process that a bad image keeps from starting, a library with nothing to do, a
manifest helper that ended and a guard without events.

Fairness. `JobQueue`: weak fairness of the claim, of the handler (bounded by
`wait_for`), of the mark, the heartbeat, and of the boot steps: the event loop
runs what can run and the container restarts the process. `WriterConn`: of each
operation's and each replacement's next step. `ReaderPool`: the acquire timeout
fires and an open returns or raises (weak), the heal lock is granted (strong: it
is FIFO); a reader in use is never owed back, which is why the timeout matters.
`AgentSteam`: for each task, of a run's first write, its process start, its time
limit and the kill that follows, and of time; a process is not owed an end of its own, nor a
caller an answer. `Boot`: of the migration the app runs and of each step of its
start. `EpicLibrary`: of the worker. `Curation`: of a tick's next step, an interval
job. `Archive`: of the background loop. `CacheGuard`: of its two threads and of time.
Requests, ticks, logins, stops, crashes and faults are never owed.

Every property is broken by at least one mutant, a plausible bug in the code that
the module keeps next to the definition it changes (`\* Mutant of ...`).

## 4. What is proved

The theorems hold for every value of the constants under the assumption that each
module names; the lemma per action and the inductive invariants are in the
`_proofs` modules.

- `JobQueue_proofs`: types, `InFlightUnique`, `PayloadHonest`, `ClaimHeld`. None is
  inductive alone: `PayloadHonest` needs to know that the claimed row is running,
  since the upgrade only touches queued rows; `ClaimHeld` that the reaper runs only
  while the worker is off; uniqueness that inserts test the open rows. On top of
  that invariant, `OutcomeHonest` and `GreenIsScheduled` by a second one (`Hist`): the
  worker's `ok` says whether its job returned, no row is running in nobody's hands
  unless a fault stranded it, and a beat for a success comes after its mark. And the
  safety part of `FlightEnds` (`NoStray`: while the process is up, a row is running in
  nobody's hands only where a fault stranded it), and the
  step refinement of the ledger (`ImplementsLedger`): every insert, claim, mark, reap
  and force upgrade is a step of `JobLedger` or a stutter, any number of rows at once
  for the reaper.
- `Pool_proofs`, the readers: types, `SlotsConserved`, `HeldOnce`, `GreenIsWhole`. A heal in
  progress has a lost slot to fill (`HealBound`), a slot number in hand is within
  the list (`SlotsThere`), no connection number is given twice (`Known`), and queue,
  clients and replacements never share one (`Separate`). `GreenIsWhole` is a
  pigeonhole: distinct healthy slots hold distinct connections that circulate, and
  `SlotsConserved` leaves no room for a lost slot once there are `readers_count`.
  The writer: types, `AnswersHonest`, `WriterTracked`, `LineServes`. An operation past the lock heads
  the line (`Excluded`); where an operation stands says what the database and the open
  transaction hold of it (`Rows`); connection numbers are given once, a replacement past its mark holds a connection that is closed or
  about to be, and two replacements never hold each other's (`Links`). The last is
  what keeps a heal on checkout from installing what a replacement closes. `LineServes`
  is the safety part of `Served`: whoever fails, is cancelled or loses its connection,
  the line for the lock holds each task that waits or works once, and nobody else. It
  is inductive with the writer's invariant (`Lined`): an entry is appended by a task
  that is not in the line and removed by the one that is first, or where a waiting
  one was cancelled (`AppendOnce`, `TailOnce`, `WithoutOnce`).
- `AgentSteam_proofs`: types, `SingleFlight`, `SelectionReturned`, `PrefillHonest`. A
  prefill task holds the gate, so there is one at most and the process is its own
  (`Gated`, which needs that the store never evicts a running job, `CreateKeeps`); a
  POST the call still waits for is its own (`Posted`); the job a call polls is a run
  of its work (`Served`); what a run will put back is the
  operator's, if there was anything (`Kept`).
  `GateIsRun` is the safety part of `GateFreed`: a request is refused exactly while a
  run is alive, so a gate never outlives its run and no run lives without it.
- `Sweep_proofs`: types, `BreakerHolds`, `LogExplainsStatus`, `PurgeIsMeasured`,
  `NoticePaced`, `PassCovers`, the last two as action properties. `TruthSteps`
  says in which ways a step changes cache truth; the breaker needs that no row
  of the log is of the future (`Dated`), the log that each game's rows form a chain
  to its status (`Explained`), purges that only the run in hand leaves a deletion
  unrecorded (`PurgeInv`), passes what a gated sweep still owes (`PassInv`), notices
  that the slot is reserved for as long as the operator was told (`NoticeInv`).
- `SteamCache_proofs`: types (with those of `Sweep`, `BothTypeOK`), `PurgedComesBack`
  and `GreenIsOnDisk`. Of the first, every copy
  of the record that may still be written back lacks what is owed, or belongs to
  the one order that the code gives up (`RecordInv`). Of the second, what was
  counted so far adds up to the paths of the depots looked at (`Accounted`, by the
  cardinality facts of the library).
- `Content_proofs`: types and `OperatorWins` of `Curation`; types and `ArchiveWhole` of
  `Archive`, because what a copy is about to publish was filled and nobody else
  writes under its name (`Filled`). `FetchAccounted` of `ManifestFetch`: while it
  archives, the counters account for the titles dealt with so far, cardinality by
  cardinality (`ShelfRun`), for any titles, manifests and order of archiving. Of
  `CacheGuard` and `KeyBudget`, types and the safety parts of `AlarmTellsLoss`:
  `StandsUntilTold`, because the age of an alert that was not told is bounded by
  where the liveness thread stands (`Fresh`: it may hold an `up` that it read before,
  but then no interval has passed since), as long as lost pushes and the cooldown stay
  below the latch; `NoFalseAlarm`; and `GreenIsRoom`, an action property of the rows
  that the probe could read, because the days of the history rise (`DaysRise`). All five components'
  types together are `ContentTypeOK`.
- `Epic_proofs`: `RestartKeepsSession`, because a refresh is asked with the token in
  memory and what is in memory is in the file even then, unless a save failed and none
  has succeeded since (`AsksOwn`, `Saved`);
  `PulledIsFound`, because after a clean prefill the one newest row's chunks are all
  there under some identifier (`RowsInv`, `PullInv`, `SoundInv`); the types of
  `EpicLibrary` and of `EpicChunks`; and `Rechecked`, the safety part of `DownloadsEnd`:
  unless something failed, a game that is wholly on the disk is known to be there or
  its validate is on its way, queued, running or next in the prefill that brought it.
- `Boot_proofs`: `InvalidationLands` (the flag is clear only when the refresh under
  way, or the one that brought the answer, saw the last invalidation);
  `LateUsersAreCancelled` (each user lives within a stretch of the lifespan, and what is
  left when the pool closes is a cancelled callback or a cancelled sweep's task); as an
  action property, `OpensOnOwn`; `SchemaIsUpgrade`, `ImplementsHistory` and
  `NeverStranded`. For `OpensOnOwn` (`OwnInv`), one runner at a time is
  inside the transaction, what it has recorded are its own image's rows and extend
  what was committed, and what is still to do are the rest; so once it is done the
  table holds at least its rows, nobody takes one away, and the check at the opening
  leaves no other. It needs the drift and the gap check of `begin`, and that ids are
  done in ascending order (the least id exists by well-foundedness).
  `SchemaIsUpgrade`: for every set of images, what is committed is nothing, or the
  rows of one image that passed its checks together with tables that its scripts lead
  to, each statement run on what
  the one before it left. Its invariant is the upgrade under way (`Partway`: the rows
  written so far are 1..n, their scripts have run whole, and of the next one the
  statements before `stmt`). It needs that an image's files are finitely many and
  that scripts are sequences (`MigrationsAssumption`), and the gap check, by which
  the finite ids are 1..m.
  `ImplementsHistory` builds on it: a commit is one step from the whole schema of one
  image to that of an image that continues it, and everything else a stutter. That the
  tables are exactly those of `ExpectedTables` has two halves. The check before COMMIT
  looks for the missing ones. That there is none besides is an argument along the
  scripts (`ScriptLeaves`, by a least counterexample): a table that exists was
  created, or is the new name of a renamed one, by a statement after which nothing
  dropped it. The second case is the one that `_expected_tables_for` cannot see, since
  it does not read `ALTER TABLE ... RENAME`; `RenamesAssumption` excludes it: a script
  drops what it renames, as `0012` does, the only one that renames. Without that the
  code would commit a schema with a table that no check expects.
  `NeverStranded`: whatever was committed, an image that passes its own checks and
  continues the rows is not refused by the gap, drift or table check, so no crash or
  failed upgrade leaves a database that the next start cannot take up; the safety part
  of `Resumes`.

Out of the prover's reach and left to TLC: all liveness (`QueuedIsClaimed`,
`FlightEnds`, `GateFreed`, `Resumes`, `DownloadsEnd`, `ReadsAnswered`, `Served`,
`SelectionConverges`, `ArchiveCatchesUp`, and of `AlarmTellsLoss` the part `LossIsTold`),
ENABLED, and that `ExpectedTables` is what the fold of `_expected_tables_for` computes
(`TablesAgree`, evaluated for the images of the run). Every invariant, every action
property and both refinements that a run checks are theorems.

## 5. What the modelling met

Four disagreements are runs that TLC refutes (section 3, findings in
`PROJECT.json`). The following are behaviours of the code that the models contain
or that reading them out of the source showed, without a run of their own.

*Queue and pool.* A row of a retired kind whose `mark_failed` is exhausted ends the
worker loop (`worker.py:217-220`, against 179). A forced POST that loses the insert
race gets an unforced job (`prefill_trigger.py:110`, against 73-75). A heal may take
the slot of a replacement under way and leave another unhealthy for good
(`pool.py:874`, against 871-873). The stop does not wait for what it cancels:
APScheduler's shutdown cancels coroutine callbacks and returns (against the comment at
`scheduler/manager.py:225`), and a worker cancelled in a sweep leaves the tasks of its
`gather` (`jobs/handlers/sweep.py:198-204`, 256). Both may meet a closed pool (against
`api/main.py:299-300`), and what they were about to write is lost.

*Selection.* Where there was no selection file, nothing is put back: the first run's
list of one app stays for the host's cron (`prefill_driver.py:198`, 203, against the
docstring, lines 1-4). A write that is cut short at line 199 or 204, or in a prune
(`agent/routers/steam.py:307`), leaves a file that no tick repairs, since a tick leaves
a file that does not parse alone (292-297); one at 199 also loses the operator's
list, because `prior` is put back only from the `try` on (200-204). A prune while a
run holds the file is undone when the run puts its list back.

*Agent and archive.* `prune_selection` does not look at the prefill gate
(`agent/routers/steam.py:284-312`, against 211). The capture after a prefill copies
without a settling time, so a manifest that is still being written may get its
final name half; `ArchiveWhole` is about copies that were cut short. A sidecar is
written in place (`manifest_fetcher.py:173-186`): after a death in the middle the
file exists and is skipped for ever. An app that is no longer selected and has some
of its sidecars is not enumerated again. A prefill that starts beside a fetch makes
it read the borrowed selection. A truncated manifest may parse to part of its
chunks, because a slice past the end is no error (`manifest_parser.py`, against
`agent/routers/steam.py:330-331`).

*Purges.* A purge whose record could not be cleared is not healed by repeating it:
nothing is deleted the second time, so the clear is skipped. The same holds after
a death between unlink and clear. `downloaded_depots.py` names two orders of read
and replace; a third, SteamPrefill saving between our read and our replace, drops
the whole update of that run.

*Epic.* A chunk evicted during its own pull is counted as pulled. A new build of
another content under the same format replaces the row, and the old build's chunks
are never purged. A tick between the end of a prefill and its validate enqueues
once more (`prefill.py:389-391`). A successful library sync does not reset
`auth_status` from `expired`. A failed save of a token empties the file first
(`oauth.py:105-108`): the client goes on with the one in memory, and a restart finds
none.

*Curation.* The docstring at `scheduler/jobs.py:220-221` says that a multiplayer-only
title is never excluded automatically; the classification excludes it.

*Cache guard.* A loss is never told if pushes fail for so long that the latch runs out
before the cooldown lets the next alert through (`fanotify_guard.py:174-184`,
362-375). A key history that cannot be read is an empty one
(`key_budget_probe.py:153-154`), and a row cut short may flatten the line; the verdict
is then "up" with an unknown trend, where `tests/tools/test_key_budget_probe.py:81`
says that the operator is told something is wrong (the message says so, the monitor
stays green). `liveness_loop` reads the last alert, then pushes: an alert pushed in
between is painted over until the next tick, against `fanotify_guard.py:65`. A
restart forgets latch and cooldown, against line 71.

## 6. Not modelled, and why

- Read API, HTTP middleware, correlation ids: read-only or local to one request.
- Settings, logging, output of the CLI: no state that interacts.
- Bytes: manifest parsing is the set of chunks that comes out of it, a cache key an
  injective name, fanotify records the kind of event they mean.
- APScheduler's own misfire and coalescing rules; the retries of a connection that
  was never made; children that keep a pipe open after their parent's exit.
- Two rows of the key history glued to one, or one whose time stamp is cut short: the
  model cuts the number of objects.
- `prefill/downloader.py`, which nothing calls.
- The host's cron beyond its use of SteamPrefill and the selection file; `spikes/`.

What could come next: two games in `epic`.

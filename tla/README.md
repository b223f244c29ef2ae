# Formal models of the Onshape Export Manager

TLA+ modules, TLC configurations and TLAPS proofs about the program in `src/`. The code is the
reference; paths below are relative to `src/onshape_export_manager/` unless they start with `src/`.
`PROJECT.json` maps each definition to the lines it models, lists the runs, the properties each
checks, a mutant of the code for each property, the hazards of the code and the theorems.

    tlc -workers 2 -config queue_contended.cfg MCExportQueue    # a run
    tlapm ExportQueueProofs.tla                                  # the proofs of a module

The module and the configuration of each run are in section 3. A run takes between ten seconds and
three minutes with two workers; the proofs of one module take up to five minutes from nothing.

## 1. The system

The program exports CAD documents from Onshape on a schedule or on demand. One SQLite database holds
the queue, the schedule, accounts' health, audit events and sessions; JSON files hold the
configuration. A web process (FastAPI: one event loop, plus a pool of worker threads) and CLI processes
(`--run-worker`, `--drain-once`, the wizard) can run against the same database and files. Pages in the
browser keep state of their own.

| Component | State | Operations | Interacts with |
|---|---|---|---|
| Export queue: `core/queue_manager.py`, `core/jobs.py`, queue part of `core/database.py` | rows of `export_queue` | enqueue (read for duplicates, insert), claim_next (one transaction), mark_completed, mark_failed, cancel, requeue (each a read and a write) | workers, web handlers, scheduler, CLI |
| Job execution: `core/worker.py` `_run_job` | the job in hand | claim, export, outcome, chained job, except clause | queue, export engine, event bus |
| Worker pool: `core/worker.py` start/stop/`_run_loop` | thread list, stop event, status | start, stop with a join timeout, tick, error handler | scheduler, database, web and CLI callers |
| Scheduler: `core/scheduler.py` | rows of `scheduler_jobs`, `running`, labels loader | sync_labels, on_labels_changed, tick | label editor (event bus), queue, worker's configuration cache |
| API pool: `core/api_pool.py` | per-account counters and cooldowns, saved in `application_state` | lease, record_success / failure / rate_limited, snapshot | one pool object per export, one of the web process |
| Export engine and folders: `core/export_engine.py`, `core/folder_manager.py` | folders, files, history rows | parallel tasks, `unique_path`, clean-up | Onshape client, API pool |
| Onshape client: `core/onshape_client.py` | requests, translations polled | attempts, 429 handling, polling, download | API pool, disk |
| Event bus: `core/events.py` | subscriptions | subscribe, unsubscribe, publish (calls back in the publisher's thread) | all |
| Notifications: `core/notifications.py` | bounded queue, thread, stop flag | start, stop (sentinel), enqueue, deliver | event bus |
| Audit log: `core/audit.py`, telemetry and purges in `core/database.py` | audit rows, count since the last purge | record, purge | event bus |
| Configuration: `core/configuration.py`, `core/profile_manager.py`, `core/organizations.py` | five JSON files | load and validate, edit, write | web, CLI, wizard, worker |
| Backup: `core/backup.py` | archives | create, restore (file by file) | configuration files |
| Authentication: `core/auth.py`; guard and rate limiters of `web.py`; `terminal/wizard.py` | owner, sessions, request times | create the owner, sign in and out, guard | web, terminal |
| Schema and boot: `Database.initialize` of `core/database.py`, `app.py`, `cli.py` | tables, recorded versions, SQLite's write lock | migrate, record, build the services | every process, the service manager |
| Browser pages: `ui/static/app.js`, `ui/templates/section.html` | planner form, school tree | edits, timers, requests, answers | web handlers |
| Metrics, system monitor, logger, validation, formats, CLI and terminal display | none that a step could break | read, format, print | all |

What is hard here:

- **Transactions.** Each `Database` method opens a connection and commits once. Whatever reads and then
  writes is at least two transactions, with other threads and processes between them.
- **Failure half way.** A database error ("database is locked") can be raised by any of them; what the
  enclosing handler does then decides whether a job is lost or run again. A process can die anywhere.
- **Threads.** stop() waits with a timeout, and start() can come before the old threads are gone.
- **Stale copies.** The scheduler row in a tick's hand, the configuration cache, the API pool of each
  export, the form a preview was computed from, the tree a page shows.
- **Files.** A name that is free when it is chosen and taken when it is written; files edited one at a
  time whose references cross.
- **Half a boot.** Migrations commit statement by statement, their record later; processes that boot at
  once, or after one that was killed, find what others have left.
- **Liveness.** Retries must end, a backlog must not starve the schedule, a stop must end.

## 2. Modules

| Module | Models | Grain of a step |
|---|---|---|
| `ExportQueue` | queue, job execution, queue handlers of `web.py` | one database transaction |
| `JobLifecycle` | what the queue promises, without rows and transactions | abstract specification |
| `QueueRefinement` | the mapping from `ExportQueue` to `JobLifecycle` | |
| `WorkerPool` | `BackgroundWorker.start`, `stop`, `_run_loop`, `_tick_async`, `_drain_queue` | one locked block, event operation or database call |
| `Scheduler` | `SchedulerService`, its callers, the label editor, the cache | one database transaction |
| `Accounts` | `ApiPool`, the requests of the Onshape client, the export around them | one of the two parts of a locked block, of a read or a save of a record |
| `ExportFiles` | `run_manual_export`, `unique_path`, downloads, history rows, clean-up | one file or directory operation |
| `Notices` | event bus, audit log, notification service | one subscriber call, queue or flag operation, database call |
| `ConfigStore` | the configuration files and all that write them, backup and restore | one file operation |
| `Groups` | schools page, its routes, the worker's configuration cache | one handler of the event loop, one answer in the page |
| `Planner` | export planner page, preview and run routes | one event in the browser |
| `Access` | owner, sessions, guard, rate limiters, wizard | between two awaits, or one transaction |
| `Schema` | `Database.initialize` in every process that boots, `bootstrap` around it, restarts of the web server | one SQL statement |

`MC...` modules give constants their values for TLC. `MCPages` puts the two pages of the browser,
`Groups` and `Planner`, behind one initial choice, so that one run checks both; `MCFiles` does so with
the two models of the disk, `ExportFiles` and `ConfigStore`. `...Proofs` modules
hold the theorems: `PagesProofs` those of `Groups` and `Planner`, `FilesProofs` those of `ConfigStore`
and `ExportFiles`, `ProcessProofs` those of `WorkerPool` and `Schema`, the others those of the module
they are named for.

The models meet at narrow places. `WorkerPool` treats a job and a scheduler tick as steps that take a
while: `ExportQueue` is what the job does to the queue, `Scheduler` what the tick does. To
`ExportQueue` the scheduler is one more client that enqueues; to `Scheduler` the queue is "this label
has a due entry". An export is an outcome to `ExportQueue`, requests to `Accounts` and files to
`ExportFiles`. `ConfigStore` treats the files step by step with several processes; `Groups` takes one
web process, whose handlers are atomic, and follows an edit from the page to the worker's job.
`Schema` is what comes before all of them: each of the other models of the database starts with the
tables that a boot leaves (`UpIsMigrated`).

### ExportQueue, JobLifecycle, QueueRefinement

`rows` is the table, `thread[a]` the local state of a worker thread or request handler: the transaction
it does next, the job, the `retry_count` that `mark_failed` computed, whether it is inside the except
clause of `_run_job`, and the `QueueEntry` that `enqueue` has built and not inserted.

| Code | Actions |
|---|---|
| `QueueManager.enqueue` | `RequestExport` (from a client) or `AfterComplete` (chained), both through `DedupRead`; `EnqueueInsert` |
| `Database.claim_next_queue` | `Claim`: one transaction, oldest due pending row |
| the export in `_run_job` | `ExportEnds`: succeeded, reported failure, or raised |
| `mark_completed` | `CompleteCheck`, `CompleteWrite` |
| `mark_failed` | `FailRead`, then `FailCheck` + `FailWrite` (last attempt) or `RetryWrite` |
| except clause | `Raise`, and `Recorded` after the outcome |
| `cancel`, `requeue` | `CancelCheck` + `CancelWrite`, `RequeueCheck` + `RequeueWrite` |
| backoff | `BecomeDue` |
| errors, crashes | `DbFault`, `RequestFails`, `Crash` |

Three history variables carry the exceptions the code forces on its own guarantees. `lost`: the worker
died, or the except clause itself failed. `disturbed`: the job was requeued while a worker ran it, or
its bookkeeping failed after the outcome was written - then it can be claimed again beside its first
execution. `requeues` counts requeues. The properties speak of undisturbed jobs, and name `lost`
where it matters; everything else that can be interleaved is allowed.

`JobLifecycle` says what is promised when nobody intervenes: absent, pending, running with an owner,
completed or failed, at most `MaxAttempts` failures. In `QueueRefinement` the owner of a job is the
worker in whose hands it is, and `ImplementsLifecycle` says that the queue behaves so.

### WorkerPool

`pc[t]` is the next step of a thread: the loop condition, the scheduler, the drain loop, a claim, a
job, the end of the tick, the error handler. `call` and `todo` are the start() or stop() in progress;
the web event loop, or the CLI's main thread, makes one such call at a time (the handlers are
coroutines without awaits). `members` is `self._threads`. The threads of the n-th start are
`<<n, i>>`; those a stop gave up on stay in `abandoned` and keep running, which is what daemon threads
do. Database errors are raised by `set_state`, `claim_next` and `_record_error`.

### Scheduler

`rows` is `scheduler_jobs` by label, `sync[p]` a `sync_labels` in progress (a read and a write for each
label), `tick[p]` a `tick` in progress with the rows it read, the current one, and its own `now`. The
duplicate check and the insert of `enqueue` are separate steps, as is the write of the row. A label
edit writes the file and calls `on_labels_changed` in the same thread, which loads through the cache
of five seconds, so it may see the labels as they were. Labels are visited in any order. A moment `s`
is the time from `s` to `s + 1`; a window is a set of moments. `raced` marks labels whose row one party
read while another had yet to write it, `torn` those whose tick broke off between the enqueue and the
write.

### Accounts

`stored` is what `application_state` holds, `copy[p]` the records of a pool: every export builds its
own (`app.py`, `create_export_engine`), and the web process keeps one for its pages. A locked block of
the pool is two steps, `Record` and `Unlock`: status and counters change first, the time a rest ends
last. The lock keeps other changes of the pool out and nothing else. `_persist_state` comes after it:
`Dump` and `DumpUntil` read the record again without the lock, as `to_dict` does, field by field, so
that another task thread's block may come between or be half done; `Store` saves what was read, whole.
A thread's `step` follows `_api_request` with its attempts (`RetryOrFail`, `Wake`), the export around it
(`CreatePool`, `Lease`, `Begin`, `StartTasks`, `Join`, `Raised`), and `WebPolls` is `snapshot()`. Answers
are grouped as the client groups them: good, 429, retried 5xx or broken connection, other 5xx.
`recorded`, `told`, `writer` and `blurred` are histories; `blurred` are the accounts whose record changed
while a thread read it to save it.

### ExportFiles

`phase[e]` is where `run_manual_export` of an export is, `task[t]` the state of one download; `Folders`
and `Files` are numbered as `unique_path` numbers them. Choosing a path (`NameFolder`, `Polled`) and
writing it (`MakeFolder`, `Write`) are separate steps, as in the code. `result[e]` is what the export
has listed and the history rows it wrote. `Cleanup` is `api_run_cleanup`, which removes the whole
directory of an organization when that directory is itself old. `raced` marks tasks that chose the
path of another before either had written it, `swept` the exports a clean-up ran into.

### Notices

`pub[p]` is a `publish()` in progress with the subscribers it has still to call, in the publisher's
thread: the audit log (`Record`, `Count`, `Purge`: write, count under the lock, purge outside it) and
the notification service (`Enqueue`). `queue` is the bounded queue, `deliver[g]` the thread of the g-th
`start()`, which publishes events about its own deliveries. `call` is a `stop()` in progress: flag,
sentinel (which a full queue refuses with an exception), join. A restart forgets all but the table.

### Schema

`tables` are those that exist, `stored` the recorded versions and `schema_version` as committed,
`writer` the process that holds SQLite's write lock and `written` what its transaction has made of
them. `boot[p]` follows `initialize()` in one process: `EnsureMigrationTable`, `AppliedMigrations` (read
once, before the loop), then for each version `PassOver`, or `Apply`, `RunScript` and
`RecordMigration`; `SetVersion`, `Ends`, and `BuildServices` for what `bootstrap()` then reads.
Python's `executescript()` commits the pending record first and runs each statement of the script in
a transaction of its own, which is why a script can be left half done and why the record of a version
is committed only by the script after it, or at the end. Two boots that both find a version missing
both run its script (every statement says IF NOT EXISTS); the second to record it breaks the primary
key and its boot fails. `Broken` is an error of any statement, `Killed` the end of a process; the
service manager restarts the web server (`Restarts`), users start commands, and `--init-db` or a second
`create_app()` initializes once more (`Boots`). Initial states are a new database and what each older
version leaves. `restore_backup` of a database file has no caller in the web application or the command
line and is left out.

### ConfigStore

A file is what its references need: accounts and profiles their names, organizations the credential
names of each, labels their accounts and profile. `Read` is one `read_json`, `Check` is
`validate_cross_references`, `Decide` what a handler makes of what it has read, `Open`/`Write`/`Replace`
are `write_json` with its temporary file, which processes share. Two processes that have one temporary
file open leave either document or a mixture: the choice is nondeterministic. `Backup`, `Copy`,
`Empty`, `Fill` are `create_backup` and `restore_backup`, member by member. `gone`, `grown`, `clashed`,
`overwritten`, `before`, `undo` are histories that name the causes of what may go wrong; `grown[p]` are
the names that `accounts.json` has gained since process `p` began the load or request it reads for, and
is empty again when the next one begins (`Forgets`).

### Groups

`data` is `organizations.json` and `labels.json`; `requests` and `loads` are what the page has sent and
not yet seen answered, in any order; `tree` is what it shows. `Serve` is one of the routes of
schools, keys and groups, `ServeTree` is `api_tree`. `cache` and `thread` are the configuration cache of
the worker (`_load_config`): asked, loaded and stored by threads side by side.

### Planner

`form` is the planner's form, `timer` and `typing` the scheduled preview and the debounced field,
`previews` the requests without an answer. The pickers and presets are operators on a calendar of
instants, days, weeks and months. `Accepted` is what the server refuses a request for.

### Access

`owner` and `sessions` are the two tables, `configured` the web application's copy of the fact that
there is an owner, `buckets` the limiters, `pc[u]` a request of a browser or the wizard of a terminal.
Between two awaits a handler holds the event loop (`LoopFree`); the wizard, in its own process, does not
care and may step between any two transactions.

## 3. Runs

Each run answers one question; TLC explores every interleaving within the bounds. Each property was
also checked to be violated when a plausible bug is put into the code's definition (`mutants` in
`PROJECT.json`).

| Run (module) | Bounds | Shows |
|---|---|---|
| `queue_contended` (`MCExportQueue`) | 1 job, 3 workers in 2 processes, 2 attempts, 2 requeues, 1 error, 1 crash | `SingleHolder`: nobody executes an undisturbed job twice at once; `NoOrphan`: a running row has its worker or that worker was lost; `AttemptBudget`; `SettledMovesByAdminOnly`; `TypeOK` |
| `queue_unattended` (`MCExportQueue`) | 3 jobs of one key (one chained), 2 workers, 2 attempts, 1 crash | `ImplementsLifecycle`; `EveryJobSettles`: retries, backoff and competition end |
| `pool` (`WorkerPool`) | 1 thread per start, 2 starts, any stops, 2 jobs per tick, 2 errors | `NoStray`, `OneAdvancer`, `OneLateClaim`, `StopDrains`, `SchedulerServed`, `TypeOK` |
| `scheduler` (`MCScheduler`) | 1 label, 2 intervals, 1 process, 3 instants, 1 edit, 1 error or crash | `NoGap`: no moment is lost; `NothingTwice`: none exported twice; `DueServed` |
| `scheduler_rows` (`MCScheduler`) | 2 labels, no error | violated: "15min" and "30min" do not parse and stop the sync (section 6) |
| `accounts` (`MCAccounts`) | an export of 2 task threads alone, or 2 exports, with 1 and with no task thread, side by side (`Together`); the web pool, 2 accounts, 2 attempts, 1 error | `NeverOvercounted`, `CooldownAsTold`, `EndsSaved` |
| `accounts_rests` (`MCAccounts`) | 1 export of 2 task threads, 1 attempt, no error | violated: a rest without an end is stored (section 6) |
| `files` (`MCFiles`) | 2 exports of one label and day, 2 items of one name, 2 downloads at once, 1 clean-up; or web and CLI, 3 requests, 1 load of a worker, 1 crash, 1 label, 2 profiles, 2 organizations | of exports `KeepsOthersFiles`, `ReportedOnDisk`, `RowIsFinal`; of the configuration `FilesWhole`, `MissingExplained`, `WayBack`; no deadlock: nothing waits for ever |
| `notices` (`MCNotices`) | 1 publisher of 2 events, queue of 1, 2 starts, 1 delivery told of, 1 error, 1 restart | `AuditBounded`, `InOrder`, `StopEnds`, `Served` |
| `pages` (`MCPages`) | schools page: 2 schools, 2 groups, 1 key, 2 edits, 2 threads, a cache of 2 ticks; export page: 2 labels, 3 acts of the user, 2 previews under way, 1 midnight | `TreeCurrent`, `JobsSeeEdits`, `RequestsSound`, `PreviewCurrent` |
| `access` (`MCAccess`) | 2 browsers, 1 terminal, 3 requests, 3 ticks, 1 restart | `OneOwner`, `LetIn`, `LimitExact` |
| `schema` (`Schema`) | a web server and a console, a new database or one of any older version, 2 boots besides restarts, 1 error, 1 kill | `RecordedIsWhole`: a recorded version has its tables; `UpIsMigrated`; `FailureExplained`: a boot fails only by losing a race; `ServerComesUp` |

Why the bounds are enough.

- `queue_contended`: the properties are about one job at a time, and no action depends on another job
  except the duplicate check, which only refuses rows; three workers allow a holder, a second claimer
  and a bystander, two requeues a second disturbance after a recovery. Two processes let a crash take
  some workers and not others. `w1` and `w2` live in one process and differ in nothing, hence the
  symmetry, in a run without liveness. `queue_unattended` needs several jobs for competition in
  `created_at` order and one link for a chain.
- `pool`: two starts are an old generation beside a new one; a third adds nothing to a property about
  two threads, and two jobs per tick distinguish one late claim from a stream. Only worker 0 does
  anything that the others do not, and the theorems of section 4 cover every number of threads.
- `scheduler`: three instants are a first window, its successor, and a write later than both; rows of
  different labels do not touch one another.
- `accounts`: two exports and the web pool are three copies of one record, in whatever order they are
  loaded and saved; two task threads of one export are one that saves and one that changes the record
  meanwhile, or saves before it. More of both at once would add copies and threads that meet in pairs.
  One label may use any account, the others have the same one; saves fail while the first export runs.
  `accounts_rests` needs one 429 beside one success, and neither time nor a second attempt.
- `files`, the exports: names clash between two tasks of one export, two folders between two exports; a
  clean-up meets exports in every phase.
- `files`, the configuration: two editors that each do one request and a third that comes before,
  between or after; a backup, an edit and a restore are three requests.
- `notices`: a queue of one is full after one event, with the sentinel before or after it; a purge
  interval of two distinguishes writes that count from writes that purge.
- `pages`: the second edit overtakes the first; a cache of two ticks can be younger, as old and older
  than an edit, with a second thread storing late.
- `pages`, the export page: a day has a first, a middle and a last instant, weeks and months straddle;
  two previews can be answered in the wrong order; three acts are a mode, a pick and what follows.
- `access`: a browser's race needs a second browser on the same event loop and a terminal beside it;
  with `MaxIps = 1` the second address makes a limiter forget.
- `schema`: two processes are a winner and a loser of each race; with a kill, an error and a restart the
  loser can be any of them, at any statement, on what any boot before it has left.

The type invariants of `Scheduler`, `Accounts`, `Access` and `Groups` were checked by TLC before they
were proved; the theorems have taken their place in the runs.

Fairness. Worker threads, ticks, syncs, publishers and delivery threads are weakly fair: the operating
system schedules them, exports end (each HTTP request has a timeout), database calls and channels
return. A boot that has begun goes on, and the service manager restarts the web server
(`Restart=on-failure` in `src/deploy/onshape-export-manager.service`); nobody owes a command.
`BecomeDue` is fair because time passes; `StopSentinel` and `StopJoined` because a stop() that has begun
goes on. Users, errors, crashes, start() and stop() owe nothing; so `EveryJobSettles` excepts jobs whose
worker was lost, `StopDrains` and `StopEnds` a start() that clears the flag, and `DueServed` a time when
no worker runs. No strong fairness is used.

Deadlock is checked in `pool`, `scheduler`, `accounts`, `accounts_rests` and `files`, where a behaviour
may end only with all requests and loads used up and no process at work (`Rests`). In the other runs the
system really comes to rest - all jobs settled, all events delivered, all requests of users answered and
all bounds used up - so they turn it off.

## 4. Proofs

Eight modules of theorems, for every value of the constants that the named assumptions of each module
allow (TLC evaluates them in the runs). Numbers of workers, threads, processes, jobs, labels, exports,
browsers and all bounds are arbitrary.

**`ExportQueueProofs`** (from `ConstantsAssumption`).
`TypeCorrect`, `Invariance`, `ExclusiveExecution` (`SingleHolder`), `NothingStranded` (`NoOrphan`),
`AttemptsBounded` (`AttemptBudget`), `CountsInStep` (`RetriesStepByOne`), `SettledStays`
(`SettledMovesByAdminOnly`), `QueueImplements` (`ImplementsLifecycle`).

`SingleHolder` is not inductive. That no second worker claims a job in hand rests on its row not being
pending; that it is not pending rests on no one having written it so, and the writers are the holder
itself (alone, by the claim), a requeue (which disturbs), and the insert of a new row (whose id must be
fresh). `IInv` therefore has five parts: `TypeOK`; `FreshDrafts`, an entry about to be inserted has an
id of its own; `Handlers`, the except clause does nothing but `mark_failed`; `NoOrphan`; and
`Executions`, for every undisturbed job: it has one holder, its row is running or was cancelled under
it, an attempt is left, and the count `mark_failed` read is the row's. From the last part follow the
budget and the two action properties. There is one lemma per part, with one case per action; lemmas
about the table (`RowStored`), a thread's return or exception (`Returned`, `Raised`) and rows that
others leave alone (`SameRow`) are shared.

`QueueImplements` assumes `Unattended`: nobody cancels or requeues and no database call fails. Then
`Calm` is invariant as well (nothing is disturbed, no row is cancelled, and a worker about to give a job
up has counted its last attempt), and with `IInv` every step maps to one step of `JobLifecycle`:
`Claim` to `Start`, `CompleteWrite` to `Complete`, `FailWrite` and `RetryWrite` to `Fail`,
`EnqueueInsert` to `Submit`, and every step that leaves status and count alone to `Die` of the workers
that let go of their job - all of a process in a crash, none in most steps.

**`ProcessProofs`** (`PoolAssumption`, `SchemaAssumption`). *The worker pool*: `TypeCorrect`,
`NobodyLeftBehind` (`NoStray`), `AdvancedByOne` (`OneAdvancer`), `LateClaimsBounded` (`OneLateClaim`).
`IInv`: the list holds threads of the last start() only and what a call has still to join is of the
list; a stop() that has walked past a thread has seen it end or given it up; only threads with index 0
come near the scheduler; a thread about to claim after the flag was set has not claimed since.

*The schema*: `RecordsAreWhole` (`RecordedIsWhole`), `BootEndsMigrated` (`UpIsMigrated`),
`LosersHaveWinners` (`FailureExplained`). `SchemaInv` adds to these three: types; `LockInv`, a
transaction adds to what is stored, and only a boot between the statements of its loop, or at its end,
holds the lock; and what each boot knows: the versions before the one it has come to are recorded, in
what it sees itself, and the tables of a script exist up to the statement it has come to. That what one
process has recorded without commit is not yet true for another is why this part speaks of each
process's own view. All of it survives the steps of other boots because tables and versions only grow.

**`SchedulerProofs`** (`SchedulerAssumption`, `NoneIsNoRow`).
`TypeCorrect`, `NoMomentLost` (`NoGap`), `NoMomentTwice` (`NothingTwice`). `WindowInv`: types; whoever
has read the row of a label that is not raced has it as it is, and alone; what was settled is one
interval that ends at the last run; what was exported lies before it.

**`AccountsProofs`** (`AccountsAssumption`).
`CountsNothingTwice` (`NeverOvercounted`), `RestsAsAsked` (`CooldownAsTold`), `TypeCorrect`,
`LearnedIsSaved` (`EndsSaved`). `AccountInv`: every record, wherever it is, is sound (counts no more
than was recorded, rests no longer than was told, and without an end only if a save's read and another
record overlapped), and a record in a thread's hand is one of the account its export leased. A record
inside its locked block is sound once the block ends, and a record half read is either the pool's as it
is or that of an overlap. For `EndsSaved`, `EndInv`: task threads run only while the main thread waits for
them, so from its last record on a main thread is alone with its account's record, and what it stores is
what its pool holds.

**`FilesProofs`** (`ExportFilesAssumption`, `ConfigStoreAssumption`). *Exports*: `RowsAreFinal`
(`RowIsFinal`), `RowsAreOnDisk` (`ReportedOnDisk`), `FilesAreKept` (`KeepsOthersFiles`).
`ExportInv`: an export waits for every task it started before it ends (`StepInv`); the row says what was
listed (`RowInv`); a file holds a task that has written it (`HeldInv`); until a clean-up, an export has a
folder that is no other's (`FolderInv`), and two of its tasks share a path only when they raced for it
(`TwinInv`). That `unique_path` always finds a free number is a pigeonhole argument.

*The configuration*: `FilesStayWhole` (`FilesWhole`), `MissingHasReason` (`MissingExplained`),
`SnapshotLeadsBack` (`WayBack`). `StoreInv`: every name that labels refer to - in a file, a temporary
file, the archive, or a document about to be written - is one that there was, and a load that has come
to a file misses of the ones before it only names that were deleted, or that `accounts.json` gained
after the load had read it (`SoundInv`, with `GrownInv`: what `accounts.json` has beside the copy in a
reader's hand, it gained since that reader began); a
file that no two processes had open at once is written by one (`WriteInv`); a process that restores has
an archive that no backup is at work on, and while no other changes a file, the snapshot is what the
files were (`RestoreInv`).

**`NoticesProofs`** (`NoticesAssumption`, `NamesAssumption`).
`TableKeepsToLimit` (`AuditBounded`), `DeliveredInOrder` (`InOrder`). For the first, `RowsInv` accounts
for every row above the limit: counted since the last purge, waiting to be counted, or one of the
interval that a purge under way, failed or forgotten has to answer for; `ThreadInv` keeps a thread to
one event at a time. For the second, an event passes from a publisher's hand to the queue, to the
delivery thread's hand and to the channels. `BusInv`: who is in which of these places; `OneInv`: there
is one live delivery thread until a stop() gives one up; `OrderInv`: of any one publisher's events, what
was sent came before what is in hand, that before what is queued, that before what is still to be put
there.

**`PagesProofs`** (`GroupsAssumption`, `PlannerAssumption`). *The schools page*: `PageKeepsUp`
(`TreeCurrent`), `JobsKeepUp` (`JobsSeeEdits`), `TypeCorrect`. `PageInv`: with the last load shown and
none under way, the tree is the served one, or an edit that changed it has yet to be answered and will
load it again; `WorkerInv`: what is on its way into the cache was read after it was asked for.

*The export page*: `NothingRefused` (`RequestsSound`), `PreviewKeepsUp` (`PreviewCurrent`). `FormInv`:
the window of the form is in order, and one whole day in the mode for a day, whatever the pickers and
presets made of it, which is arithmetic on days, weeks and months of any length; `AskedInv`: what is
under way was made from such a form; `ShownInv`: with nothing scheduled, the request sent last asks for
the form as it is, and it is under way, or shown, or another one is.

**`AccessProofs`** (`AccessAssumption`).
`TypeCorrect`, `FirstComeOnly` (`OneOwner`), `NobodyElseLetIn` (`LetIn`), `LimitsAreKept`
(`LimitExact`). `IInv`: a token is made once and for one user, a session lives as long as it was made
for, and a request was let pass for a reason; handlers that hold the event loop exclude one another.
`LimitExact` needs what a limiter's bucket is: the times at which it let an address pass, in order and
without a stale prefix, of which no more than the limit are in the window (`Knows`). The least time that
is not stale exists by well-foundedness, so no induction over the bucket is needed.

Only model-checked: liveness - `EveryJobSettles`, `StopDrains`, `SchedulerServed`, `DueServed`, `StopEnds`,
`Served`, `ServerComesUp` - since fairness is out of the prover's reach. Every invariant and every action
property of the passing runs is stated by a theorem.

## 5. What the properties leave out

A property with an exception names it, and the exception is what the code cannot promise:

- `disturbed` and `lost` (queue), `abandoned` (pool, notifications): what a requeue of a running job, an
  error after the outcome, a crash and a stop() that gave up bring about.
- `raced`, `torn` (scheduler): two parties with one row, a tick broken off between queueing and saving.
- `blurred` (accounts): a save's read that another thread's record overlapped may mix the two; what it
  may never mix is excepted nowhere (counts, the latest end of a rest).
- `raced`, `swept` (files): twins that choose one path; a clean-up under an export.
- `clashed`, `overwritten`, `gone`, `grown` (configuration): a shared temporary file, a restore in place,
  names ever deleted, names that `accounts.json` gained while the very load read.
- "provided that the load begun last is the one that ended last" (`TreeCurrent`, `PreviewCurrent`): the
  page shows whatever answer comes last.

Each exception is set by the steps that cause it and by nothing else, and mutants show that a bug
outside of them is not excused.

## 6. Disagreements between the code and what it says

The runs `scheduler_rows` and `accounts_rests` show the first two; the others were met while modelling
and are behaviours of the models, excepted from the properties.

- `core/scheduler.py:212`: `parse_interval` knows "15 minutes" and "every_15_minutes" but not "15min" and
  "30min", which `src/README.md:80` lists and the label form sends. It raises in the middle of
  `sync_labels`: that label and those after it get no row, and at start-up the labels loader is not
  registered.
- `core/api_pool.py:310` saves what `to_dict` (lines 71-80) reads field by field after the lock is
  released, while `record_success` (174-175) or `record_rate_limited` (205-206) of another task thread
  changes it. "rate_limited" with no end may be stored, which `is_rate_limited` takes for a rest without
  end; line 200 says "until reset_at or a cooldown expires", lines 107-108 that the pool is "safe to use
  concurrently". A later save of the export usually repairs it; a pool that is loaded before keeps it,
  and nothing calls `mark_available`.
- `core/queue_manager.py:60` says "skip if a pending/running job for the same label+profile exists"; the
  query in the next line returns only pending jobs that are due. A running job, and one that waits for
  its retry, are enqueued again (`DedupRead`).
- `core/jobs.py:39` lets a cancelled job return to pending by a requeue only; the retry branch of
  `mark_failed` (`core/queue_manager.py:128`) writes without that check, so a job cancelled while it
  runs comes back when its export fails (`CancelWrite`, `RetryWrite`).
- `core/jobs.py:38` calls completed terminal. An error in the bookkeeping after `mark_completed`, or in
  the insert of a chained job, reaches the except clause (`core/worker.py:431`), whose `mark_failed` puts
  the job back to pending (`DbFault`, `RetryWrite`).
- `core/worker.py:228` says that only worker 0 advances the scheduler "to avoid duplicate enqueuing".
  After a stop() that timed out (line 203) and a start(), two threads with index 0 do (`OneAdvancer` excepts
  abandoned threads).
- `core/worker.py:237` means to "keep the loop alive"; `_record_error` in that handler (line 239) writes to the
  database, and when this raises too, the thread ends (`ErrorHandled`). `start()` then still finds threads
  in its list and does nothing until a stop().
- `core/api_pool.py:166-172`: a success of one request clears the cooldown that another request of the
  same export was given a moment before; `CooldownAsTold` therefore bounds cooldowns from above only.
- `ui/templates/section.html:667` says that deleting a school "removes all its API keys and groups";
  `core/organizations.py:465-469` removes the school and its keys. Its groups stay and name keys that no
  longer exist, and from then on no configuration loads (`Loadable` in `Groups`; `MissingExplained`
  counts the name as gone).
- `app.py:119` gives `FolderManager` a positional argument that its constructor
  (`core/folder_manager.py:41`) does not take, so as shipped building an engine raises. The queue runs allow
  every outcome of an export, of which "raised" is one; `Accounts` and `ExportFiles` model the engine as it
  is once built.

## 7. Not modelled, and why

- Metrics, system monitor, logger, validation, export formats and models compute values from what they
  are given and keep nothing that several steps could break. CLI and terminal parse and print around
  the components above; what the CLI starts and edits is an actor of `ExportQueue`, `WorkerPool`,
  `ConfigStore` and `Schema`, the wizard one of `Access` and `ConfigStore`. Remote access only detects
  tunnels and proxies on the host and caches what it saw for the dashboard.
- `CredentialPool` (`core/organizations.py`) is used in two places: the organizations payload shows its
  states (`web.py:747`), and a connection test saves one success (`web.py:2046`). It is left out because
  nothing is chosen by what it keeps: `lease()` and the other records have no caller. The retry helper
  for any callable (`core/retry.py`) is never used, and neither are `change_password`, `reset_password`
  and `purge_expired_sessions`.
- In the models: the export profile of a scheduler row, `scheduler.stop()` (a flag, in `WorkerPool`), two
  labels with one row id; `last_used`, `last_error` and disabled accounts; the choice of documents by
  date and label; purging by age, event history and filters; secrets and settings nothing refers to;
  database and logs in backups, rotation of archives; scrypt and the encoding of tokens.
- The wording of events and responses, Onshape's side of the API and the contents of files are outside
  every model.

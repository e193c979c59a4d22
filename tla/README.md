# A TLA+ development of sCron

sCron is a self-hosted cron service: a FastAPI application that keeps jobs
(scripts with a cron expression, a timeout, dependencies and encrypted
variables) in a SQL database, runs them as subprocesses on threads, streams
their output to browsers and tells their owner how they ended. This directory
models its concurrent core, checks the models with TLC on small instances and
proves every invariant and action property that TLC finds to hold, for every
instance, with TLAPS.

Files: `PROJECT.json` is the index (components, runs, seeded bugs, the source
lines each definition stands for, findings, hazards, theorems). Source lines
below are of `src/`.

## 1. Inventory

| Component | State | Operations | Interacts with | Model |
|---|---|---|---|---|
| Execution engine, `services/scheduler_service.py` | `_concurrency_semaphore`, `_running_processes`, one thread per run with its database session, one script file per job | `_execute_job`, `trigger_job_now`, `replay_execution`, `cancel_execution`, `_trigger_dependents`, `_build_log_output` | rows, subprocesses, broadcaster, notifications | `Executor`, `ScriptRuns`, `Dag`, `LogOutput` |
| Cron registration, same file | APScheduler's table of triggers | `startup`, `register_job`, `unregister_job`, `_parse_cron` | jobs table, job routes | `JobRequests`, `Cron` |
| Log broadcaster, `services/log_broadcaster.py` | `_channels`: per run a buffer, subscriber queues and a flag | `create_channel`, `publish_line`, `close_channel` and its cleanup thread, `subscribe`, `unsubscribe`, `get_channel_for_job` | engine threads, event loop | `LogStream` |
| WebSocket handlers, `api/ws_routes.py` | one coroutine and queue per client | `stream_execution_logs`, `stream_job_logs` | broadcaster, client | `LogStream` |
| Job service, `services/job_service.py` | jobs, executions, script versions, variables | create, update, delete, duplicate, restore, executions, dependency check, bulk and single variables | database | `JobRequests`, `EnvVars`, `ScriptRuns`, `Dag`, `Executor` |
| Job routes, `api/job_routes.py` | none | validation, then service, then registration | both of the above | `JobRequests`, `EnvVars`, `ScriptRuns`, `Executor` |
| Notifications, `services/notification_service.py`, `api/notification_routes.py`, `api/user_routes.py` | settings row, profile address, daemon threads | `upsert_notification_settings`, `notify_execution_complete` | engine, Telegram, SMTP | `Preferences`; start and status in `Executor` |
| Authentication, `services/auth_service.py`, `api/auth_routes.py` | users, refresh token ids | signup, login, rotate, revoke | database | `Tokens` |
| Rate limiter, `api/rate_limit.py` | time stamps per address | sliding window check | auth routes | `RateLimiter` |
| Requirements, `api/config_routes.py` | a file and the Python environment | write, then `pip install` | scripts | `Requirements` |
| Lifecycle, `main.py` | none | lifespan start and stop | scheduler, database | death in `Executor`, start-up in `JobRequests` |
| Analytics, `services/analytics_service.py` | none of its own | overview, breakdown, timeline, job page, heatmap | job_executions, the clock | `Analytics` |
| Encryption, `services/crypto_service.py` | `SECRET_KEY` of the process | `encrypt_value`, `decrypt_value` | variables | in `EnvVars` |
| Tags, templates, schemas, logging, migrations, deployment | - | single-row CRUD, declarations, configuration | - | not modelled |

How they interact. A cron fire, a manual trigger, a replay or a dependent's
fanout puts `_execute_job` on a thread. It waits for the semaphore, checks the
job and its dependencies, opens an execution row and a log channel, starts the
script, publishes every line to the channel, waits for the process with a
timeout, settles the row, notifies, starts dependents, and releases the
semaphore in a `finally`. API threads change the jobs table and signal
processes meanwhile. WebSocket coroutines read the channels on the event loop,
to which the worker hands each line with `call_soon_threadsafe`.

What is hard, and what makes each part correct:

- **Engine.** Every one of a dozen exits must give its slot back exactly once
  (`SlotsAccounted`, `SlotsReturned`, `RunsEnd`); live scripts stay within the
  cap (`CapRespected`); every row opened is settled, once (`RowsSettled`,
  `RowsFinal`, `RowsSettle`); row and notification agree
  (`NotifiedAsRecorded`); a cancel hits the run it names
  (`CancelledWasAsked`, `TableIsLive`); dependents run only after success
  (`DependentsAfterSuccess`); scripts end (`ScriptsStop`). The subtle
  mechanism is SQLAlchemy's: a commit *expires* the object `execution`, so
  `execution.id` is a database read that raises when the row is gone, and a
  failed flush leaves the session unusable.
- **Streaming.** A client sees the lines in order, none twice, none lost at
  the seam between buffer and subscription (`NoGap`, `FeedImplemented`), and
  its handler ends once the run has closed its channel (`HandlersEnd`,
  `SentinelArrives`), which it does unless a row is deleted or a
  statement or thread start fails (`RunsEnd`).
- **Requests for jobs.** The scheduler holds exactly what the jobs table says,
  with no transaction over both (`RegistrationAgrees`); the history of versions
  is whole whatever requests overlap (`VersionsContiguous`,
  `HistoryImplemented`, `HeadIsContent`).
- **Scripts of runs.** A run executes a version its job had, from a file that
  all runs of the job share (`RunsASavedVersion`, `RunsWhatItRead`,
  `ReplayIsExact`).
- **Dependencies.** The success that completes the set starts the dependent,
  and nothing else does (`JoinTriggers`, `StartsAreOwed`).
- **Variables.** A run that starts while they are replaced gets the old ones or
  the new (`ReplacedAtOnce`, `BulkIsWhole`).
- **Tokens.** One rotation yields one token and a logout is final
  (`OneTokenPerLogin`, `LogoutIsFinal`).
- **Limiter, settings, requirements, reports, logs.** At most n requests per
  window (`RateBound`); one settings row where no first requests race, obeyed
  (`OneRow`, `SentAsAsked`); a 200 means installed (`AnsweredIsInstalled`); the
  reports tell one story (`ReportsAgree`, `DaysListed`, `CountedOnce`); a stored
  log keeps its ends, stays within the limits and counts what it leaves out
  (`LogKeepsEnds`).

`PROJECT.json` lists the hazards line by line, with the properties that cover
each or the reason none does yet.

## 2. Modules

| Module | What it is |
|---|---|
| `SlotPool` | abstract: a set of runs inside, at most `Capacity` of them |
| `Executor` | the engine, with its properties and the seeded bugs used against them |
| `MCExecutor` | instances: dependency relations, symmetry |
| `ExecutorProofs` | theorems about `Executor`: types, slots, cap, refinement |
| `ExecutorRowsProofs` | extends it: theorems about rows, the cancel table, notifications, cancels, dependents |
| `LineFeed` | abstract: what a client of a log stream may be told |
| `LogStream` | broadcaster, event loop and handlers |
| `LogStreamProofs` | theorems about `LogStream` |
| `MCLogStream` | instances |
| `VersionHistory` | abstract: what a job's saved scripts promise |
| `JobRequests` | requests for jobs, the history of versions, the registration |
| `JobRequestsProofs` | theorems about `JobRequests` |
| `ScriptRuns` | extends `JobRequests`: which script a run executes |
| `ScriptRunsProofs` | extends `JobRequestsProofs`: theorems about `ScriptRuns` |
| `Dag` | joins of dependencies at the grain of runs |
| `EnvVars` | variables of jobs under concurrent requests and changed keys |
| `Tokens` | accounts and refresh tokens |
| `RateLimiter` | the sliding window |
| `Preferences` | notification settings and what a notification sends |
| `Requirements` | the shared requirements file and pip |
| `ServicesProofs` | extends `MCRequests`: theorems about `EnvVars`, `RateLimiter`, `Preferences`, `Requirements`, `Tokens`, `Cron`, and about the services together |
| `LogOutput` | what is kept of a run's output |
| `Analytics` | the reports over a history that goes on |
| `AnalyticsProofs` | theorems about `Analytics`, with the lemmas about sums they need |
| `RecordsProofs` | extends `MCRuns`: theorems about `Dag`, `LogOutput`, and about the accounts of runs together |
| `Cron` | the days of a cron expression, by croniter and by APScheduler |
| `MCRequests` | instances of the six services that answer requests |
| `MCRuns` | instances of the four accounts of runs |
| `MCCron` | an instance of `Cron` |

Operators named `X_Y` directly before `X` are seeded bugs: a plausible mistake
in the code `X` stands for, which makes a named property fail. They show that
the property can fail; no specification uses them.

### Executor

A *worker* is one call of `_execute_job` on its thread; its execution row is
`rows[w]`, so a worker id stands for an execution id too.

| Variable | Code |
|---|---|
| `jobs` | the jobs table, reduced to `is_active` and existence |
| `slots` | the value of `_concurrency_semaphore` |
| `pc` | the worker's next shared access; `leaked` is a thread that died in `finally` before the release, `dead` one lost with the server |
| `run` | locals: `job_id`, whether an execution id was given, the ORM state of `execution`, the verdict in hand, the dependents still to look at |
| `rows`, `order` | `job_executions` (status and pid), and its order by `started_at` |
| `table` | keys of `_running_processes` |
| `procs` | subprocesses: alive, zombie, reaped; exit code; whether anyone holds stdout |
| `kill`, `asked` | a pid a cancel call has read from a row; history of cancel calls |
| `channel`, `sent` | the log channel; history of notifications |
| `crashes` | deaths of the server so far |

One action per label of `pc`, and a label at every database statement, system
call and shared access; code between two labels touches nothing another thread
sees. `complete_execution` is `SelectRow`, `CommitRow`, `RefreshRow`;
`set_execution_pid` is `StorePid`, `CommitPid`. `run[w].orm` is `fresh` after a
load, `expired` after a commit, `broken` after a failed flush; `IdReadable`
says whether `execution.id` can be evaluated, and `IdFails` when evaluating it
may raise: because it cannot be, or because the reload is a statement that
fails. `Raise` is the way of an exception: into the `except` block, which itself calls `complete_execution`;
out of that, to `close_channel`; and at last to `finally`.

`Env` switches optional events on, so that a run can ask one question at a
time: `toggle`, `delete`, `cancel` (API calls), `spawn` (script file, variables
or `Popen` fail), `decode` (output is not text), `thread` (`Thread.start`
fails), `db` (a statement fails: `DbError` at the labels that are one, `IdFails`
where an expired `execution` is reloaded), `reuse` (pids come back). The theorems hold
for every choice of `Env` unless they say otherwise.

Abstractions. Output is whether there is any; wording, durations and stored
logs are left out. A timer may expire whenever a process is alive. A cron fire
may come for a job in any state: registration lags behind the table, and any
lag is allowed. APScheduler's pool size, `max_instances` and coalescing only
remove fires. The dependency check reads all dependencies at once, and `depends_on` is not
edited while runs go on. The models
follow PostgreSQL, where foreign keys are enforced. Processes are signalled by
this program only. `delete` removes the job and its rows in one commit.
`replay_execution` is a trigger after two reads, so it is `TriggerNow`.
A second cancel waits until the first has signalled when both go by pid.

### LogStream

Lines are numbered as printed. `ready` is the event loop's queue of callbacks,
kept per client: callbacks of one client run in the order they were handed over,
and as a callback touches its own client's queue only, the order between clients
is left open. `subscribers` is the set of registered queues, `queue` the
client's `asyncio.Queue`, `handler` where its coroutine is. The two
handlers differ in how they come to a channel (`FindChannel` first, then
`Subscribe`, for `stream_job_logs`) and in the `meta` message. The run may never
close its channel: `close_channel(execution.id)` in the `except` block raises
when the row is gone (`Executor!Close`). `Callback` is
`put_nowait` inside the loop; its `QueueFull` is caught by nobody and the item
is lost. `CloseChannel` may happen twice, because a run that timed out closes
its channel before it notifies, and again in the `except` block if notifying
raises. A client may vanish at any time; its handler notices when it sends.
`dropped` is history: the clients that lost something to a full queue.
Authentication and ownership are checked before any of this.

### JobRequests and ScriptRuns

A handler is a thread of the API's pool; `req[h]` is the request it serves,
with `at` its next database statement or scheduler call.

| Variable | Code |
|---|---|
| `jobs`, `versions` | the tables `jobs` and `job_script_versions` |
| `fresh` | ids that `uuid4` has still to draw: no id comes twice |
| `sched` | APScheduler's table: the expression registered for each id |
| `req[h].seen`, `.patch`, `.latest` | the row as last read, the attributes set on it, the number `max(version)` returned |
| `served`, `restarts` | bounds |
| `req[h].alone`, `adrift`, `rewound` | history: requests that met no other for their job; jobs whose registration no request vouches for; jobs restored amid another request |

A statement sees the last commit (READ COMMITTED), a commit flushes the pending
rows, and there the unique index and the foreign keys speak (`Commits`). Only
attributes that were set to something else than what was read are written
(`Sets`, `Written`). `PATCH /jobs/{id}` is `UpdateLoad`, `MaxQuery` if the
script changed, `Commit`, `Refresh`, then `Register` or `Unregister`; a restore
has `RestoreTarget` after `RestoreLoad`; a delete unregisters in `DeleteStart`,
before the check of the owner in `DeleteRemove`. `Restart` loses the requests
and registers what `startup()` does.

The property `HistoryImplemented` maps the rows of a job, in the order of their
numbers, to the sequence that `VersionHistory` speaks of (`History`).

`ScriptRuns` adds runs: the row with the version number, the reading of the
job, the truncation of the job's one script file, its filling, and the
interpreter that opens it, each a step of its own. `python3` compiles the whole
file before it runs it (`AtOnce`); `bash` reads on while it runs (`ReadOn`), so
another run that writes the file can change a script already begun.

### The other modules

- `EnvVars`: a `DELETE` locks the rows it finds until its request commits, so a
  second one waits; a value is a token with the key it was made under. Job ids
  are drawn from `envFresh` and never come back, as `uuid4`'s do not.
- `Tokens`: a token is its number and the login it descends from; a refresh is
  verify, revoke (a commit), issue (a commit). Passwords and signatures are
  right.
- `RateLimiter`: the clock may go on between the reading of the stamp, the wait
  for the lock (at most `MaxWait`) and the cut of the window.
- `Preferences`: an upsert reads, then writes; a notification reads row and
  address in two queries and then sends. `overlaps` is history: the requests
  that looked for a row when there was none and another request had looked and
  not written. It is counted when they look, whatever they find or do later.
- `Requirements`: open with truncation, write, close, pip reads, pip answers; a
  write or close that fails leaves what the file has or a part of the content.
- `Dag`: a run is a row from the trigger to its end; it settles, then looks at
  each job that needs its own; `check_dependencies_met` reads the newest row of
  every dependency at once.
- `LogOutput`: a line is the number of the read that brought it; the cut into
  head, notice and tail, and the 100 reads that a timeout keeps.
- `Analytics`: each report is an operator over the table; the timeline is
  an action per reading of the clock. Ratios stay unrounded. A user has finitely
  many jobs (`AnalyticsAssumption`). The query groups by `func.date` in the time
  zone of the database session and the days listed are UTC: the zone is taken to
  be UTC, else the two are shifted against each other.
- `Cron`: the fields day and day of week, over a month that starts on a Monday;
  croniter and APScheduler are external and modelled from how they are called.

## 3. Runs

| Run | Question | Instance |
|---|---|---|
| `executor_safety` | cap, cancel table, settlement, finality, notification, cancel | 2 runs of a job, 1 slot, 2 pids; every API call, failing starts, bad output, one crash |
| `executor_faults` | slot accounting, refinement of `SlotPool` | chain of two jobs, 2 runs, 1 slot; failing statements, reloads and threads |
| `executor_dag` | dependents, slots all back | chain of two jobs, 3 runs, 1 slot |
| `executor_live` | every waiting run ends with its channel closed, every row is settled | 2 runs, 1 slot, failing starts and bad output, fair |
| `streams` | no gap, refinement of `LineFeed`, handlers end | 2 clients, 3 lines, buffer 1, queues of 2, fair |
| `slot_leak` | *violated*: slots come back although jobs are deleted | `delete` |
| `timeout_ignored` | *violated*: scripts end by themselves or by their timeout | fair threads, silent script |
| `cancel_stray` | *violated*: cancelled runs were asked for | `cancel`, `reuse`, one crash |
| `lost_sentinel` | *violated*: every handler is told the end | 1 client, queue of 2 |
| `requests` | do the services keep what they promise under overlapping requests and restarts | 2 threads each; 2 jobs, 2 scripts, 4 requests, 1 restart; window 3; other bounds 4 or 5 |
| `runs` | which script runs, what joins start, what the log keeps, what reports say | 1 job, 2 runs, 3 requests; 3 jobs that join, 2 slots, 4 rows; 5 lines; 2 runs in 2 days |
| `weekdays` | *violated*: a job runs on the days its page shows | four weeks, days 1 and 15, Monday, "7" |

Why the bounds are enough. One slot and two runs make a run wait for a slot
that another holds, leaks or returns, on every exit. Two pids let a pid be
reused while an old row still names it. Three runs of a chain of two give a
dependency that succeeds and then runs again while its dependent is being
checked. Three lines exceed the buffer of one, so late clients start in the
middle, and with the sentinels exceed a queue of two, so queues overflow at a
line and at the end. Deadlock checking is off: all runs may be over, or a run
may wait for a slot that leaked, and then the system stops; in the newer runs
the requests, the runs or the time that the bounds allow are used up.

Fairness. `ThreadFairness`: an operating system thread that can go on does, and
an expired timer fires. `OutputFairness`, in `FairSpec` only: whoever holds a
script's stdout lets go of it some day, which is an assumption on scripts, not
a guarantee of the code (`timeout_ignored` drops it). No action of a user, no
failure and no script exit is fair: a script may ignore `SIGTERM` and run on
after closing its output, and it is the timer that ends it. Weak fairness per
worker is enough for the semaphore in `RunsEnd` because every worker runs
once. In `LogStream` nothing is asked of the run: whether it closes its channel
is the engine's affair (`RunsEnd`: it does where no row is deleted and no
statement or thread start fails), and `HandlersEnd` and `SentinelArrives` speak of runs that
have. For every client the event loop goes on with what it has: it serves the
client's callbacks or resumes its handler, whose send returns or raises. That is
one weak fairness per client, on `Callback(c) \/ Handler(c)`. The other modules state safety only
and no fairness.

## 4. Findings

- **A slot can be lost** (`slot_leak`). `finally` evaluates
  `getattr(execution, "id", -1)` before it releases the semaphore
  (`scheduler_service.py:554`). If the job is deleted while `execution` is
  expired (between the commit of the pid and the first line of output, or in a
  script that prints nothing), the attribute raises `ObjectDeletedError`, not
  `AttributeError`, and the slot is gone until restart.
- **The timeout does not bound a script** (`timeout_ignored`). Output is read
  to end of file first (`:432`); `wait(timeout=...)` starts only then.
- **A cancel can hit another run** (`cancel_stray`). Rows left running by a
  dead server keep their pid (`:243`).
- **The end of a stream can be lost** (`lost_sentinel`). `QueueFull` is raised
  inside the event loop, outside the `try` (`log_broadcaster.py:99`).
- **The days shown are not the days run** (`weekdays`). The fifth field goes
  unchanged to APScheduler, which counts from Monday and wants both day fields
  to match (`scheduler_service.py:186`); croniter, which shows the next runs,
  reads it as cron does. A 7 passes the API and is refused by the scheduler,
  where it is only logged.

Seen while modelling, without a run of their own: the fallback to SIGKILL that
`cancel_execution` documents (`:227`) does not exist; a failing
`set_execution_pid` (`:427`) leaves the script alive and gives its slot back,
which is why the cap is proved under `"db" \notin Env`; when the row was deleted
or the session is broken, `close_channel(execution.id)` in the `except` block
raises (`:550`), no sentinel is sent and whoever follows the run waits for ever,
and the entry of a run whose `finally` raised stays in the cancel table
(`TableIsLive` names both cases); a row in status success
becomes a failure when starting a notification or dependent thread raises
(`models.py:238` says rows are never updated after the run completes).

Also seen, each modelled, and the reason for an exception that a property
names:

- An edit between the trigger and the reading of the job makes the history name
  another version than the one that ran (`models.py:270` calls the column
  "Script version that was executed"); `RunsASavedVersion` says what is left. A
  change of `script_type` alone makes no version.
- Two runs of a job share the file: one may truncate or overwrite it before
  the other's interpreter opens it, or while `bash` still reads it (`crossed` in
  `RunsWhatItRead`).
- A replay takes today's variables, where `README.md:52` speaks of those of the
  run.
- A delete that is refused leaves the active job unscheduled until restart, and
  two updates may register in the other order than they commit (`adrift`).
- A restore amid another request can leave a newest version that is not the
  job's script (`rewound`).
- Overlapping bulk replacements may leave a mixture (`job_service.py:269` says
  "Replace ALL").
- One refresh token used twice at once yields two logins (`forked`); a server
  that dies between delete and insert ends the session.
- Two first updates of the settings make two rows (`overlaps`).
- A restart between open and close, or a write that fails, leaves an empty
  requirements file or a part of one (`spoiled`).
- The limiter forgets on restart, and time spent waiting for the lock comes off
  the window.
- A timeline asked for over midnight skips a day (`DaysListed`), and its first
  day is a part of one.
- `LOG_TAIL_LINES=0` keeps everything (`lines[-0:]`); a trailing blank line is
  lost and a form feed splits a line in the stored log.

## 5. Proofs

`ExecutorProofs` proves, for all workers, jobs, pids, capacities, dependency
relations, crash bounds and events (under `ExecutorAssumption`):

| Theorem | Statement |
|---|---|
| `TypeCorrect` | `Spec => []TypeOK` |
| `SlotAccounting` | `Spec => []SlotsAccounted` |
| `PoolRefinement` | `Spec => PoolImplemented` |
| `CapHolds` | `"db" \notin Env` implies `Spec => []CapRespected` |

The argument. `StepSlots` shows that every step, seen through `slots` and
`Holders`, is one of four: keep, enter, leave, restart. From it follow
`PoolInv` (the accounting, with `Holders` finite, which `Cardinality` needs and
`Workers` does not give) and, since entering needs a free slot, the refinement.
`SlotsAccounted` is inductive only together with finiteness and the type
invariant. `TableInv` gives for each label whether the worker may or must be in
the cancel table. `CapRespected` is not
inductive at all: it follows from `SlotsAccounted` and `AliveInv`, which says
that a live script belongs to a worker at one of the labels that hold a slot.
`AliveInv` needs to know why a worker that raised with a live script never
releases its slot: the exception came from the flush of the pid, which left the
session broken, so `finally` raises again. That is the point where `db` must be
excluded: a failing query raises there with the session still usable.

`ExecutorRowsProofs` goes on with what the runs leave on record:

| Theorem | Hypothesis on `Env` | Statement |
|---|---|---|
| `RowsSettledHolds` | no `db` | `Spec => []RowsSettled` |
| `TableCorrect` | none | `Spec => []TableIsLive` |
| `TableExact` | no `db`, `delete` | `Spec => [](\A w \in table : pc[w] \in Body)` |
| `NotifiedHolds` | no `db`, `thread` | `Spec => []NotifiedAsRecorded` |
| `RowsStayFinal` | no `db`, `thread` | `Spec => RowsFinal` |
| `CancelHolds` | no `reuse` | `Spec => []CancelledWasAsked` |
| `SlotsComeBack` | no `db`, `delete` | `Spec => []SlotsReturned` |
| `DependentsHold` | no `db`, `thread` | `Spec => []DependentsAfterSuccess` |

No hypothesis can be dropped: TLC finds a counterexample without any of them.
With `db`, the statement that settles the row may be the one that fails. With
`thread`, a run already recorded and announced as a success raises, and the
`except` block records a failure. With `reuse`, `cancel_stray` is the
counterexample, with `delete`, `slot_leak` is. Every other event may happen,
crashes included.

The argument. `RowInv` ties every label to the row: before `open` there is
none but the one a trigger made, between `open` and the verdict it is running
or deleted, after it final or deleted; and a session is broken only over a row that is gone, which is why
`complete_execution` in the `except` block cannot fail unless there is nothing
left to settle, and why `finally` raises, unless a statement fails, only over a
row that is gone: the rest of `TableIsLive`. `ToldInv` adds the verdict in hand: after the record the row says
that verdict, and nobody is told before; `RowsFinal` needs both, as the step
that writes a row is shown to find it running. `AskedInv` says that pids are
apart and that the pid a cancel has in hand is that of a run asked for.
`KeptInv` says why `finally` can evaluate `execution.id`: no row is gone and no
session broken; slots come back for that reason, and the table is exact. `DepsInv` carries the answer of `check_dependencies_met` from
the check to the insert, over the fact that a success stays one
(`Persists`), which is where `RowsFinal`'s hypotheses come in.

`LogStreamProofs` proves, under `LogStreamAssumption`, for any number of
clients and lines and any sizes of buffer and queues:

| Theorem | Statement |
|---|---|
| `TypeCorrect` | `Spec => []TypeOK` |
| `NoGapHolds` | `Spec => []NoGap` |
| `FeedRefined` | `Spec => FeedImplemented` |

The argument looks at a client's *pipeline*: what it was sent, what its handler
holds, its queue and the callbacks on their way, in one sequence. `Buffered`
says that the buffer holds the last lines printed; `Registered`, that who is
subscribed gets everything from there on; `InOrder`, that the pipeline ascends
and ends with the sentinel whatever was lost; `NoGap`, that it has no hole
unless something was dropped. A step of the program either appends to the
pipeline, or moves something along it, or takes one item out (a full queue, a
connection that is gone).
`FeedRefined` needs `InOrder` only, and so holds of clients that lost lines.

`JobRequestsProofs` proves, under `RequestsAssumption`, for any number of jobs,
handlers, requests and restarts:

| Theorem | Statement |
|---|---|
| `RequestTypes` | `RequestsSpec => []RequestsTypeOK` |
| `Registration` | `RequestsSpec => []RegistrationAgrees` |
| `Contiguous` | `RequestsSpec => []VersionsContiguous` |
| `HeadVersion` | `RequestsSpec => []HeadIsContent` |
| `HistoryRefined` | `RequestsSpec => HistoryImplemented` |

The argument has two halves. For the registration: a request that meets no
other is alone from its first statement to its last (`Apart`), so what it has
read is still so when it registers (`Steady`); a job that is not adrift is only
ever worked on by such a request (`Vouched`). `ServeRequests` and
`MoveRequests` prove that half once, for any request that begins and for any
that goes on, and each action is an instance. For the history: it needs no
solitude. While its job exists, the number a request has read is still a number
of the job (`Latest`), because versions only go with their job and no id comes
twice (`FreshIds`); so a successor the index admits is the next number
(`StoredVersion`), and numbers stay 1..n (`Histories`). `Heads` says of the
newest version that it has the script, which an update keeps because it inserts
exactly when it writes another script. `Contiguous` then counts: the numbers
are a bijection between 1..n and the versions (`CountOf`). `HistoryRefined`
takes each step to one of `VersionHistory` or to none: a version stored under a
number of its own, where the numbers are 1..n before and 1..m after, can only be
the next (`NextNumber`, `HistoryGrowsBy`); the statements that read, register or
fail leave the history as it is, and so does a restart.

`ScriptRunsProofs` proves, under the same assumption and that of `ScriptRuns`,
`SavedVersionRuns` (`ScriptsSpec => []RunsASavedVersion`), `OwnScriptRuns`
(`ScriptsSpec => []RunsWhatItRead`) and `ReplayHolds`
(`ScriptsSpec => []ReplayIsExact`), for any number of runs, jobs, handlers and
requests. `ScriptInv` is the invariant of the requests and, for each run, where
it is (`Placed`), that the version its row names was saved (`Recorded`), what it
holds of a row between its two reads (`HeldRow`), and the three properties in
the form that lasts (`SavedRun`, `Exact`, `InFile`). What a run knows stays
true because the requests only add to the history of a job that lives
(`HistoryGrows`), and what it read from the job is then the newest version
(`Newest`). The invariant of the requests is used, not proved again.

`ServicesProofs` proves, for any number of threads, requests and restarts and
under the assumptions of the modules only:

| Theorem | Statement | What the invariant adds |
|---|---|---|
| `InstalledHolds` | `ReqSpec => []AnsweredIsInstalled` | of two requests at work both are crossed; the file is what the newest writer left |
| `OneRowHolds` | `PreferencesSpec => []OneRow` | the rows there are and the requests about to insert one are together at most one more than the overlaps |
| `SentHolds` | `PreferencesSpec => []SentAsAsked` | what a notification has read was in force after its run ended |
| `RateHolds` | `LimiterSpec => []RateBound` | every request accepted within the window still has its stamp, no more than `MaxWait` too old |
| `ReplacedHolds` | `EnvSpec => ReplacedAtOnce` | rows have unique ids, and what a request is about to delete it has locked |
| `BulkHolds` | `EnvSpec => BulkIsWhole` | a request that met no other found all the rows there are |
| `OneToken` | `TokensSpec => []OneTokenPerLogin` | see below |
| `LogoutHolds` | `TokensSpec => []LogoutIsFinal` | see below |
| `ServicesHold` | `Spec => RequestsSpec /\ EnvSpec /\ TokensSpec /\ LimiterSpec /\ PreferencesSpec /\ ReqSpec` | |
| `ServicesTypes` | `Spec => []ServicesTypeOK` | |

`RateBound` counts: the accepted requests of a window are mapped to their stamps,
one to one (`StampsCount`), and the store admits only `Limit` of those.
For tokens, `TokensInv` adds that token numbers are unique and lead back to their
login, that a login no token of which was refreshed twice is carried by one
thread at most, and that while this thread is about to revoke, the login's only
token is the one it verified. `Spec` is the specification that TLC checks,
`MCRequests`: `ServicesHold` says that each of its behaviours is one of every
service, so that all of the above holds of it too.

`ServicesProofs` also draws the line around the finding of `weekdays`:
`ShownDaysRun` proves `CronSpec => []RunsWhenShown` if `WeekFields` has `*`
only, for any days of the month, any number of runs shown and any number of
days. It is the field day_of_week alone that is read in two ways.

`RecordsProofs` and `AnalyticsProofs` prove:

| Theorem | Statement |
|---|---|
| `JoinHolds` | `DagSpec => []JoinTriggers` |
| `StartsHold` | `DagSpec => []StartsAreOwed` |
| `DagTypes` | `DagSpec => []DagTypeOK` |
| `LogHolds` | `LogSpec => []LogKeepsEnds` |
| `LogTypes` | `LogSpec => []LogTypeOK` |
| `AnalyticsTypes` | `AnalyticsSpec => []AnalyticsTypeOK` |
| `DaysHold` | `AnalyticsSpec => []DaysListed` |
| `CountHolds` | `AnalyticsSpec => []CountedOnce` |
| `ReportsHold` | `AnalyticsSpec => []ReportsAgree` |
| `PartsHold` | `Spec => ScriptsSpec /\ DagSpec /\ LogSpec /\ AnalyticsSpec` |
| `RunsTypes` | `Spec => []RunsTypeOK` |

`Joined` says who still has to act for each job whose dependencies have all
succeeded last: a run that has settled and not looked at it yet, or a start on
its way, or a run that began since. It is what holds *during* the races that
`JoinTriggers` speaks of at their end. `Debt` pays each start with a success.
That no more runs wait than there is room for (`DagTypes`) counts the threads
that wait: a step adds one at most, and only where there is room.
For the log, lines are in the order they were read, and the last belongs to the
last read; the rest is arithmetic of subsequences, for every limit, a tail of 0
and the log of a timed-out run included.

For the timeline, each listed day carries the reading of the clock it came from
(`DaysInv`). `CountInv` adds what every run the query saw is counted under: the
days of a list that was made at one reading of the clock run from the first
asked for to today without a gap, so a run falls on one of them and, the dates
being apart, on no other; when midnight passes meanwhile, days are missing and the
sum can only be smaller. `ReportsHold` needs little of the table (`TableInv`):
that it is finite, that rows are of jobs there can be, and that every run that has
ended has a duration (`Timely`), which puts it on its job's trend.

Both compare *sums*, and facts about sums over a finite set need an induction.
The library's induction theorems have an operator for a parameter and cannot be
used here, but its least-number principle has none: `WFMin` with
`NatLessThanWellFounded` gives the least element of any non-empty set of numbers
(`Least`). If a sum were wrong for some set it would be wrong for one with the fewest
elements; take one out of it, and by the definition of the sum it is wrong for the
rest too. The same argument shows first that the function by which the community
modules define a sum exists (`SumExists`). So the sum of the cardinalities of the
parts of a set is that of the whole (`SumOfParts`), and a sum lies between the
least term times their number and the greatest (`SumBetween`).

Only model-checked, and why:

- All liveness (`RunsEnd`, `RowsSettle`, `HandlersEnd`, and the violated
  `ScriptsStop` and `SentinelArrives`): out of the prover's reach, as is
  `ENABLED`. Every other property of a run that passes is a theorem.
- `SlotsReturned` with deletes, `CancelledWasAsked` with reused pids and
  `RunsWhenShown` with a day_of_week: violated by the code. The runs show what
  the hypotheses of the theorems about them leave out.
- Symmetry: the runs are reduced by it, the proofs know nothing of it.

## 6. Not modelled

- **Tags, templates:** single-row reads and writes with no state that another
  part reads.
- **Migrations, schemas, logging, deployment:** declarations and configuration.
  Unique indexes and cascades are in the modules whose rows they govern.
- **Delivery:** Telegram and SMTP; a notification ends when it is sent.
- **Cryptography:** password hashes, JWT signatures, access tokens, Fernet.
- **Orderly shutdown:** APScheduler's wait for its pool is its own; every run on
  another thread is a daemon, and is cut off as by a death of the server.
- **Cycles of `depends_on`:** `Dag` admits them, its instance has none; nothing
  in the code or its docs says that one must come to an end.
- **Checks of the WebSocket handlers** before they subscribe: they read only.

## 7. Plan

The plan is carried out but for these. Liveness is checked on small instances
only: a proof of `RunsEnd` needs a measure on the labels of a worker and the
enabledness of each action, which must wait for a prover that handles `ENABLED`.
An orderly shutdown (`main.py`, `shutdown`) could be modelled once the project
says what should become of the runs it does not wait for. Tags and templates
deserve a module only when another part comes to read them.

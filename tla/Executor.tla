------------------------------ MODULE Executor ------------------------------
(***************************************************************************)
(* The execution engine of sCron (app/services/scheduler_service.py): the  *)
(* threads that run _execute_job, the semaphore that caps them, the table  *)
(* of running subprocesses that cancel_execution reads, the job_executions *)
(* rows, and the operating system's processes.                             *)
(*                                                                         *)
(* A worker is one call of _execute_job on its own thread, so it stands    *)
(* for its execution row too: rows[w] is the row of worker w.  Each label  *)
(* of pc names the next database call, system call or shared access of the *)
(* worker; what lies between two labels touches nothing another thread can *)
(* see.  Server deaths are capped by MaxCrashes and runs by Workers.       *)
(***************************************************************************)
EXTENDS Naturals, FiniteSets, Sequences

CONSTANTS
    Workers,        \* calls of _execute_job, each made at most once
    Jobs,           \* job ids
    DependsOn,      \* DependsOn[j]: the depends_on list of job j
    MaxConcurrent,  \* MAX_CONCURRENT_JOBS
    Pids,           \* process ids of the operating system
    Env,            \* the optional events this instance lets happen
    MaxCrashes,     \* bound on deaths of the server process
    None            \* no job, no pid

Events ==
    { "toggle",     \* PATCH /jobs/{id} with is_active
      "delete",     \* DELETE /jobs/{id} during a run
      "cancel",     \* POST /jobs/{id}/executions/{eid}/cancel
      "spawn",      \* the script file, the env vars or Popen fail
      "decode",     \* a script prints what is not text
      "thread",     \* Thread.start() fails
      "db",         \* a database statement fails
      "reuse" }     \* the system gives a freed pid to a new process

ASSUME ExecutorAssumption ==
    /\ DependsOn \in [Jobs -> SUBSET Jobs]
    /\ MaxConcurrent \in Nat \ {0}
    /\ Env \subseteq Events
    /\ MaxCrashes \in Nat
    /\ None \notin Jobs \union Pids \union Workers

VARIABLES
    jobs,      \* the jobs table: "active", "inactive" or "deleted"
    slots,     \* the value of _concurrency_semaphore
    pc,        \* where each worker is
    run,       \* the locals of each worker's _execute_job
    rows,      \* the job_executions table
    order,     \* the workers with a row, by started_at
    table,     \* the keys of _running_processes
    procs,     \* the operating system's processes
    kill,      \* a pid cancel_execution read from a row and will signal
    asked,     \* executions a cancel call found running
    channel,   \* the broadcast channel of each execution
    sent,      \* the statuses notified for each execution
    crashes    \* deaths of the server process so far

jobVars == <<jobs, kill, asked, crashes>>
viewVars == <<channel, sent>>
vars == <<jobs, slots, pc, run, rows, order, table, procs, kill, asked,
          channel, sent, crashes>>

-----------------------------------------------------------------------------
(* Types *)

Terminal == {"success", "failure", "cancelled"}
Ended == {"unused", "done", "leaked", "dead"}   \* the thread is not running
Before == {"unused", "waiting"}                 \* it has not acquired yet
Body == {"load", "deps", "open", "launch", "track", "setpid", "pidcommit",
         "reading", "wait", "untrack", "select", "commit", "refresh", "notify",
         "dependents", "fanout", "close", "finally"}
Labels == Before \union Body \union Ended

Run == [job : Jobs \union {None},
        pre : BOOLEAN,              \* pre_created_execution_id was given
        orm : {"none", "fresh", "expired", "broken"},  \* the object execution
        verdict : {"none", "success", "failure", "cancelled", "timeout",
                   "error"},        \* "error": inside the except block
        todo : SUBSET Jobs]         \* candidates left in _trigger_dependents

Row == [job : Jobs \union {None},
        status : {"none", "running", "gone"} \union Terminal,
        pid : Pids \union {None}]

Proc == [state : {"none", "alive", "zombie", "reaped"},
         code : {"none", "ok", "error", "sigterm", "sigkill"},
         out : BOOLEAN,             \* some process holds its stdout open
         pid : Pids \union {None},
         term : BOOLEAN]            \* SIGTERM was delivered

TypeOK ==
    /\ jobs \in [Jobs -> {"active", "inactive", "deleted"}]
    /\ slots \in Nat
    /\ pc \in [Workers -> Labels]
    /\ run \in [Workers -> Run]
    /\ rows \in [Workers -> Row]
    /\ order \in Seq(Workers)
    /\ table \subseteq Workers
    /\ procs \in [Workers -> Proc]
    /\ kill \in Pids \union {None}
    /\ asked \subseteq Workers
    /\ channel \in [Workers -> {"none", "open", "finished"}]
    /\ sent \in [Workers -> SUBSET Terminal]
    /\ crashes \in 0..MaxCrashes

Init ==
    /\ jobs \in [Jobs -> {"active", "inactive"}]
    /\ slots = MaxConcurrent
    /\ pc = [w \in Workers |-> "unused"]
    /\ run = [w \in Workers |-> [job |-> None, pre |-> FALSE, orm |-> "none",
                                 verdict |-> "none", todo |-> {}]]
    /\ rows = [w \in Workers |-> [job |-> None, status |-> "none",
                                  pid |-> None]]
    /\ order = <<>>
    /\ table = {}
    /\ procs = [w \in Workers |-> [state |-> "none", code |-> "none",
                                   out |-> FALSE, pid |-> None,
                                   term |-> FALSE]]
    /\ kill = None
    /\ asked = {}
    /\ channel = [w \in Workers |-> "none"]
    /\ sent = [w \in Workers |-> {}]
    /\ crashes = 0

-----------------------------------------------------------------------------
(* Helpers *)

Deleted(w) == jobs[run[w].job] = "deleted"

\* Deleting a job cascades to its execution rows.
RowGone(w) == rows[w].status = "gone"

\* execution.id can be evaluated: an expired object is reloaded from its row,
\* and raises ObjectDeletedError when the row is gone.
IdReadable(w) ==
    \/ run[w].orm = "fresh"
    \/ run[w].orm = "expired" /\ ~RowGone(w)

\* It raises, or the statement that reloads the object fails.
IdFails(w) == ~IdReadable(w) \/ ("db" \in Env /\ run[w].orm = "expired")

Goto(w, l) == pc' = [pc EXCEPT ![w] = l]

\* An exception: out of the try block it leads to the except block, which
\* first tries to record a failure; out of that attempt it leads on to
\* close_channel; with no execution object the except block does nothing.
Raise(w, orm) ==
    /\ Goto(w, IF run[w].orm = "none" THEN "finally"
               ELSE IF run[w].verdict = "error" THEN "close" ELSE "select")
    /\ run' = [run EXCEPT ![w] = [@ EXCEPT !.orm = orm, !.verdict = "error"]]

\* Seeded bug for DependentsAfterSuccess: only a failure blocks.
DepsMet_NotFailed(j) ==
    \A d \in DependsOn[j] : \A w \in Workers :
        rows[w].job = d => rows[w].status # "failure"

\* job_service.check_dependencies_met: every dependency's latest execution,
\* by started_at, succeeded.
LatestOf(j) ==
    LET mine == {i \in DOMAIN order : rows[order[i]].job = j
                                      /\ ~RowGone(order[i])}
    IN  IF mine = {} THEN None
        ELSE order[CHOOSE i \in mine : \A k \in mine : k <= i]

DepsMet(j) ==
    \A d \in DependsOn[j] :
        LatestOf(d) # None /\ rows[LatestOf(d)].status = "success"

\* A pid the system may give to a new process.
FreePids ==
    {p \in Pids : \A v \in Workers :
        procs[v].pid = p => "reuse" \in Env /\ procs[v].state = "reaped"}

-----------------------------------------------------------------------------
(* Runs start: a cron fire, a manual trigger or replay, a dependent *)

Start(w, j, pre) ==
    /\ pc[w] = "unused"
    /\ Goto(w, "waiting")
    /\ run' = [run EXCEPT ![w] = [@ EXCEPT !.job = j, !.pre = pre]]

\* APScheduler calls _execute_job(job_id).  The registration may lag behind
\* the table, so the job may be inactive or deleted by now.
CronFire(w, j) ==
    /\ Start(w, j, FALSE)
    /\ UNCHANGED <<jobVars, viewVars, slots, rows, order, table, procs>>

\* A row in status running, as job_service.create_execution commits it.
CreateRow(w, j) ==
    /\ rows' = [rows EXCEPT ![w] = [job |-> j, status |-> "running",
                                    pid |-> None]]
    /\ order' = Append(order, w)

\* trigger_job_now, and replay_execution which calls it: the row first, then
\* the thread.  For a deleted job the insert fails and no thread starts.
TriggerNow(w, j) ==
    /\ jobs[j] # "deleted"
    /\ Start(w, j, TRUE)
    /\ CreateRow(w, j)
    /\ UNCHANGED <<jobVars, viewVars, slots, table, procs>>

\* The row is committed and Thread.start() raises: nothing will carry it.
TriggerFails(w, j) ==
    /\ "thread" \in Env
    /\ jobs[j] # "deleted"
    /\ pc[w] = "unused"
    /\ Goto(w, "dead")
    /\ CreateRow(w, j)
    /\ UNCHANGED <<jobVars, viewVars, slots, run, table, procs>>

-----------------------------------------------------------------------------
(* _execute_job up to the subprocess *)

\* Seeded bug for PoolImplemented and TypeOK: the semaphore does not block.
Acquire_NoWait(w) ==
    /\ pc[w] = "waiting"
    /\ slots' = slots - 1
    /\ Goto(w, "load")
    /\ UNCHANGED <<jobVars, viewVars, run, rows, order, table, procs>>

Acquire(w) ==
    /\ pc[w] = "waiting"
    /\ slots > 0
    /\ slots' = slots - 1
    /\ Goto(w, "load")
    /\ UNCHANGED <<jobVars, viewVars, run, rows, order, table, procs>>

\* Seeded bug for RowsSettled: an inactive job is skipped even when triggered
\* by hand, when its row exists.
LoadJob_SkipManual(w) ==
    /\ pc[w] = "load"
    /\ Goto(w, IF jobs[run[w].job] # "active" THEN "finally"
               ELSE IF run[w].pre THEN "open" ELSE "deps")
    /\ UNCHANGED <<jobVars, viewVars, slots, run, rows, order, table, procs>>

\* Seeded bug for SlotsAccounted: the early return is outside the try.
LoadJob_NoFinally(w) ==
    /\ pc[w] = "load"
    /\ Goto(w, IF Deleted(w) \/ (jobs[run[w].job] = "inactive" /\ ~run[w].pre)
               THEN "done"
               ELSE IF run[w].pre THEN "open" ELSE "deps")
    /\ UNCHANGED <<jobVars, viewVars, slots, run, rows, order, table, procs>>

\* The job is missing, or inactive and not triggered by hand: return.
LoadJob(w) ==
    /\ pc[w] = "load"
    /\ Goto(w, IF Deleted(w) \/ (jobs[run[w].job] = "inactive" /\ ~run[w].pre)
               THEN "finally"
               ELSE IF run[w].pre THEN "open" ELSE "deps")
    /\ UNCHANGED <<jobVars, viewVars, slots, run, rows, order, table, procs>>

\* Seeded bug for SlotsReturned: the skipped run returns outside the try.
CheckDeps_NoFinally(w) ==
    /\ pc[w] = "deps"
    /\ Goto(w, IF DepsMet(run[w].job) THEN "open" ELSE "done")
    /\ UNCHANGED <<jobVars, viewVars, slots, run, rows, order, table, procs>>

CheckDeps(w) ==
    /\ pc[w] = "deps"
    /\ Goto(w, IF DepsMet(run[w].job) THEN "open" ELSE "finally")
    /\ UNCHANGED <<jobVars, viewVars, slots, run, rows, order, table, procs>>

\* Load the pre-created row, or create one; open the channel.  With the job
\* gone the row is gone too and the insert fails on its foreign key.
OpenExecution(w) ==
    /\ pc[w] = "open"
    /\ IF Deleted(w)
       THEN /\ Raise(w, "none")
            /\ UNCHANGED <<rows, order, channel>>
       ELSE /\ IF run[w].pre THEN UNCHANGED <<rows, order>>
                             ELSE CreateRow(w, run[w].job)
            /\ run' = [run EXCEPT ![w].orm = "fresh"]
            /\ channel' = [channel EXCEPT ![w] = "open"]
            /\ Goto(w, "launch")
    /\ UNCHANGED <<jobVars, sent, slots, table, procs>>

\* Read the script, write it, read the env vars, Popen.  The commit of a new
\* row has expired the job object, so its reload raises if the job is gone.
Launch(w) ==
    /\ pc[w] = "launch"
    /\ IF ~run[w].pre /\ Deleted(w)
       THEN /\ Raise(w, run[w].orm)
            /\ UNCHANGED procs
       ELSE /\ \E p \in FreePids :
                 procs' = [procs EXCEPT ![w] =
                              [state |-> "alive", code |-> "none",
                               out |-> TRUE, pid |-> p, term |-> FALSE]]
            /\ Goto(w, "track")
            /\ UNCHANGED run
    /\ UNCHANGED <<jobVars, viewVars, slots, rows, order, table>>

\* Seeded bug for RowsSettle: the except block records nothing.
SpawnFails_NoRecord(w) ==
    /\ "spawn" \in Env
    /\ pc[w] = "launch"
    /\ Goto(w, "close")
    /\ run' = [run EXCEPT ![w].verdict = "error"]
    /\ UNCHANGED <<jobVars, viewVars, slots, rows, order, table, procs>>

SpawnFails(w) ==
    /\ "spawn" \in Env
    /\ pc[w] = "launch"
    /\ Raise(w, run[w].orm)
    /\ UNCHANGED <<jobVars, viewVars, slots, rows, order, table, procs>>

Track(w) ==
    /\ pc[w] = "track"
    /\ table' = table \union {w}
    /\ Goto(w, "setpid")
    /\ UNCHANGED <<jobVars, viewVars, slots, run, rows, order, procs>>

\* set_execution_pid: without the row there is nothing to commit.
StorePid(w) ==
    /\ pc[w] = "setpid"
    /\ Goto(w, IF RowGone(w) THEN "reading" ELSE "pidcommit")
    /\ UNCHANGED <<jobVars, viewVars, slots, run, rows, order, table, procs>>

\* The commit expires the execution object.  If the row went away since it
\* was read, the flush fails and leaves the session unusable.
CommitPid(w) ==
    /\ pc[w] = "pidcommit"
    /\ IF RowGone(w)
       THEN Raise(w, "broken") /\ UNCHANGED rows
       ELSE /\ rows' = [rows EXCEPT ![w].pid = procs[w].pid]
            /\ run' = [run EXCEPT ![w].orm = "expired"]
            /\ Goto(w, "reading")
    /\ UNCHANGED <<jobVars, viewVars, slots, order, table, procs>>

-----------------------------------------------------------------------------
(* _execute_job from the first line of output to the end of the process *)

\* The first line since the commit: publish_line(execution.id, ...) reloads
\* the object.  If that raises, the handler round the loop stops reading.
ReadLine(w) ==
    /\ pc[w] = "reading"
    /\ run[w].orm = "expired"
    /\ \/ /\ IdReadable(w)
          /\ run' = [run EXCEPT ![w].orm = "fresh"]
          /\ UNCHANGED pc
       \/ IdFails(w) /\ Goto(w, "wait") /\ UNCHANGED run
    /\ UNCHANGED <<jobVars, viewVars, slots, rows, order, table, procs>>

\* Output that does not decode ends the loop the same way.
ReadError(w) ==
    /\ "decode" \in Env
    /\ pc[w] = "reading"
    /\ Goto(w, "wait")
    /\ UNCHANGED <<jobVars, viewVars, slots, run, rows, order, table, procs>>

EndOfOutput(w) ==
    /\ pc[w] = "reading"
    /\ ~procs[w].out
    /\ Goto(w, "wait")
    /\ UNCHANGED <<jobVars, viewVars, slots, run, rows, order, table, procs>>

\* process.wait(timeout) returns.
Reap(w) ==
    /\ pc[w] = "wait"
    /\ procs[w].state = "zombie"
    /\ procs' = [procs EXCEPT ![w].state = "reaped"]
    /\ Goto(w, "untrack")
    /\ UNCHANGED <<jobVars, viewVars, slots, run, rows, order, table>>

\* Seeded bug for CapRespected: the process is given up, not killed.
Timeout_NoKill(w) ==
    /\ pc[w] = "wait"
    /\ procs[w].state = "alive"
    /\ \/ /\ IdReadable(w)
          /\ run' = [run EXCEPT ![w] = [@ EXCEPT !.orm = "fresh",
                                                   !.verdict = "timeout"]]
          /\ Goto(w, "select")
       \/ IdFails(w) /\ Raise(w, run[w].orm)
    /\ UNCHANGED <<jobVars, viewVars, slots, rows, order, table, procs>>

\* process.wait(timeout) expires: kill, reap, publish the TIMEOUT line.
Timeout(w) ==
    /\ pc[w] = "wait"
    /\ procs[w].state = "alive"
    /\ procs' = [procs EXCEPT ![w] = [@ EXCEPT !.state = "reaped",
                                                !.code = "sigkill"]]
    /\ \/ /\ IdReadable(w)
          /\ run' = [run EXCEPT ![w] = [@ EXCEPT !.orm = "fresh",
                                                   !.verdict = "timeout"]]
          /\ Goto(w, "select")
       \/ IdFails(w) /\ Raise(w, run[w].orm)
    /\ UNCHANGED <<jobVars, viewVars, slots, rows, order, table>>

\* Seeded bug for CancelledWasAsked: any bad exit counts as a cancel.
VerdictOf_AnyCode(code) == IF code = "ok" THEN "success" ELSE "cancelled"

VerdictOf(code) ==
    CASE code = "sigterm" -> "cancelled"
      [] code = "ok"      -> "success"
      [] OTHER            -> "failure"

\* Leave the table of running processes and judge the exit code.
Untrack(w) ==
    /\ pc[w] = "untrack"
    /\ \/ /\ IdReadable(w)
          /\ table' = table \ {w}
          /\ run' = [run EXCEPT ![w] =
                        [@ EXCEPT !.orm = "fresh",
                                  !.verdict = VerdictOf(procs[w].code)]]
          /\ Goto(w, "select")
       \/ IdFails(w) /\ Raise(w, run[w].orm) /\ UNCHANGED table
    /\ UNCHANGED <<jobVars, viewVars, slots, rows, order, procs>>

-----------------------------------------------------------------------------
(* complete_execution: query the row, write it, refresh the object *)

Status(verdict) == IF verdict \in {"success", "cancelled"} THEN verdict
                                                           ELSE "failure"

SelectRow(w) ==
    /\ pc[w] = "select"
    /\ IF RowGone(w) \/ run[w].orm = "broken"
       THEN Raise(w, run[w].orm)
       ELSE Goto(w, "commit") /\ UNCHANGED run
    /\ UNCHANGED <<jobVars, viewVars, slots, rows, order, table, procs>>

\* Seeded bug for NotifiedAsRecorded: a timeout is recorded as a cancel.
CommitRow_TimeoutAsCancel(w) ==
    /\ pc[w] = "commit"
    /\ IF RowGone(w)
       THEN Raise(w, "broken") /\ UNCHANGED rows
       ELSE /\ rows' = [rows EXCEPT ![w] = [@ EXCEPT !.pid = None,
                     !.status = IF run[w].verdict = "timeout" THEN "cancelled"
                                ELSE Status(run[w].verdict)]]
            /\ run' = [run EXCEPT ![w].orm = "expired"]
            /\ Goto(w, "refresh")
    /\ UNCHANGED <<jobVars, viewVars, slots, order, table, procs>>

CommitRow(w) ==
    /\ pc[w] = "commit"
    /\ IF RowGone(w)
       THEN Raise(w, "broken") /\ UNCHANGED rows
       ELSE /\ rows' = [rows EXCEPT ![w] = [@ EXCEPT !.pid = None,
                                        !.status = Status(run[w].verdict)]]
            /\ run' = [run EXCEPT ![w].orm = "expired"]
            /\ Goto(w, "refresh")
    /\ UNCHANGED <<jobVars, viewVars, slots, order, table, procs>>

RefreshRow(w) ==
    /\ pc[w] = "refresh"
    /\ IF RowGone(w)
       THEN Raise(w, run[w].orm)
       ELSE /\ run' = [run EXCEPT ![w].orm = "fresh"]
            /\ Goto(w, IF run[w].verdict \in {"success", "failure"}
                       THEN "notify" ELSE "close")
    /\ UNCHANGED <<jobVars, viewVars, slots, rows, order, table, procs>>

-----------------------------------------------------------------------------
(* Notification, dependents, and the way out *)

\* The commit expired the job object: its reload raises if the job is gone.
\* A timed out run notifies last, after it has closed the channel.
Notify(w) ==
    /\ pc[w] = "notify"
    /\ IF Deleted(w)
       THEN Raise(w, run[w].orm) /\ UNCHANGED sent
       ELSE /\ sent' = [sent EXCEPT ![w] = @ \union {Status(run[w].verdict)}]
            /\ Goto(w, CASE run[w].verdict = "success" -> "dependents"
                         [] run[w].verdict = "timeout" -> "finally"
                         [] OTHER                      -> "close")
            /\ UNCHANGED run
    /\ UNCHANGED <<jobVars, channel, slots, rows, order, table, procs>>

\* Seeded bug for RowsFinal: a job whose depends_on is null raises.
QueryDependents_NoDefault(w) ==
    /\ pc[w] = "dependents"
    /\ IF \E j \in Jobs : jobs[j] = "active" /\ DependsOn[j] = {}
       THEN Raise(w, run[w].orm)
       ELSE Goto(w, "close") /\ UNCHANGED run
    /\ UNCHANGED <<jobVars, viewVars, slots, rows, order, table, procs>>

\* _trigger_dependents: the active jobs that name this one.
QueryDependents(w) ==
    /\ pc[w] = "dependents"
    /\ LET named == {j \in Jobs : /\ jobs[j] = "active"
                                  /\ run[w].job \in DependsOn[j]}
       IN  /\ run' = [run EXCEPT ![w].todo = named]
           /\ Goto(w, IF named = {} THEN "close" ELSE "fanout")
    /\ UNCHANGED <<jobVars, viewVars, slots, rows, order, table, procs>>

\* One candidate: check its dependencies and start a thread v for it.
Fanout(w, j) ==
    /\ pc[w] = "fanout"
    /\ j \in run[w].todo
    /\ LET left == run[w].todo \ {j}
           next == IF left = {} THEN "close" ELSE "fanout"
       IN  IF DepsMet(j)
           THEN \E v \in Workers :
                    /\ pc[v] = "unused"
                    /\ pc' = [pc EXCEPT ![v] = "waiting", ![w] = next]
                    /\ run' = [run EXCEPT ![v].job = j, ![w].todo = left]
           ELSE /\ Goto(w, next)
                /\ run' = [run EXCEPT ![w].todo = left]
    /\ UNCHANGED <<jobVars, viewVars, slots, rows, order, table, procs>>

\* Thread.start() raises, in notify_execution_complete or for a dependent.
ThreadFails(w) ==
    /\ "thread" \in Env
    /\ \/ pc[w] = "notify" /\ ~Deleted(w)
       \/ pc[w] = "fanout" /\ \E j \in run[w].todo : DepsMet(j)
    /\ Raise(w, run[w].orm)
    /\ UNCHANGED <<jobVars, viewVars, slots, rows, order, table, procs>>

\* log_broadcaster.close_channel(execution.id).  It can raise only at the end
\* of the except block; the exception goes on to the finally block, and the
\* channel stays open.
Close(w) ==
    /\ pc[w] = "close"
    /\ \/ /\ IdReadable(w)
          /\ channel' = [channel EXCEPT ![w] = "finished"]
          /\ run' = [run EXCEPT ![w].orm = "fresh"]
          /\ Goto(w, IF run[w].verdict = "timeout" THEN "notify" ELSE "finally")
       \/ IdFails(w) /\ Goto(w, "finally") /\ UNCHANGED <<channel, run>>
    /\ UNCHANGED <<jobVars, sent, slots, rows, order, table, procs>>

\* Seeded bug for TableIsLive: only the main path leaves the table.
Finally_KeepEntry(w) ==
    /\ pc[w] = "finally"
    /\ slots' = slots + 1
    /\ Goto(w, "done")
    /\ UNCHANGED <<jobVars, viewVars, run, rows, order, table, procs>>

\* Seeded bug for RunsEnd: the slot is never released.
Finally_NoRelease(w) ==
    /\ pc[w] = "finally"
    /\ table' = table \ {w}
    /\ Goto(w, "done")
    /\ UNCHANGED <<jobVars, viewVars, slots, run, rows, order, procs>>

\* The finally block: getattr(execution, "id", -1) comes before the release,
\* and its default covers only AttributeError.
Finally(w) ==
    /\ pc[w] = "finally"
    /\ \/ /\ run[w].orm = "none" \/ IdReadable(w)
          /\ table' = table \ {w}
          /\ slots' = slots + 1
          /\ Goto(w, "done")
       \/ /\ run[w].orm # "none" /\ IdFails(w)
          /\ Goto(w, "leaked")
          /\ UNCHANGED <<table, slots>>
    /\ UNCHANGED <<jobVars, viewVars, run, rows, order, procs>>

\* A statement fails; a failing flush also breaks the session.  (The reloads of
\* execution.id from reading on are IdFails; at track the object is fresh.)
DbError(w) ==
    /\ "db" \in Env
    /\ pc[w] \in {"load", "deps", "open", "launch", "setpid", "pidcommit",
                  "select", "commit", "refresh", "notify", "dependents",
                  "fanout"}
    /\ Raise(w, IF pc[w] \in {"pidcommit", "commit"} THEN "broken"
                                                     ELSE run[w].orm)
    /\ UNCHANGED <<jobVars, viewVars, slots, rows, order, table, procs>>

-----------------------------------------------------------------------------
(* The API beside the workers *)

\* update_job with is_active.
ToggleJob(j) ==
    /\ "toggle" \in Env
    /\ jobs[j] # "deleted"
    /\ jobs' = [jobs EXCEPT ![j] = IF @ = "active" THEN "inactive"
                                                   ELSE "active"]
    /\ UNCHANGED <<viewVars, slots, pc, run, rows, order, table, procs, kill,
                   asked, crashes>>

\* delete_job; the rows of the job go with it.
DeleteJob(j) ==
    /\ "delete" \in Env
    /\ jobs[j] # "deleted"
    /\ jobs' = [jobs EXCEPT ![j] = "deleted"]
    /\ rows' = [w \in Workers |->
                   IF rows[w].job = j
                   THEN [rows[w] EXCEPT !.status = "gone", !.pid = None]
                   ELSE rows[w]]
    /\ UNCHANGED <<viewVars, slots, pc, run, order, table, procs, kill, asked,
                   crashes>>

Terminate(v) == procs' = [procs EXCEPT ![v].term = TRUE]

\* cancel_execution finds the process in the table; terminate() polls it and
\* signals only a process that has not ended.
CancelTracked(w) ==
    /\ "cancel" \in Env
    /\ w \in table
    /\ asked' = asked \union {w}
    /\ IF procs[w].state = "alive" THEN Terminate(w) ELSE UNCHANGED procs
    /\ UNCHANGED <<viewVars, jobs, slots, pc, run, rows, order, table, kill,
                   crashes>>

\* It was not in the table, perhaps because it was looked up before Track:
\* take the pid from the row if that is running.
CancelLookup(w) ==
    /\ "cancel" \in Env
    /\ kill = None
    /\ rows[w].status = "running"
    /\ rows[w].pid # None
    /\ kill' = rows[w].pid
    /\ asked' = asked \union {w}
    /\ UNCHANGED <<viewVars, jobs, slots, pc, run, rows, order, table, procs,
                   crashes>>

\* os.kill(pid, SIGTERM), whichever process has that pid by now.
CancelKill ==
    /\ kill # None
    /\ kill' = None
    /\ \/ \E v \in Workers : /\ procs[v].pid = kill
                             /\ procs[v].state = "alive"
                             /\ Terminate(v)
       \/ /\ \A v \in Workers : procs[v].pid = kill => procs[v].state # "alive"
          /\ UNCHANGED procs
    /\ UNCHANGED <<viewVars, jobs, slots, pc, run, rows, order, table, asked,
                   crashes>>

-----------------------------------------------------------------------------
(* The operating system *)

\* The script's process ends.  A child of it may keep stdout open.
ProcExit(w) ==
    /\ procs[w].state = "alive"
    /\ \E code \in {"ok", "error"} \union
                   (IF procs[w].term THEN {"sigterm"} ELSE {}) :
           procs' = [procs EXCEPT ![w] =
                        [@ EXCEPT !.code = code,
                                  !.state = IF pc[w] = "dead" THEN "reaped"
                                                              ELSE "zombie"]]
    /\ UNCHANGED <<jobVars, viewVars, slots, pc, run, rows, order, table>>

\* The last holder of the script's stdout closes it.
CloseOut(w) ==
    /\ procs[w].out
    /\ procs' = [procs EXCEPT ![w].out = FALSE]
    /\ UNCHANGED <<jobVars, viewVars, slots, pc, run, rows, order, table>>

\* The server process dies and starts again: threads, semaphore, table and
\* channels are new, the rows stay.  The subprocesses live on, or die with
\* their container.
Crash ==
    /\ crashes < MaxCrashes
    /\ crashes' = crashes + 1
    /\ pc' = [w \in Workers |-> IF pc[w] \in {"unused", "done"} THEN pc[w]
                                                               ELSE "dead"]
    /\ slots' = MaxConcurrent
    /\ table' = {}
    /\ kill' = None
    /\ channel' = [w \in Workers |-> "none"]
    /\ \E survive \in BOOLEAN :
           procs' = [w \in Workers |->
               IF \/ procs[w].state = "zombie"
                  \/ procs[w].state = "alive" /\ ~survive
               THEN [procs[w] EXCEPT !.state = "reaped"]
               ELSE procs[w]]
    /\ UNCHANGED <<jobs, run, rows, order, asked, sent>>

-----------------------------------------------------------------------------
(* Specification *)

\* The steps a thread takes on its own, the expiry of its timer included.
Thread(w) ==
    \/ Acquire(w) \/ LoadJob(w) \/ CheckDeps(w) \/ OpenExecution(w)
    \/ Launch(w) \/ Track(w) \/ StorePid(w) \/ CommitPid(w)
    \/ EndOfOutput(w) \/ Reap(w) \/ Timeout(w) \/ Untrack(w)
    \/ SelectRow(w) \/ CommitRow(w) \/ RefreshRow(w)
    \/ Notify(w) \/ QueryDependents(w) \/ (\E j \in Jobs : Fanout(w, j))
    \/ Close(w) \/ Finally(w)

\* What the script prints, and what may fail under the thread.
Disturb(w) ==
    ReadLine(w) \/ ReadError(w) \/ SpawnFails(w) \/ ThreadFails(w) \/ DbError(w)

Api ==
    \/ \E w \in Workers, j \in Jobs :
           CronFire(w, j) \/ TriggerNow(w, j) \/ TriggerFails(w, j)
    \/ \E j \in Jobs : ToggleJob(j) \/ DeleteJob(j)
    \/ \E w \in Workers : CancelTracked(w) \/ CancelLookup(w)
    \/ CancelKill

System == Crash \/ \E w \in Workers : ProcExit(w) \/ CloseOut(w)

Next == (\E w \in Workers : Thread(w) \/ Disturb(w)) \/ Api \/ System

Spec == Init /\ [][Next]_vars

-----------------------------------------------------------------------------
(* Properties *)

\* The workers between the acquire of the semaphore and its release.  A
\* thread that died before the release keeps its slot.
Holders == {w \in Workers : pc[w] \in Body \union {"leaked"}}

\* The slots free and the slots held make up MAX_CONCURRENT_JOBS, whatever
\* the paths the runs took through _execute_job.
SlotsAccounted == slots + Cardinality(Holders) = MaxConcurrent

\* The cap itself: the scripts alive that this server process started are at
\* most MAX_CONCURRENT_JOBS, however their runs were cut short by a deleted
\* job, a failing thread start, an undecodable output or a signal.
Own == {w \in Workers : procs[w].state = "alive" /\ pc[w] # "dead"}
CapRespected == Cardinality(Own) <= MaxConcurrent

\* The cancel table names runs in progress, and every script alive that a worker
\* waits for is in it: what cancel_execution relies on to find the process, and
\* to find none of a run that is over.  An entry outlives its run only where
\* the finally block could not read execution.id: the row was deleted during the
\* run, or a statement failed.
TableIsLive ==
    /\ \A w \in table :
          \/ pc[w] \in Body
          \/ pc[w] = "leaked" /\ (RowGone(w) \/ "db" \in Env)
    /\ \A w \in Workers : pc[w] \in {"reading", "wait"} => w \in table

\* Every slot comes back: with no thread running, the semaphore is full.
SlotsReturned == (\A w \in Workers : pc[w] \in Ended) => slots = MaxConcurrent

\* A run that is over has left no row in status running: every return and
\* every exception of _execute_job settles the row it opened.
RowsSettled ==
    \A w \in Workers : pc[w] \in {"done", "leaked"} => rows[w].status # "running"

\* A row that has reached a final status keeps it, until its job is deleted.
RowsFinal ==
    [][\A w \in Workers : rows[w].status \in Terminal =>
           rows'[w].status \in {rows[w].status, "gone"}]_vars

\* What the user was told of a run is what its row says.
NotifiedAsRecorded ==
    \A w \in Workers, s \in Terminal :
        s \in sent[w] => rows[w].status \in {s, "gone"}

\* A run is recorded as cancelled only if someone asked to cancel that run.
CancelledWasAsked ==
    \A w \in Workers : rows[w].status = "cancelled" => w \in asked

\* A run nobody triggered by hand got a row only after each of its
\* dependencies had a success, now on record or deleted since.
Precedes(v, w) ==
    \E i, k \in DOMAIN order : i < k /\ order[i] = v /\ order[k] = w
DependentsAfterSuccess ==
    \A w \in Workers :
        rows[w].job # None /\ ~run[w].pre =>
            \A d \in DependsOn[rows[w].job] : \E v \in Workers :
                /\ rows[v].job = d
                /\ rows[v].status \in {"success", "gone"}
                /\ Precedes(v, w)

Pool == INSTANCE SlotPool WITH Runs <- Workers, Capacity <- MaxConcurrent,
                               inside <- Holders
\* _execute_job implements the abstract pool of slots.
PoolImplemented == Pool!Spec

\* Threads run and their timers expire; scripts need not ever end.
ThreadFairness == \A w \in Workers : WF_vars(Thread(w))
\* Every script, or the last child of it, lets go of its stdout some day.
OutputFairness == \A w \in Workers : WF_vars(CloseOut(w))

ThreadSpec == Spec /\ ThreadFairness
FairSpec == Spec /\ ThreadFairness /\ OutputFairness

\* Every run that waits for a slot gets one and comes to its end, with its
\* channel closed: whoever follows its output is told.
RunsEnd ==
    \A w \in Workers : pc[w] = "waiting" ~> pc[w] = "done" /\ channel[w] # "open"

\* A script that is alive is ended some day, by itself or by its timeout.
ScriptsStop ==
    \A w \in Workers : procs[w].state = "alive" ~> procs[w].state # "alive"

\* Every row a run has opened is settled.
RowsSettle ==
    \A w \in Workers : rows[w].status = "running" ~> rows[w].status # "running"
=============================================================================

------------------------------ MODULE ScriptRuns ------------------------------
(***************************************************************************)
(* Which script a run executes: the requests of JobRequests, and the part  *)
(* of app/services/scheduler_service.py that records a version in the row  *)
(* of the execution, reads the job, writes the script to the one file of   *)
(* the job and starts an interpreter on it.  Slots, output, exit codes and *)
(* dependents are in Executor.                                             *)
(***************************************************************************)
EXTENDS JobRequests

CONSTANTS
    MaxRuns,   \* bound on runs
    AtOnce,    \* types whose interpreter reads the whole file first: python
    Empty,     \* the content of a file just opened for writing
    Garbled    \* parts of two scripts, or a part of one

ASSUME RunsAssumption ==
    /\ MaxRuns \in Nat
    /\ AtOnce \subseteq Kinds
    /\ Empty # Garbled
    /\ {Empty, Garbled} \cap (Scripts \union {None}) = {}

VARIABLES
    runs,     \* each run, by the order of its trigger
    started,  \* runs started so far
    files     \* <<job, type>> to the content of {job}.py or {job}.sh

runVars == <<runs, started, files>>
scriptVars == <<requestVars, runVars>>

RunIds == 1..MaxRuns
Contents == Scripts \union {None, Empty, Garbled}

Run == [at : {"free", "load", "create", "read", "open", "fill", "exec",
              "begun", "done"},
        job : Jobs \union {None},
        pre : BOOLEAN,                  \* the row was created by the trigger
        recorded : Nat,                 \* version in the execution row, or 0
        replay : Nat,                   \* version to replay, or 0
        row : Row \union {None},        \* the job as the session holds it
        head : Nat,                     \* history: newest version at that time
        is : Version \union {None},     \* what it writes to the file
        ran : Contents,                 \* what the interpreter read
        crossed : BOOLEAN]              \* history: another run wrote the file

Free == [at |-> "free", job |-> None, pre |-> FALSE, recorded |-> 0,
         replay |-> 0, row |-> None, head |-> 0, is |-> None, ran |-> None,
         crossed |-> FALSE]

ScriptsTypeOK ==
    /\ runs \in [RunIds -> Run]
    /\ started \in 0..MaxRuns
    /\ files \in [Jobs \X Kinds -> Contents]

ScriptsInit ==
    /\ RequestsInit
    /\ runs = [r \in RunIds |-> Free]
    /\ started = 0
    /\ files = [f \in Jobs \X Kinds |-> None]

-----------------------------------------------------------------------------
Begin(run) ==
    /\ started < MaxRuns
    /\ started' = started + 1
    /\ runs' = [runs EXCEPT ![started + 1] = run]
    /\ UNCHANGED <<requestVars, files>>

\* APScheduler fires the trigger of j.
Fire(j) ==
    /\ sched[j] # None
    /\ Begin([Free EXCEPT !.at = "load", !.job = j])

\* POST /jobs/{id}/trigger: the row, with the newest version, then the thread.
Trigger(j) ==
    /\ Exists(j)
    /\ Begin([Free EXCEPT !.at = "load", !.job = j, !.pre = TRUE,
                          !.recorded = Highest(j)])

\* POST /jobs/{id}/replay: the version the old row names goes to the new row
\* and to the thread.
Replay(old) ==
    /\ runs[old].recorded # 0
    /\ Exists(runs[old].job)
    /\ Begin([Free EXCEPT !.at = "load", !.job = runs[old].job, !.pre = TRUE,
                          !.recorded = runs[old].recorded,
                          !.replay = runs[old].recorded])

\* The run has the slot and loads the job; a fire finds it inactive, or goes on
\* to create its row.  A triggered run keeps what it loaded.
Load(r) ==
    LET run == runs[r]
        now == jobs[run.job]
    IN  /\ run.at = "load"
        /\ runs' = [runs EXCEPT ![r] =
              IF now = None \/ (~now.active /\ ~run.pre)
              THEN [@ EXCEPT !.at = "done"]
              ELSE IF run.pre
              THEN [@ EXCEPT !.at = "read", !.row = now,
                             !.head = Highest(run.job)]
              ELSE [@ EXCEPT !.at = "create"]]
        /\ UNCHANGED <<requestVars, started, files>>

\* create_execution of a fired run: its commit expires the loaded job.  Without
\* the job the foreign key refuses the row, and the run ends in its handler.
CreateRow(r) ==
    /\ runs[r].at = "create"
    /\ runs' = [runs EXCEPT ![r].at = IF Exists(runs[r].job) THEN "read" ELSE "done",
                            ![r].recorded = Highest(runs[r].job)]
    /\ UNCHANGED <<requestVars, started, files>>

\* Seeded bug for ReplayIsExact: the job's own content, whatever is replayed.
Chosen_Current(run, row) == [script |-> row.script, kind |-> row.kind]

\* The version to replay if there is one, else the job's script.
Chosen(run, row) ==
    IF \E v \in VersionsOf(run.job) : v.number = run.replay
    THEN (CHOOSE v \in VersionsOf(run.job) : v.number = run.replay).is
    ELSE [script |-> row.script, kind |-> row.kind]

\* The script of the run.  A job deleted meanwhile ends it, unless it holds a
\* copy and has found its row already.
ReadScript(r) ==
    LET run == runs[r]
        row == IF run.row # None THEN run.row ELSE jobs[run.job]
    IN  /\ run.at = "read"
        /\ \/ /\ row # None
              /\ runs' = [runs EXCEPT ![r].at = "open", ![r].row = row,
                   ![r].head = IF run.row # None THEN @ ELSE Highest(run.job),
                   ![r].is = Chosen(run, row)]
           \/ /\ ~Exists(run.job)
              /\ runs' = [runs EXCEPT ![r].at = "done"]
        /\ UNCHANGED <<requestVars, started, files>>

FileOf(run) == <<run.job, run.is.kind>>

\* The other runs that have opened this file and whose interpreter has not read
\* all of it.
Crossing(r) ==
    {q \in RunIds \ {r} : /\ runs[q].at \in {"fill", "exec", "begun"}
                          /\ FileOf(runs[q]) = FileOf(runs[r])}

\* Run r touches its file, and goes to its next step.
Touch(r, place) ==
    /\ runs' = [q \in RunIds |->
          IF q = r THEN [runs[q] EXCEPT !.at = place]
          ELSE IF q \in Crossing(r) THEN [runs[q] EXCEPT !.crossed = TRUE]
          ELSE runs[q]]
    /\ UNCHANGED <<requestVars, started>>

\* Seeded bug for RunsWhatItRead: a file that is there is not written again.
OpenFile_Cached(r) ==
    /\ runs[r].at = "open"
    /\ files' = [files EXCEPT ![FileOf(runs[r])] =
                    IF @ \in Scripts THEN @ ELSE runs[r].is.script]
    /\ Touch(r, "exec")

\* open(script_path, "w") empties the file.
OpenFile(r) ==
    /\ runs[r].at = "open"
    /\ files' = [files EXCEPT ![FileOf(runs[r])] = Empty]
    /\ Touch(r, "fill")

\* write and close: over what another run has put there since, if anything.
FillFile(r) ==
    LET run == runs[r] IN
    /\ run.at = "fill"
    /\ \E content \in {run.is.script} \union
             (IF files[FileOf(run)] \in {Empty, run.is.script} THEN {}
              ELSE {Garbled}) :
          files' = [files EXCEPT ![FileOf(run)] = content]
    /\ Touch(r, "exec")

\* The interpreter Popen started opens the file, in its own time.
Interpret(r) ==
    LET run == runs[r] IN
    /\ run.at = "exec"
    /\ runs' = [runs EXCEPT ![r].at = IF run.is.kind \in AtOnce THEN "done"
                                      ELSE "begun",
                            ![r].ran = files[FileOf(run)]]
    /\ UNCHANGED <<requestVars, started, files>>

\* bash reads on while it runs: the last it reads may be of another script than
\* it began with, when the file has been written since.
ReadOn(r) ==
    LET run == runs[r] IN
    /\ run.at = "begun"
    /\ \E script \in {run.ran} \union
             (IF files[FileOf(run)] = run.ran THEN {} ELSE {Garbled}) :
          runs' = [runs EXCEPT ![r].at = "done", ![r].ran = script]
    /\ UNCHANGED <<requestVars, started, files>>

ScriptsNext ==
    \/ RequestsNext /\ UNCHANGED runVars
    \/ \E j \in Jobs : Fire(j) \/ Trigger(j)
    \/ \E r \in RunIds :
          \/ Replay(r) \/ Load(r) \/ CreateRow(r) \/ ReadScript(r)
          \/ OpenFile(r) \/ FillFile(r) \/ Interpret(r) \/ ReadOn(r)

ScriptsSpec == ScriptsInit /\ [][ScriptsNext]_scriptVars

-----------------------------------------------------------------------------
(* Properties *)

\* A run executes a script its job had, saved as a version between the one its
\* row names and the newest when it read the job: an update between the two
\* readings makes the history name another version than the one that ran.
RunsASavedVersion ==
    \A r \in RunIds : LET run == runs[r] IN
        (run.is # None /\ Exists(run.job) /\ run.job \notin rewound) =>
            \E v \in VersionsOf(run.job) :
                /\ v.is.script = run.is.script
                /\ v.number \in run.recorded..run.head \union {run.replay}

\* Unless another run of the job wrote the same file before the interpreter had
\* read it all, which is at the end of the run for bash, it reads the script
\* this run took from the database, through any number of edits and earlier
\* runs.
RunsWhatItRead ==
    \A r \in RunIds :
        (runs[r].ran # None /\ ~runs[r].crossed) => runs[r].ran = runs[r].is.script

\* A replay executes the script of the version in the row it replays, with that
\* version's interpreter, whatever the job has become since.
ReplayIsExact ==
    \A r \in RunIds : LET run == runs[r] IN
        (run.replay # 0 /\ run.ran # None /\ Exists(run.job)) =>
            \E v \in VersionsOf(run.job) :
                /\ v.number = run.recorded
                /\ run.is.kind = v.is.kind
                /\ ~run.crossed => run.ran = v.is.script

=============================================================================

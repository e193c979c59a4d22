--------------------------------- MODULE Dag ---------------------------------
(***************************************************************************)
(* Jobs that wait for several others (depends_on), at the grain of runs:   *)
(* check_dependencies_met and _trigger_dependents over the table           *)
(* job_executions.  Executor has one dependency and every step of a run;   *)
(* here jobs join, and the runs of all of them share the slots.            *)
(***************************************************************************)
EXTENDS Naturals, Sequences, FiniteSets

CONSTANTS
    DagJobs,     \* active jobs
    Needs,       \* depends_on of each
    Slots,       \* MAX_CONCURRENT_JOBS
    MaxDagRuns   \* bound on the rows and the runs that wait, together

ASSUME DagAssumption ==
    /\ Needs \in [DagJobs -> SUBSET DagJobs]
    /\ Slots \in Nat \ {0} /\ MaxDagRuns \in Nat

VARIABLES
    waits,   \* runs of each job that wait for a slot and have no row yet
    table,   \* the rows, by started_at
    owed     \* history: runs of each job its dependencies have started

dagVars == <<waits, table, owed>>

DagRow == [job : DagJobs,
           manual : BOOLEAN,         \* inserted by a trigger of the API
           at : {"wait", "run", "scan", "done"},   \* what its thread does
           status : {"running", "success", "failure"},
           left : SUBSET DagJobs]    \* candidates its scan has still to see

DagTypeOK ==
    /\ waits \in [DagJobs -> 0..MaxDagRuns]
    /\ table \in Seq(DagRow)
    /\ owed \in [DagJobs -> Nat]

DagInit ==
    /\ waits = [j \in DagJobs |-> 0]
    /\ table = <<>>
    /\ owed = [j \in DagJobs |-> 0]

-----------------------------------------------------------------------------
IsLatest(i, j) ==
    /\ table[i].job = j
    /\ \A k \in DOMAIN table : table[k].job = j => k <= i

\* Seeded bug for JoinTriggers: a run that failed is never forgotten.
DepsMet_EveryRun(j) ==
    \A d \in Needs[j] :
        /\ \E i \in DOMAIN table : IsLatest(i, d)
        /\ \A i \in DOMAIN table : table[i].job = d => table[i].status = "success"

\* Seeded bug for StartsAreOwed: a dependency that never ran is no obstacle.
DepsMet_NeverRan(j) ==
    \A d \in Needs[j], i \in DOMAIN table :
        IsLatest(i, d) => table[i].status = "success"

\* check_dependencies_met: the last started run of each succeeded.
DepsMet(j) ==
    \A d \in Needs[j] :
        \E i \in DOMAIN table : IsLatest(i, d) /\ table[i].status = "success"

\* The bound: every thread that waits has room for its row.
Room ==
    Cardinality({p \in DagJobs \X (1..MaxDagRuns) : p[2] <= waits[p[1]]})
        + Len(table) < MaxDagRuns

SlotFree ==
    Cardinality({i \in DOMAIN table : table[i].at \in {"run", "scan"}}) < Slots

NewRow(j, manual, at) == [job |-> j, manual |-> manual, at |-> at,
                          status |-> "running", left |-> {}]

\* The cron trigger of j fires.
DagFire(j) ==
    /\ Room
    /\ waits' = [waits EXCEPT ![j] = @ + 1]
    /\ UNCHANGED <<table, owed>>

\* A manual trigger: the row is there at once, and shows as running.
DagTrigger(j) ==
    /\ Room
    /\ table' = Append(table, NewRow(j, TRUE, "wait"))
    /\ UNCHANGED <<waits, owed>>

DagStartManual(i) ==
    /\ SlotFree
    /\ table[i].at = "wait"
    /\ table' = [table EXCEPT ![i].at = "run"]
    /\ UNCHANGED <<waits, owed>>

\* A run gets a slot; without its dependencies it is skipped.
DagStart(j) ==
    /\ SlotFree
    /\ waits[j] > 0
    /\ waits' = [waits EXCEPT ![j] = @ - 1]
    /\ table' = IF DepsMet(j) THEN Append(table, NewRow(j, FALSE, "run"))
                ELSE table
    /\ UNCHANGED owed

\* Its outcome is committed; a success goes on to look for dependents.
DagEnd(i, status) ==
    LET next == {j \in DagJobs : table[i].job \in Needs[j]}
        scans == status = "success" /\ next # {}
    IN  /\ table[i].at = "run"
        /\ table' = [table EXCEPT ![i].status = status,
                                  ![i].at = IF scans THEN "scan" ELSE "done",
                                  ![i].left = IF scans THEN next ELSE {}]
        /\ UNCHANGED <<waits, owed>>

\* One candidate of _trigger_dependents: a thread, if its dependencies are met.
DagScan(i, j) ==
    /\ table[i].at = "scan"
    /\ j \in table[i].left
    /\ LET left == table[i].left \ {j}
       IN  table' = [table EXCEPT ![i].left = left,
                                  ![i].at = IF left = {} THEN "done" ELSE @]
    /\ \/ /\ DepsMet(j) /\ Room
          /\ waits' = [waits EXCEPT ![j] = @ + 1]
          /\ owed' = [owed EXCEPT ![j] = @ + 1]
       \/ ~DepsMet(j) /\ UNCHANGED <<waits, owed>>

DagNext ==
    \/ \E j \in DagJobs : DagFire(j) \/ DagTrigger(j) \/ DagStart(j)
    \/ \E i \in DOMAIN table :
          \/ DagStartManual(i)
          \/ \E s \in {"success", "failure"} : DagEnd(i, s)
          \/ \E j \in DagJobs : DagScan(i, j)

DagSpec == DagInit /\ [][DagNext]_dagVars

-----------------------------------------------------------------------------
(* Properties *)

\* When all is quiet and the newest row of each dependency of a job is a
\* success, the job has run since those runs began: the success that completes
\* the set starts it, in whatever order the dependencies began and ended,
\* failed and were retried, and although a run that finds one of them at work
\* again gives up.
JoinTriggers ==
    (/\ \A j \in DagJobs : waits[j] = 0
     /\ \A i \in DOMAIN table : table[i].at = "done") =>
        \A j \in DagJobs :
            LET newest == {i \in DOMAIN table :
                              \E d \in Needs[j] : IsLatest(i, d)}
            IN  (/\ Needs[j] # {}
                 /\ {table[i].job : i \in newest} = Needs[j]
                 /\ \A i \in newest : table[i].status = "success") =>
                    \E k \in DOMAIN table :
                        /\ table[k].job = j /\ ~table[k].manual
                        /\ \A i \in newest : k > i

\* A job is started by its dependencies only when all of them have succeeded
\* some time, and no more often than they succeed: two of them that end together
\* may start it twice, but never more.
StartsAreOwed ==
    \A j \in DagJobs :
        LET good == {i \in DOMAIN table :
                        table[i].status = "success" /\ table[i].job \in Needs[j]}
        IN  /\ owed[j] <= Cardinality(good)
            /\ owed[j] > 0 => {table[i].job : i \in good} = Needs[j]

=============================================================================

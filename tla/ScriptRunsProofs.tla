--------------------------- MODULE ScriptRunsProofs ---------------------------
(***************************************************************************)
(* Which script a run executes, for any number of jobs, requests and runs: *)
(* the invariants of JobRequestsProofs, and what each run knows of its job *)
(* from its trigger to its interpreter.                                    *)
(***************************************************************************)
EXTENDS JobRequestsProofs, ScriptRuns

\* Where a run is, and what it has by then.
Placed(r) ==
    LET run == runs[r] IN
    /\ run.at # "free" => run.job \in Jobs \ fresh
    /\ run.at = "free" => run.recorded = 0
    /\ run.at \in {"free", "load", "create"} => run.row = None
    /\ run.at \in {"free", "load", "create", "read"} => run.is = None
    /\ run.at \in {"open", "fill", "exec", "begun"} => run.is \in Version
    /\ run.at \notin {"begun", "done"} => run.ran = None
    /\ run.replay # 0 => run.replay = run.recorded /\ run.pre
    /\ run.at = "create" => ~run.pre

\* The version its row names is a version of the job.
Recorded(r) ==
    LET run == runs[r] IN
    (Exists(run.job) /\ run.recorded # 0) => run.recorded \in Numbers(run.job)

\* The job as it was read has the script of the version that was the newest.
HeldRow(r) ==
    LET run == runs[r] IN
    (run.row # None /\ Exists(run.job) /\ run.job \notin rewound) =>
        /\ run.recorded <= run.head
        /\ \E v \in VersionsOf(run.job) :
              v.number = run.head /\ v.is.script = run.row.script

\* What RunsASavedVersion says of one run.
SavedRun(r) ==
    LET run == runs[r] IN
    (run.is # None /\ Exists(run.job) /\ run.job \notin rewound) =>
        \E v \in VersionsOf(run.job) :
            /\ v.is.script = run.is.script
            /\ v.number \in run.recorded..run.head \union {run.replay}

\* What a replay has chosen is the version it was asked for.
Exact(r) ==
    LET run == runs[r] IN
    /\ run.replay # 0 /\ Exists(run.job)
    /\ run.at \in {"open", "fill", "exec", "begun"} \/ run.ran # None
    => \E v \in VersionsOf(run.job) : v.number = run.replay /\ v.is = run.is

\* The file of a run that no other has crossed is what the run made of it.
InFile(r) ==
    LET run == runs[r] IN
    ~run.crossed =>
        /\ run.at = "fill" => files[FileOf(run)] = Empty
        /\ run.at \in {"exec", "begun"} => files[FileOf(run)] = run.is.script
        /\ run.ran # None \/ run.at = "begun" => run.ran = run.is.script

RunOK(r) == Placed(r) /\ Recorded(r) /\ HeldRow(r) /\ SavedRun(r) /\ Exact(r)
            /\ InFile(r)

ScriptInv == IInv /\ ScriptsTypeOK /\ \A r \in RunIds : RunOK(r)

-----------------------------------------------------------------------------
(* What the requests do to the history of a job *)

\* An id that has been drawn stays drawn, a job that has gone does not come
\* back, and no restore is forgotten.
LEMMA JobsGo ==
    ASSUME IInv, [RequestsNext]_requestVars
    PROVE  /\ fresh' \subseteq fresh /\ rewound \subseteq rewound'
           /\ \A j \in Jobs \ fresh : jobs'[j] # None => jobs[j] # None
<1>1. jobs \in [Jobs -> Row \union {None}]
  BY DEF IInv, RequestsTypeOK
<1>2. ASSUME NEW h \in Handlers, NEW j \in Jobs,
             \/ \E row \in NewRows : Create(h, j, row)
             \/ DuplicateCopy(h, j)
      PROVE  /\ fresh' \subseteq fresh /\ rewound \subseteq rewound'
             /\ \A k \in Jobs \ fresh : jobs'[k] # None => jobs[k] # None
  BY <1>1, <1>2 DEF Create, DuplicateCopy
<1>3. ASSUME NEW h \in Handlers, NEW j \in Jobs,
             \/ \E patch \in Patches : UpdateLoad(h, j, patch)
             \/ RestoreLoad(h, j)
             \/ \E own \in BOOLEAN : DeleteStart(h, j, own)
             \/ DuplicateLoad(h, j)
      PROVE  UNCHANGED <<jobs, fresh, rewound>>
  BY <1>3 DEF UpdateLoad, RestoreLoad, DeleteStart, DuplicateLoad, dbVars
<1>4. ASSUME NEW h \in Handlers,
             RestoreTarget(h) \/ MaxQuery(h) \/ Refresh(h) \/ Register(h)
             \/ Unregister(h)
      PROVE  UNCHANGED <<jobs, fresh, rewound>>
  BY <1>4
  DEF RestoreTarget, MaxQuery, Refresh, Register, Unregister, Fail, dbVars
<1>5. ASSUME NEW h \in Handlers, Commit(h)
      PROVE  /\ fresh' = fresh /\ rewound \subseteq rewound'
             /\ \A k \in Jobs : jobs'[k] # None => jobs[k] # None
  <2>1. CASE Fail(h)
    BY <2>1 DEF Fail, dbVars
  <2>2. CASE /\ Commits(h) /\ fresh' = fresh
             /\ jobs' = [jobs EXCEPT ![req[h].job] = Written(@, req[h])]
             /\ rewound \subseteq rewound'
    <3>1. jobs[req[h].job] # None
      BY <2>2 DEF Commits, Exists
    <3>. QED BY <1>1, <2>2, <3>1
  <2>. QED BY <1>5, <2>1, <2>2 DEF Commit
<1>6. ASSUME NEW h \in Handlers, DeleteRemove(h)
      PROVE  /\ fresh' = fresh /\ rewound' = rewound
             /\ \A k \in Jobs : jobs'[k] # None => jobs[k] # None
  BY <1>1, <1>6 DEF DeleteRemove
<1>7. CASE Restart \/ UNCHANGED requestVars
  BY <1>7 DEF Restart, dbVars, requestVars
<1>. QED BY <1>2, <1>3, <1>4, <1>5, <1>6, <1>7 DEF RequestsNext

LEMMA HistoryGrows ==
    ASSUME IInv, [RequestsNext]_requestVars, NEW j \in Jobs \ fresh, Exists(j)'
    PROVE  /\ Exists(j)
           /\ VersionsOf(j) \subseteq VersionsOf(j)'
           /\ Numbers(j) \subseteq Numbers(j)'
<1>1. Exists(j)
  BY JobsGo DEF Exists
<1>2. VersionsOf(j) \subseteq VersionsOf(j)'
  BY VersionsKept DEF VersionsOf, Exists
<1>3. Numbers(j) \subseteq Numbers(j)'
  BY <1>2 DEF Numbers
<1>. QED BY <1>1, <1>2, <1>3

\* The newest version of a job, and its script.
LEMMA Newest ==
    ASSUME IInv, NEW j \in Jobs
    PROVE  /\ Highest(j) \in Nat
           /\ \A k \in Numbers(j) : k \in Nat /\ k <= Highest(j)
           /\ Exists(j) => Highest(j) \in Numbers(j) /\ Highest(j) # 0
           /\ ~Exists(j) => Highest(j) = 0
           /\ (Exists(j) /\ j \notin rewound) =>
                 \E v \in VersionsOf(j) :
                    v.number = Highest(j) /\ v.is.script = jobs[j].script
<1>1. PICK n \in Nat : Numbers(j) = 1..n /\ (n > 0 <=> Exists(j))
  BY DEF IInv, Histories, Whole
<1>2. Highest(j) = n
  BY <1>1, HighestIs
<1>3. ASSUME Exists(j), j \notin rewound
      PROVE  \E v \in VersionsOf(j) :
                v.number = Highest(j) /\ v.is.script = jobs[j].script
  <2>1. PICK v \in VersionsOf(j) :
           Numbers(j) = 1..v.number /\ v.is.script = jobs[j].script
    BY <1>3 DEF IInv, Heads, HeadRight
  <2>2. v.number \in Nat
    BY DEF VersionsOf, IInv, RequestsTypeOK, VersionRow
  <2>3. Highest(j) = v.number
    BY <2>1, <2>2, HighestIs
  <2>. QED BY <2>1, <2>3
<1>. QED BY <1>1, <1>2, <1>3

-----------------------------------------------------------------------------
(* Steps *)

LEMMA FreeRun == Free \in Run
  BY DEF Free, Run, Contents

LEMMA ScriptsInitHolds == ScriptsInit => ScriptInv
<1>. SUFFICES ASSUME ScriptsInit PROVE ScriptInv
  OBVIOUS
<1>1. IInv
  BY InitHolds DEF ScriptsInit
<1>2. ScriptsTypeOK
  BY FreeRun, RunsAssumption DEF ScriptsInit, ScriptsTypeOK, Contents
<1>3. ASSUME NEW r \in RunIds PROVE RunOK(r)
  <2>1. runs[r] = Free
    BY DEF ScriptsInit
  <2>2. /\ runs[r].at = "free" /\ runs[r].recorded = 0 /\ runs[r].replay = 0
        /\ runs[r].row = None /\ runs[r].is = None /\ runs[r].ran = None
    BY <2>1 DEF Free
  <2>. QED
    BY <2>2 DEF RunOK, Placed, Recorded, HeldRow, SavedRun, Exact, InFile
<1>. QED BY <1>1, <1>2, <1>3 DEF ScriptInv

\* A request leaves every run what it was.
LEMMA RequestKeepsRuns ==
    ASSUME ScriptInv, [RequestsNext]_requestVars, UNCHANGED runVars
    PROVE  ScriptInv'
<1>1. IInv'
  BY NextKeeps DEF ScriptInv
<1>2. runs' = runs /\ files' = files /\ started' = started
  BY DEF runVars
<1>3. ScriptsTypeOK'
  BY <1>2 DEF ScriptInv, ScriptsTypeOK
<1>4. ASSUME NEW r \in RunIds PROVE RunOK(r)'
  <2>1. RunOK(r) /\ runs[r] \in Run /\ runs'[r] = runs[r]
    BY <1>2 DEF ScriptInv, ScriptsTypeOK
  <2>2. Placed(r)' /\ InFile(r)'
    BY <1>2, <2>1, JobsGo DEF ScriptInv, RunOK, Placed, InFile, FileOf
  <2>3. CASE runs[r].at = "free"
    BY <2>1, <2>2, <2>3
    DEF RunOK, Placed, Recorded, HeldRow, SavedRun, Exact, Run
  <2>4. CASE runs[r].at # "free"
    <3>1. PICK j \in Jobs \ fresh : runs[r].job = j
      BY <2>1, <2>4 DEF RunOK, Placed
    <3>2. runs'[r].job = j
      BY <2>1, <3>1
    <3>3. Exists(j)' => /\ Exists(j)
                        /\ VersionsOf(j) \subseteq VersionsOf(j)'
                        /\ Numbers(j) \subseteq Numbers(j)'
      BY HistoryGrows DEF ScriptInv
    <3>4. j \notin rewound' => j \notin rewound
      BY JobsGo DEF ScriptInv
    <3>5. Recorded(r)'
      <4>1. Exists(j)' /\ runs[r].recorded # 0 => runs[r].recorded \in Numbers(j)'
        BY <2>1, <3>1, <3>3 DEF RunOK, Recorded
      <4>. QED BY <2>1, <3>2, <4>1 DEF Recorded, Exists, Numbers, VersionsOf
    <3>6. HeldRow(r)'
      <4>1. (runs[r].row # None /\ Exists(j)' /\ j \notin rewound') =>
               /\ runs[r].recorded <= runs[r].head
               /\ \E v \in VersionsOf(j)' :
                     v.number = runs[r].head /\ v.is.script = runs[r].row.script
        BY <2>1, <3>1, <3>3, <3>4 DEF RunOK, HeldRow
      <4>. QED BY <2>1, <3>2, <4>1 DEF HeldRow, Exists, VersionsOf
    <3>7. SavedRun(r)'
      <4>1. (runs[r].is # None /\ Exists(j)' /\ j \notin rewound') =>
               \E v \in VersionsOf(j)' :
                  /\ v.is.script = runs[r].is.script
                  /\ v.number \in runs[r].recorded..runs[r].head
                                  \union {runs[r].replay}
        BY <2>1, <3>1, <3>3, <3>4 DEF RunOK, SavedRun
      <4>. QED BY <2>1, <3>2, <4>1 DEF SavedRun, Exists, VersionsOf
    <3>8. Exact(r)'
      <4>1. /\ runs[r].replay # 0 /\ Exists(j)'
            /\ runs[r].at \in {"open", "fill", "exec", "begun"} \/ runs[r].ran # None
            => \E v \in VersionsOf(j)' :
                  v.number = runs[r].replay /\ v.is = runs[r].is
        BY <2>1, <3>1, <3>3 DEF RunOK, Exact
      <4>. QED BY <2>1, <3>2, <4>1 DEF Exact, Exists, VersionsOf
    <3>. QED BY <2>2, <3>5, <3>6, <3>7, <3>8 DEF RunOK
  <2>. QED BY <2>3, <2>4
<1>. QED BY <1>1, <1>3, <1>4 DEF ScriptInv

\* A step of one run that leaves the requests and the files alone.
LEMMA OneRunMoves ==
    ASSUME ScriptInv, NEW r \in RunIds, NEW m \in Run,
           runs' = [runs EXCEPT ![r] = m], UNCHANGED <<requestVars, files>>,
           started' \in 0..MaxRuns, RunOK(r)'
    PROVE  ScriptInv'
<1>1. /\ UNCHANGED <<jobs, fresh, versions, sched, req, served, restarts, adrift,
                     rewound>>
      /\ files' = files
  BY DEF requestVars
<1>2. IInv'
  BY NextKeeps DEF ScriptInv
<1>3. ScriptsTypeOK'
  BY <1>1 DEF ScriptInv, ScriptsTypeOK
<1>4. ASSUME NEW q \in RunIds, q # r PROVE RunOK(q)'
  <2>1. RunOK(q) /\ runs'[q] = runs[q]
    BY <1>4 DEF ScriptInv, ScriptsTypeOK
  <2>2. Placed(q)' /\ Recorded(q)'
    BY <1>1, <2>1 DEF RunOK, Placed, Recorded, Exists, VersionsOf, Numbers
  <2>3. HeldRow(q)' /\ SavedRun(q)'
    BY <1>1, <2>1 DEF RunOK, HeldRow, SavedRun, Exists, VersionsOf
  <2>4. Exact(q)' /\ InFile(q)'
    BY <1>1, <2>1 DEF RunOK, Exact, InFile, FileOf, Exists, VersionsOf
  <2>. QED BY ONLY <2>2, <2>3, <2>4 DEF RunOK
<1>. QED BY <1>2, <1>3, <1>4 DEF ScriptInv

\* A run begins, about a job that exists or is registered.
LEMMA RunBegins ==
    ASSUME ScriptInv, NEW j \in Jobs \ fresh, NEW run \in Run, Begin(run),
           run.at = "load", run.job = j, run.row = None, run.is = None,
           run.ran = None,
           run.replay # 0 => run.replay = run.recorded /\ run.pre,
           Exists(j) /\ run.recorded # 0 => run.recorded \in Numbers(j)
    PROVE  ScriptInv'
<1>1. /\ started < MaxRuns /\ started' = started + 1
      /\ runs' = [runs EXCEPT ![started + 1] = run]
      /\ UNCHANGED <<requestVars, files>>
  BY DEF Begin
<1>2. started + 1 \in RunIds /\ started' \in 0..MaxRuns
  BY <1>1, RunsAssumption DEF ScriptInv, ScriptsTypeOK, RunIds
<1> DEFINE r == started + 1
<1>3. runs'[r] = run
  BY <1>1, <1>2 DEF ScriptInv, ScriptsTypeOK
<1>4. /\ jobs' = jobs /\ fresh' = fresh /\ versions' = versions
      /\ rewound' = rewound
  BY <1>1 DEF requestVars
<1>5. PICK i \in RunIds : i = r
  BY <1>2
<1> HIDE DEF r
<1>6. RunOK(i)'
  <2>1. runs'[i] = run
    BY <1>3, <1>5
  <2>2. Placed(i)'
    BY <1>4, <2>1 DEF Placed
  <2>3. Recorded(i)'
    BY <1>4, <2>1 DEF Recorded, Exists, Numbers, VersionsOf
  <2>4. HeldRow(i)' /\ SavedRun(i)' /\ Exact(i)' /\ InFile(i)'
    BY <2>1 DEF HeldRow, SavedRun, Exact, InFile
  <2>. QED BY <2>2, <2>3, <2>4 DEF RunOK
<1>7. runs' = [runs EXCEPT ![i] = run]
  BY <1>1, <1>5 DEF r
<1>. QED BY <1>1, <1>2, <1>6, <1>7, OneRunMoves

LEMMA FireStep ==
    ASSUME ScriptInv, NEW j \in Jobs, Fire(j)
    PROVE  ScriptInv'
<1> DEFINE run == [Free EXCEPT !.at = "load", !.job = j]
<1>1. sched[j] # None /\ Begin(run)
  BY DEF Fire
<1>2. j \notin fresh
  BY <1>1 DEF ScriptInv, IInv, FreshIds
<1>3. /\ run \in Run /\ run.at = "load" /\ run.job = j /\ run.row = None
      /\ run.is = None /\ run.ran = None /\ run.replay = 0 /\ run.recorded = 0
  BY FreeRun DEF Run, Free
<1> HIDE DEF run
<1>. QED BY <1>1, <1>2, <1>3, RunBegins

LEMMA TriggerStep ==
    ASSUME ScriptInv, NEW j \in Jobs, Trigger(j)
    PROVE  ScriptInv'
<1> DEFINE top == Highest(j)
           run == [Free EXCEPT !.at = "load", !.job = j, !.pre = TRUE,
                               !.recorded = top]
<1>1. Exists(j) /\ Begin(run)
  BY DEF Trigger
<1>2. j \notin fresh
  BY <1>1 DEF ScriptInv, IInv, FreshIds, Exists
<1>3. top \in Nat /\ top \in Numbers(j)
  BY <1>1, Newest DEF ScriptInv
<1> HIDE DEF top
<1>4. /\ run \in Run /\ run.at = "load" /\ run.job = j /\ run.row = None
      /\ run.is = None /\ run.ran = None /\ run.replay = 0
      /\ run.recorded = top
  BY <1>3, FreeRun DEF Run, Free
<1> HIDE DEF run
<1>. QED BY <1>1, <1>2, <1>3, <1>4, RunBegins

LEMMA ReplayStep ==
    ASSUME ScriptInv, NEW old \in RunIds, Replay(old)
    PROVE  ScriptInv'
<1> DEFINE j == runs[old].job
           number == runs[old].recorded
           run == [Free EXCEPT !.at = "load", !.job = j, !.pre = TRUE,
                               !.recorded = number, !.replay = number]
<1>1. number # 0 /\ Exists(j) /\ Begin(run)
  BY DEF Replay
<1>2. runs[old] \in Run /\ RunOK(old)
  BY DEF ScriptInv, ScriptsTypeOK
<1>3. j \in Jobs \ fresh /\ number \in Nat /\ number \in Numbers(j)
  BY <1>1, <1>2 DEF RunOK, Placed, Recorded, Run
<1> HIDE DEF j, number
<1>4. /\ run \in Run /\ run.at = "load" /\ run.job = j /\ run.row = None
      /\ run.is = None /\ run.ran = None /\ run.replay = number /\ run.pre
      /\ run.recorded = number
  BY <1>3, FreeRun DEF Run, Free
<1> HIDE DEF run
<1>. QED BY <1>1, <1>3, <1>4, RunBegins

\* What the proofs of one run's steps use of the run before the step.
LEMMA RunFacts ==
    ASSUME ScriptInv, NEW r \in RunIds
    PROVE  /\ runs[r] \in Run
           /\ Placed(r) /\ Recorded(r) /\ HeldRow(r) /\ SavedRun(r) /\ Exact(r)
           /\ InFile(r)
           /\ started \in 0..MaxRuns /\ IInv
           /\ \A m : runs' = [runs EXCEPT ![r] = m] => runs'[r] = m
  BY DEF ScriptInv, ScriptsTypeOK, RunOK

\* A run that ends before it has read a script.
LEMMA RunStops ==
    ASSUME ScriptInv, NEW r \in RunIds, NEW number \in Nat,
           runs[r].at \in {"load", "create", "read"},
           runs' = [runs EXCEPT ![r] = [runs[r] EXCEPT !.at = "done",
                                                      !.recorded = number]],
           number = runs[r].recorded \/ (runs[r].at = "create" /\ number = 0),
           UNCHANGED <<requestVars, started, files>>
    PROVE  ScriptInv'
<1> DEFINE run == runs[r]
           m == [run EXCEPT !.at = "done", !.recorded = number]
<1>1. run \in Run /\ runs'[r] = m
  BY RunFacts
<1>2. /\ m \in Run /\ m.at = "done" /\ m.job = run.job /\ m.pre = run.pre
      /\ m.recorded = number /\ m.replay = run.replay /\ m.row = run.row
      /\ m.head = run.head /\ m.is = run.is /\ m.ran = run.ran
      /\ m.crossed = run.crossed
  BY <1>1 DEF Run
<1>3. /\ jobs' = jobs /\ fresh' = fresh /\ versions' = versions
      /\ rewound' = rewound
  BY DEF requestVars
<1>4. runs' = [runs EXCEPT ![r] = m]
  OBVIOUS
<1> HIDE DEF m
<1>5. run.is = None /\ run.ran = None
  BY RunFacts DEF Placed
<1>6. Placed(r)'
  BY <1>1, <1>2, <1>3, <1>5, RunFacts DEF Placed
<1>7. Recorded(r)'
  BY <1>1, <1>2, <1>3, RunFacts DEF Recorded, Exists, Numbers, VersionsOf
<1>8. HeldRow(r)'
  <2>1. run.at = "create" => run.row = None
    BY RunFacts DEF Placed
  <2>. QED
    BY <1>1, <1>2, <1>3, <2>1, RunFacts DEF HeldRow, Exists, VersionsOf
<1>9. SavedRun(r)' /\ Exact(r)' /\ InFile(r)'
  BY <1>1, <1>2, <1>5 DEF SavedRun, Exact, InFile
<1>10. RunOK(r)'
  BY <1>6, <1>7, <1>8, <1>9 DEF RunOK
<1>11. started' \in 0..MaxRuns
  BY RunFacts
<1>. QED BY <1>2, <1>4, <1>10, <1>11, OneRunMoves

\* A run that has found its job, and holds it if its row was there before.
LEMMA RunLoads ==
    ASSUME ScriptInv, NEW r \in RunIds, Load(r)
    PROVE  ScriptInv'
<1> DEFINE run == runs[r]
           now == jobs[run.job]
           top == Highest(run.job)
<1>1. run.at = "load" /\ run \in Run /\ UNCHANGED <<requestVars, started, files>>
  BY RunFacts DEF Load
<1>2. run.job \in Jobs \ fresh /\ run.row = None /\ run.is = None /\ run.ran = None
  BY <1>1, RunFacts DEF Placed
<1>3. /\ jobs' = jobs /\ fresh' = fresh /\ versions' = versions
      /\ rewound' = rewound
  BY <1>1 DEF requestVars
<1>4. CASE now = None \/ (~now.active /\ ~run.pre)
  <2>1. runs' = [runs EXCEPT ![r] = [run EXCEPT !.at = "done"]]
    BY <1>4 DEF Load
  <2>2. [run EXCEPT !.at = "done"]
          = [run EXCEPT !.at = "done", !.recorded = run.recorded]
    BY <1>1 DEF Run
  <2>. QED BY <1>1, <2>1, <2>2, RunStops DEF Run
<1>5. CASE now # None /\ run.pre
  <2> DEFINE m == [run EXCEPT !.at = "read", !.row = now, !.head = top]
  <2>1. runs' = [runs EXCEPT ![r] = m]
    BY <1>5 DEF Load
  <2>2. now \in Row /\ top \in Nat
    BY <1>2, <1>5, Newest DEF ScriptInv, IInv, RequestsTypeOK
  <2>3. /\ m \in Run /\ m.at = "read" /\ m.job = run.job /\ m.pre = run.pre
        /\ m.recorded = run.recorded /\ m.replay = run.replay /\ m.row = now
        /\ m.head = top /\ m.is = run.is /\ m.ran = run.ran
        /\ m.crossed = run.crossed
    BY <1>1, <2>2 DEF Run
  <2> HIDE DEF m
  <2>4. runs'[r] = m
    BY <2>1, RunFacts
  <2>5. Placed(r)'
    BY <1>1, <1>2, <1>3, <2>3, <2>4, RunFacts DEF Placed
  <2>6. Recorded(r)'
    BY <1>3, <2>3, <2>4, RunFacts DEF Recorded, Exists, Numbers, VersionsOf
  <2>7. HeldRow(r)'
    <3>1. Exists(run.job)
      BY <1>5 DEF Exists
    <3>2. run.recorded <= top
      <4>1. run.recorded = 0 \/ run.recorded \in Numbers(run.job)
        BY <3>1, RunFacts DEF Recorded
      <4>. QED BY <1>2, <2>2, <4>1, Newest DEF ScriptInv
    <3>3. run.job \notin rewound =>
            \E v \in VersionsOf(run.job) :
               v.number = top /\ v.is.script = now.script
      BY <1>2, <3>1, Newest DEF ScriptInv
    <3>. QED
      BY <1>3, <2>3, <2>4, <3>2, <3>3 DEF HeldRow, Exists, VersionsOf
  <2>8. SavedRun(r)' /\ Exact(r)' /\ InFile(r)'
    BY <1>2, <2>3, <2>4 DEF SavedRun, Exact, InFile
  <2>9. RunOK(r)'
    BY <2>5, <2>6, <2>7, <2>8 DEF RunOK
  <2>10. started' \in 0..MaxRuns
    BY <1>1, RunFacts
  <2>. QED BY <1>1, <2>1, <2>3, <2>9, <2>10, OneRunMoves
<1>6. CASE now # None /\ ~run.pre /\ now.active
  <2> DEFINE m == [run EXCEPT !.at = "create"]
  <2>1. runs' = [runs EXCEPT ![r] = m]
    BY <1>6 DEF Load
  <2>2. /\ m \in Run /\ m.at = "create" /\ m.job = run.job /\ m.pre = run.pre
        /\ m.recorded = run.recorded /\ m.replay = run.replay
        /\ m.row = run.row /\ m.is = run.is /\ m.ran = run.ran
        /\ m.crossed = run.crossed
    BY <1>1 DEF Run
  <2> HIDE DEF m
  <2>3. runs'[r] = m
    BY <2>1, RunFacts
  <2>4. Placed(r)'
    BY <1>1, <1>2, <1>3, <1>6, <2>2, <2>3, RunFacts DEF Placed
  <2>5. Recorded(r)'
    BY <1>3, <2>2, <2>3, RunFacts DEF Recorded, Exists, Numbers, VersionsOf
  <2>6. HeldRow(r)' /\ SavedRun(r)' /\ Exact(r)' /\ InFile(r)'
    BY <1>2, <2>2, <2>3 DEF HeldRow, SavedRun, Exact, InFile
  <2>7. RunOK(r)'
    BY <2>4, <2>5, <2>6 DEF RunOK
  <2>8. started' \in 0..MaxRuns
    BY <1>1, RunFacts
  <2>. QED BY <1>1, <2>1, <2>2, <2>7, <2>8, OneRunMoves
<1>7. now # None => now.active \in BOOLEAN
  BY <1>2 DEF ScriptInv, IInv, RequestsTypeOK, Row
<1>. QED BY <1>4, <1>5, <1>6, <1>7

\* A fired run whose row is written, or whose job has gone.
LEMMA RowStep ==
    ASSUME ScriptInv, NEW r \in RunIds, CreateRow(r)
    PROVE  ScriptInv'
<1> DEFINE run == runs[r]
           top == Highest(run.job)
<1>1. run.at = "create" /\ run \in Run
      /\ UNCHANGED <<requestVars, started, files>>
  BY RunFacts DEF CreateRow
<1>2. /\ run.job \in Jobs \ fresh /\ run.row = None /\ run.is = None
      /\ run.ran = None /\ run.replay = 0
  BY <1>1, RunFacts DEF Placed
<1>3. /\ top \in Nat /\ (Exists(run.job) => top \in Numbers(run.job))
      /\ (~Exists(run.job) => top = 0)
  BY <1>2, Newest DEF ScriptInv
<1>4. /\ jobs' = jobs /\ fresh' = fresh /\ versions' = versions
      /\ rewound' = rewound
  BY <1>1 DEF requestVars
<1>5. CASE ~Exists(run.job)
  <2>1. runs' = [runs EXCEPT ![r].at = "done", ![r].recorded = top]
    BY <1>5 DEF CreateRow
  <2>2. runs' = [runs EXCEPT ![r] = [run EXCEPT !.at = "done",
                                                !.recorded = top]]
    BY <2>1 DEF ScriptInv, ScriptsTypeOK
  <2>. QED BY <1>1, <1>3, <1>5, <2>2, RunStops
<1>6. CASE Exists(run.job)
  <2> DEFINE m == [run EXCEPT !.at = "read", !.recorded = top]
  <2>1. runs' = [runs EXCEPT ![r].at = "read", ![r].recorded = top]
    BY <1>6 DEF CreateRow
  <2>2. runs' = [runs EXCEPT ![r] = m]
    BY <2>1 DEF ScriptInv, ScriptsTypeOK
  <2> HIDE DEF top
  <2>3. /\ m \in Run /\ m.at = "read" /\ m.job = run.job
        /\ m.recorded = top /\ m.replay = run.replay
        /\ m.row = run.row /\ m.is = run.is /\ m.ran = run.ran
        /\ m.crossed = run.crossed
    BY <1>1, <1>3 DEF Run
  <2> HIDE DEF m
  <2>4. runs'[r] = m
    BY <2>2, RunFacts
  <2>5. Placed(r)'
    BY <1>2, <1>4, <2>3, <2>4 DEF Placed
  <2>6. Recorded(r)'
    BY <1>3, <1>4, <2>3, <2>4 DEF Recorded, Exists, Numbers, VersionsOf
  <2>7. HeldRow(r)' /\ SavedRun(r)' /\ Exact(r)' /\ InFile(r)'
    BY <1>2, <2>3, <2>4 DEF HeldRow, SavedRun, Exact, InFile
  <2>8. RunOK(r)'
    BY <2>5, <2>6, <2>7 DEF RunOK
  <2>9. started' \in 0..MaxRuns
    BY <1>1, RunFacts
  <2>. QED BY <1>1, <2>2, <2>3, <2>8, <2>9, OneRunMoves
<1>. QED BY <1>5, <1>6

\* A run that has read its script: the version to replay, or the job's own.
LEMMA ScriptStep ==
    ASSUME ScriptInv, NEW r \in RunIds, ReadScript(r)
    PROVE  ScriptInv'
<1> DEFINE run == runs[r]
           row == IF run.row # None THEN run.row ELSE jobs[run.job]
           head == IF run.row # None THEN run.head ELSE Highest(run.job)
           is == Chosen(run, row)
<1>1. run.at = "read" /\ run \in Run
      /\ UNCHANGED <<requestVars, started, files>>
  BY RunFacts DEF ReadScript
<1>2. run.job \in Jobs \ fresh /\ run.is = None /\ run.ran = None
  BY <1>1, RunFacts DEF Placed
<1>3. /\ jobs' = jobs /\ fresh' = fresh /\ versions' = versions
      /\ rewound' = rewound
  BY <1>1 DEF requestVars
<1>4. CASE runs' = [runs EXCEPT ![r].at = "done"]
  <2>1. runs' = [runs EXCEPT ![r] = [run EXCEPT !.at = "done",
                                                !.recorded = run.recorded]]
    BY <1>1, <1>4 DEF Run, ScriptInv, ScriptsTypeOK
  <2>. QED BY <1>1, <2>1, RunStops DEF Run
<1>5. CASE /\ row # None
           /\ runs' = [runs EXCEPT ![r].at = "open", ![r].row = row,
                   ![r].head = IF run.row # None THEN @ ELSE Highest(run.job),
                   ![r].is = Chosen(run, row)]
  <2> DEFINE m == [run EXCEPT !.at = "open", !.row = row, !.head = head,
                              !.is = is]
  <2>1. runs' = [runs EXCEPT ![r] = m]
    BY <1>5 DEF ScriptInv, ScriptsTypeOK
  <2>2. row \in Row /\ head \in Nat
    BY <1>1, <1>2, <1>5, Newest DEF Run, ScriptInv, IInv, RequestsTypeOK
  <2>3. /\ Exists(run.job) => (run.recorded = 0 \/ run.recorded \in Numbers(run.job))
        /\ run.recorded \in Nat /\ run.replay \in Nat
        /\ run.replay # 0 => run.replay = run.recorded
    BY <1>1, RunFacts DEF Recorded, Placed, Run
  <2>4. (Exists(run.job) /\ run.job \notin rewound) =>
           /\ run.recorded <= head
           /\ \E v \in VersionsOf(run.job) :
                 v.number = head /\ v.is.script = row.script
    <3>1. CASE run.row # None
      BY <3>1, RunFacts DEF HeldRow
    <3>2. CASE run.row = None
      <4>1. Exists(run.job) => run.recorded <= Highest(run.job)
        BY <1>2, <2>3, Newest DEF ScriptInv
      <4>2. (Exists(run.job) /\ run.job \notin rewound) =>
               \E v \in VersionsOf(run.job) :
                  v.number = Highest(run.job) /\ v.is.script = jobs[run.job].script
        BY <1>2, Newest DEF ScriptInv
      <4>. QED BY <3>2, <4>1, <4>2
    <3>. QED BY <3>1, <3>2
  <2> HIDE DEF row, head
  <2>5. CASE \E v \in VersionsOf(run.job) : v.number = run.replay
    <3>1. PICK v \in VersionsOf(run.job) : v.number = run.replay /\ is = v.is
      BY <2>5 DEF Chosen
    <3>2. v.is \in Version
      BY DEF VersionsOf, ScriptInv, IInv, RequestsTypeOK, VersionRow
    <3> HIDE DEF is
    <3>3. /\ m \in Run /\ m.at = "open" /\ m.job = run.job /\ m.pre = run.pre
          /\ m.recorded = run.recorded /\ m.replay = run.replay /\ m.row = row
          /\ m.head = head /\ m.is = is /\ m.ran = run.ran
          /\ m.crossed = run.crossed
      BY <1>1, <2>2, <3>1, <3>2 DEF Run
    <3> HIDE DEF m
    <3>4. runs'[r] = m
      BY <2>1, RunFacts
    <3>5. Placed(r)'
      BY <1>1, <1>2, <1>3, <3>1, <3>2, <3>3, <3>4, RunFacts DEF Placed
    <3>6. Recorded(r)'
      BY <1>3, <3>3, <3>4, RunFacts DEF Recorded, Exists, Numbers, VersionsOf
    <3>7. HeldRow(r)'
      BY <1>3, <2>4, <3>3, <3>4 DEF HeldRow, Exists, VersionsOf
    <3>8. SavedRun(r)' /\ Exact(r)' /\ InFile(r)'
      BY <1>2, <1>3, <3>1, <3>3, <3>4
      DEF SavedRun, Exact, InFile, Exists, VersionsOf
    <3>9. RunOK(r)'
      BY <3>5, <3>6, <3>7, <3>8 DEF RunOK
    <3>10. started' \in 0..MaxRuns
      BY <1>1, RunFacts
    <3>. QED BY <1>1, <2>1, <3>3, <3>9, <3>10, OneRunMoves
  <2>6. CASE ~\E v \in VersionsOf(run.job) : v.number = run.replay
    <3>1. is = [script |-> row.script, kind |-> row.kind]
      BY <2>6 DEF Chosen
    <3>2. is \in Version /\ is.script = row.script
      BY <2>2, <3>1 DEF Row, Version
    <3> HIDE DEF is
    <3>3. /\ m \in Run /\ m.at = "open" /\ m.job = run.job /\ m.pre = run.pre
          /\ m.recorded = run.recorded /\ m.replay = run.replay /\ m.row = row
          /\ m.head = head /\ m.is = is /\ m.ran = run.ran
          /\ m.crossed = run.crossed
      BY <1>1, <2>2, <3>2 DEF Run
    <3> HIDE DEF m
    <3>4. runs'[r] = m
      BY <2>1, RunFacts
    <3>5. Placed(r)'
      BY <1>1, <1>2, <1>3, <3>2, <3>3, <3>4, RunFacts DEF Placed
    <3>6. Recorded(r)'
      BY <1>3, <3>3, <3>4, RunFacts DEF Recorded, Exists, Numbers, VersionsOf
    <3>7. HeldRow(r)'
      BY <1>3, <2>4, <3>3, <3>4 DEF HeldRow, Exists, VersionsOf
    <3>8. SavedRun(r)'
      <4>1. (Exists(run.job) /\ run.job \notin rewound) =>
               \E v \in VersionsOf(run.job) :
                  /\ v.is.script = is.script
                  /\ v.number \in run.recorded..head \union {run.replay}
        BY <2>2, <2>3, <2>4, <3>2
      <4>. QED
        BY <1>3, <3>3, <3>4, <4>1 DEF SavedRun, Exists, VersionsOf
    <3>9. ~(run.replay # 0 /\ Exists(run.job))
      BY <2>3, <2>6 DEF Numbers
    <3>10. Exact(r)' /\ InFile(r)'
      BY <1>2, <1>3, <3>3, <3>4, <3>9 DEF Exact, InFile, Exists
    <3>11. RunOK(r)'
      BY <3>5, <3>6, <3>7, <3>8, <3>10 DEF RunOK
    <3>12. started' \in 0..MaxRuns
      BY <1>1, RunFacts
    <3>. QED BY <1>1, <2>1, <3>3, <3>11, <3>12, OneRunMoves
  <2>. QED BY <2>5, <2>6
<1>. QED BY <1>4, <1>5 DEF ReadScript

\* From its script to its end a run changes where it is, what the interpreter
\* read, and whether another has crossed it.
LEMMA RunKeepsItsScript ==
    ASSUME ScriptInv, NEW q \in RunIds, UNCHANGED requestVars,
           runs'[q].job = runs[q].job, runs'[q].pre = runs[q].pre,
           runs'[q].recorded = runs[q].recorded,
           runs'[q].replay = runs[q].replay, runs'[q].row = runs[q].row,
           runs'[q].head = runs[q].head, runs'[q].is = runs[q].is,
           \/ runs'[q].at = runs[q].at /\ runs'[q].ran = runs[q].ran
           \/ /\ runs[q].at \in {"open", "fill", "exec"}
              /\ runs'[q].at \in {"fill", "exec"} /\ runs'[q].ran = runs[q].ran
           \/ runs[q].at \in {"exec", "begun"} /\ runs'[q].at \in {"begun", "done"}
    PROVE  Placed(q)' /\ Recorded(q)' /\ HeldRow(q)' /\ SavedRun(q)' /\ Exact(q)'
<1>1. /\ jobs' = jobs /\ fresh' = fresh /\ versions' = versions
      /\ rewound' = rewound
  BY DEF requestVars
<1>2. Placed(q) /\ Recorded(q) /\ HeldRow(q) /\ SavedRun(q) /\ Exact(q)
  BY RunFacts
<1>3. Placed(q)'
  BY <1>1, <1>2 DEF Placed
<1>4. Recorded(q)' /\ HeldRow(q)' /\ SavedRun(q)'
  BY <1>1, <1>2 DEF Recorded, HeldRow, SavedRun, Exists, Numbers, VersionsOf
<1>5. Exact(q)'
  BY <1>1, <1>2 DEF Exact, Exists, VersionsOf
<1>. QED BY <1>3, <1>4, <1>5

\* One run writes its file: the runs it crosses know it, and the others have
\* another file.
LEMMA TouchStep ==
    ASSUME ScriptInv, NEW r \in RunIds, NEW place \in {"fill", "exec"},
           NEW content \in Contents,
           runs[r].at \in {"open", "fill"}, Touch(r, place),
           files' = [files EXCEPT ![FileOf(runs[r])] = content],
           place = "fill" => content = Empty,
           place = "exec" /\ ~runs[r].crossed => content = runs[r].is.script
    PROVE  ScriptInv'
<1>1. /\ runs \in [RunIds -> Run] /\ files \in [Jobs \X Kinds -> Contents]
      /\ started \in 0..MaxRuns /\ UNCHANGED <<requestVars, started>>
  BY DEF ScriptInv, ScriptsTypeOK, Touch
<1>2. IInv'
  BY <1>1, NextKeeps DEF ScriptInv
<1>3. /\ runs' \in [RunIds -> Run]
      /\ runs'[r] = [runs[r] EXCEPT !.at = place]
      /\ \A q \in RunIds \ {r} :
            runs'[q] = IF q \in Crossing(r) THEN [runs[q] EXCEPT !.crossed = TRUE]
                       ELSE runs[q]
  <2>1. /\ runs' \in [RunIds -> {runs'[q] : q \in RunIds}]
        /\ runs'[r] = [runs[r] EXCEPT !.at = place]
        /\ \A q \in RunIds \ {r} :
            runs'[q] = IF q \in Crossing(r) THEN [runs[q] EXCEPT !.crossed = TRUE]
                       ELSE runs[q]
    BY DEF Touch
  <2>2. ASSUME NEW q \in RunIds PROVE runs'[q] \in Run
    <3>1. runs[q] \in Run
      BY <1>1
    <3>2. /\ [runs[q] EXCEPT !.at = place] \in Run
          /\ [runs[q] EXCEPT !.crossed = TRUE] \in Run
      BY <3>1 DEF Run
    <3>. QED BY <2>1, <3>1, <3>2
  <2>. QED BY <2>1, <2>2
<1>4. FileOf(runs[r]) \in Jobs \X Kinds
  BY RunFacts DEF Placed, FileOf, Version
<1>5. /\ files' \in [Jobs \X Kinds -> Contents]
      /\ files'[FileOf(runs[r])] = content
      /\ \A f \in Jobs \X Kinds : f # FileOf(runs[r]) => files'[f] = files[f]
  BY <1>1, <1>4
<1>6. RunOK(r)'
  <2>1. runs[r] \in Run
    BY <1>1
  <2>2. /\ runs'[r].at = place /\ runs'[r].job = runs[r].job
        /\ runs'[r].pre = runs[r].pre /\ runs'[r].recorded = runs[r].recorded
        /\ runs'[r].replay = runs[r].replay /\ runs'[r].row = runs[r].row
        /\ runs'[r].head = runs[r].head /\ runs'[r].is = runs[r].is
        /\ runs'[r].ran = runs[r].ran /\ runs'[r].crossed = runs[r].crossed
    BY <1>3, <2>1 DEF Run
  <2>3. Placed(r)' /\ Recorded(r)' /\ HeldRow(r)' /\ SavedRun(r)' /\ Exact(r)'
    BY <1>1, <2>2, RunKeepsItsScript
  <2>4. runs[r].ran = None
    BY RunFacts DEF Placed
  <2>5. InFile(r)'
    BY <1>5, <2>2, <2>4 DEF InFile, FileOf
  <2>. QED BY <2>3, <2>5 DEF RunOK
<1>7. ASSUME NEW q \in RunIds \ {r} PROVE RunOK(q)'
  <2>1. runs[q] \in Run
    BY <1>1
  <2>2. /\ runs'[q].at = runs[q].at /\ runs'[q].job = runs[q].job
        /\ runs'[q].pre = runs[q].pre /\ runs'[q].recorded = runs[q].recorded
        /\ runs'[q].replay = runs[q].replay /\ runs'[q].row = runs[q].row
        /\ runs'[q].head = runs[q].head /\ runs'[q].is = runs[q].is
        /\ runs'[q].ran = runs[q].ran
        /\ ~runs'[q].crossed => ~runs[q].crossed /\ q \notin Crossing(r)
    BY <1>3, <2>1 DEF Run
  <2>3. Placed(q)' /\ Recorded(q)' /\ HeldRow(q)' /\ SavedRun(q)' /\ Exact(q)'
    BY <1>1, <2>2, RunKeepsItsScript
  <2>4. runs[q].at \in {"fill", "exec", "begun"} => FileOf(runs[q]) \in Jobs \X Kinds
    BY RunFacts DEF Placed, FileOf, Version
  <2>5. (runs[q].at \in {"fill", "exec", "begun"} /\ ~runs'[q].crossed) =>
           files'[FileOf(runs[q])] = files[FileOf(runs[q])]
    BY <1>5, <2>2, <2>4 DEF Crossing
  <2>6. InFile(q)'
    BY <2>2, <2>5, RunFacts DEF InFile, FileOf
  <2>. QED BY <2>3, <2>6 DEF RunOK
<1>. QED BY <1>1, <1>2, <1>3, <1>5, <1>6, <1>7 DEF ScriptInv, ScriptsTypeOK

LEMMA OpenStep ==
    ASSUME ScriptInv, NEW r \in RunIds, OpenFile(r)
    PROVE  ScriptInv'
BY TouchStep DEF OpenFile, Contents

\* A run that no other has crossed finds its file as it left it, empty.
LEMMA FillStep ==
    ASSUME ScriptInv, NEW r \in RunIds, FillFile(r)
    PROVE  ScriptInv'
<1>1. runs[r].at = "fill" /\ Touch(r, "exec")
  BY DEF FillFile
<1>2. PICK content \in {runs[r].is.script} \union
                 (IF files[FileOf(runs[r])] \in {Empty, runs[r].is.script} THEN {}
                  ELSE {Garbled}) :
         files' = [files EXCEPT ![FileOf(runs[r])] = content]
  BY DEF FillFile
<1>3. runs[r].is.script \in Scripts
  BY <1>1, RunFacts DEF Placed, Version
<1>4. ~runs[r].crossed => files[FileOf(runs[r])] = Empty
  BY <1>1, RunFacts DEF InFile
<1>. QED BY <1>1, <1>2, <1>3, <1>4, TouchStep DEF Contents

\* An interpreter has read what it could of the file of its run.
LEMMA ReadsStep ==
    ASSUME ScriptInv, NEW r \in RunIds, NEW place \in {"begun", "done"},
           NEW script \in Contents,
           runs[r].at \in {"exec", "begun"}, UNCHANGED <<requestVars, started, files>>,
           runs' = [runs EXCEPT ![r].at = place, ![r].ran = script],
           ~runs[r].crossed => script = runs[r].is.script
    PROVE  ScriptInv'
<1> DEFINE run == runs[r]
           m == [run EXCEPT !.at = place, !.ran = script]
<1>1. run.at \in {"exec", "begun"} /\ run \in Run
  BY RunFacts
<1>2. runs' = [runs EXCEPT ![r] = m]
  BY DEF ScriptInv, ScriptsTypeOK
<1>3. /\ m \in Run /\ m.at = place /\ m.job = run.job /\ m.pre = run.pre
      /\ m.recorded = run.recorded /\ m.replay = run.replay
      /\ m.row = run.row /\ m.head = run.head /\ m.is = run.is
      /\ m.ran = script /\ m.crossed = run.crossed
  BY <1>1 DEF Run
<1> HIDE DEF m
<1>4. runs'[r] = m
  BY <1>2, RunFacts
<1>5. Placed(r)' /\ Recorded(r)' /\ HeldRow(r)' /\ SavedRun(r)' /\ Exact(r)'
  BY <1>1, <1>3, <1>4, RunKeepsItsScript
<1>6. InFile(r)'
  <2>1. ~run.crossed => files[FileOf(run)] = run.is.script
    BY <1>1, RunFacts DEF InFile
  <2>2. FileOf(m) = FileOf(run) /\ files' = files
    BY <1>3 DEF FileOf
  <2>. QED BY <1>3, <1>4, <2>1, <2>2 DEF InFile, FileOf
<1>7. RunOK(r)'
  BY <1>5, <1>6 DEF RunOK
<1>8. started' \in 0..MaxRuns
  BY RunFacts
<1>. QED BY <1>2, <1>3, <1>7, <1>8, OneRunMoves

LEMMA InterpretStep ==
    ASSUME ScriptInv, NEW r \in RunIds, Interpret(r)
    PROVE  ScriptInv'
<1> DEFINE run == runs[r]
           found == files[FileOf(run)]
           place == IF run.is.kind \in AtOnce THEN "done" ELSE "begun"
<1>1. /\ run.at = "exec" /\ UNCHANGED <<requestVars, started, files>>
      /\ runs' = [runs EXCEPT ![r].at = place, ![r].ran = found]
  BY DEF Interpret
<1>2. FileOf(run) \in Jobs \X Kinds
  BY <1>1, RunFacts DEF Placed, FileOf, Version
<1>3. found \in Contents /\ place \in {"begun", "done"}
  BY <1>2 DEF ScriptInv, ScriptsTypeOK
<1>4. ~run.crossed => found = run.is.script
  BY <1>1, RunFacts DEF InFile
<1> HIDE DEF found, place
<1>. QED BY <1>1, <1>3, <1>4, ReadsStep

\* What bash reads later is what it began with, in a file nobody has written.
LEMMA ReadOnStep ==
    ASSUME ScriptInv, NEW r \in RunIds, ReadOn(r)
    PROVE  ScriptInv'
<1> DEFINE run == runs[r]
<1>1. run.at = "begun" /\ UNCHANGED <<requestVars, started, files>>
  BY DEF ReadOn
<1>2. PICK script \in {run.ran} \union
                 (IF files[FileOf(run)] = run.ran THEN {} ELSE {Garbled}) :
         runs' = [runs EXCEPT ![r].at = "done", ![r].ran = script]
  BY DEF ReadOn
<1>3. run.ran \in Contents /\ script \in Contents
  BY <1>2, RunFacts DEF Run, Contents
<1>4. ~run.crossed => script = run.is.script
  <2>1. ~run.crossed => /\ files[FileOf(run)] = run.is.script
                        /\ run.ran = run.is.script
    BY <1>1, RunFacts DEF InFile
  <2>. QED BY <1>2, <2>1
<1>. QED BY <1>1, <1>2, <1>3, <1>4, ReadsStep

-----------------------------------------------------------------------------
(* Theorems *)

LEMMA ScriptNextKeeps == ScriptInv /\ [ScriptsNext]_scriptVars => ScriptInv'
<1> SUFFICES ASSUME ScriptInv, [ScriptsNext]_scriptVars PROVE ScriptInv'
  OBVIOUS
<1>1. CASE (RequestsNext /\ UNCHANGED runVars) \/ UNCHANGED scriptVars
  BY <1>1, RequestKeepsRuns DEF scriptVars
<1>2. CASE \E j \in Jobs : Fire(j) \/ Trigger(j)
  BY <1>2, FireStep, TriggerStep
<1>3. CASE \E r \in RunIds :
              \/ Replay(r) \/ Load(r) \/ CreateRow(r) \/ ReadScript(r)
              \/ OpenFile(r) \/ FillFile(r) \/ Interpret(r) \/ ReadOn(r)
  BY <1>3, ReplayStep, RunLoads, RowStep, ScriptStep, OpenStep, FillStep,
     InterpretStep, ReadOnStep
<1>. QED BY <1>1, <1>2, <1>3 DEF ScriptsNext

LEMMA ScriptInvHolds == ScriptsSpec => []ScriptInv
BY ScriptsInitHolds, ScriptNextKeeps, PTL DEF ScriptsSpec

\* The script a run executes is one its job had when the run read it, between
\* the version its row names and the newest (_execute_job, trigger_job_now and
\* job_service), through any interleaving of requests and runs.
THEOREM SavedVersionRuns == ScriptsSpec => []RunsASavedVersion
<1>1. ScriptInv => RunsASavedVersion
  BY DEF ScriptInv, RunOK, SavedRun, RunsASavedVersion
<1>. QED BY <1>1, ScriptInvHolds, PTL

\* The interpreter reads the script this run wrote, unless another run of the
\* job wrote the same file before it had read it all.
THEOREM OwnScriptRuns == ScriptsSpec => []RunsWhatItRead
<1>1. ScriptInv => RunsWhatItRead
  BY DEF ScriptInv, RunOK, InFile, RunsWhatItRead
<1>. QED BY <1>1, ScriptInvHolds, PTL

\* A replay executes exactly the version the old row names, with its interpreter.
THEOREM ReplayHolds == ScriptsSpec => []ReplayIsExact
<1>1. ASSUME ScriptInv PROVE ReplayIsExact
  <2> SUFFICES ASSUME NEW r \in RunIds, runs[r].replay # 0,
                      runs[r].ran # None, Exists(runs[r].job)
               PROVE  \E v \in VersionsOf(runs[r].job) :
                         /\ v.number = runs[r].recorded
                         /\ runs[r].is.kind = v.is.kind
                         /\ ~runs[r].crossed => runs[r].ran = v.is.script
    BY DEF ReplayIsExact
  <2>1. PICK v \in VersionsOf(runs[r].job) :
           v.number = runs[r].replay /\ v.is = runs[r].is
    BY <1>1, RunFacts DEF Exact
  <2>2. runs[r].replay = runs[r].recorded
    BY <1>1, RunFacts DEF Placed
  <2>3. ~runs[r].crossed => runs[r].ran = runs[r].is.script
    BY <1>1, RunFacts DEF InFile
  <2>. QED BY <2>1, <2>2, <2>3
<1>. QED BY <1>1, ScriptInvHolds, PTL

=============================================================================

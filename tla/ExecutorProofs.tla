--------------------------- MODULE ExecutorProofs ---------------------------
(***************************************************************************)
(* Theorems about Executor, for every set of workers, jobs and pids, every *)
(* dependency relation, every capacity and every choice of Env.            *)
(***************************************************************************)
EXTENDS Executor, FiniteSetTheorems, TLAPS

Orms == {"none", "fresh", "expired", "broken"}
Verdicts == {"none", "success", "failure", "cancelled", "timeout", "error"}

-----------------------------------------------------------------------------
(* Type correctness *)

\* An exception leaves the worker at a label of the body, with well-typed
\* locals.
LEMMA RaiseType ==
    ASSUME TypeOK, NEW w \in Workers, NEW o \in Orms, Raise(w, o)
    PROVE  /\ pc' \in [Workers -> Labels]
           /\ run' \in [Workers -> Run]
<1>1. pc' \in [Workers -> Labels]
  BY DEF TypeOK, Raise, Goto, Labels, Body
<1>2. run[w] \in Run
  BY DEF TypeOK
<1>3. [run[w] EXCEPT !.orm = o, !.verdict = "error"] \in Run
  BY <1>2 DEF Run, Orms
<1>4. run' \in [Workers -> Run]
  BY <1>3 DEF TypeOK, Raise
<1>5. QED
  BY <1>1, <1>4

LEMMA GotoType ==
    ASSUME TypeOK, NEW w \in Workers, NEW l \in Labels, Goto(w, l)
    PROVE  pc' \in [Workers -> Labels]
BY DEF TypeOK, Goto

\* Updates of a worker's locals.
LEMMA OrmType ==
    ASSUME TypeOK, NEW w \in Workers, NEW o \in Orms
    PROVE  [run EXCEPT ![w].orm = o] \in [Workers -> Run]
<1>1. run \in [Workers -> Run] /\ run[w] \in Run
  BY DEF TypeOK
<1>2. [run[w] EXCEPT !.orm = o] \in Run
  BY <1>1 DEF Run, Orms
<1>3. QED
  BY <1>1, <1>2

LEMMA VerdictType ==
    ASSUME TypeOK, NEW w \in Workers, NEW o \in Orms, NEW v \in Verdicts
    PROVE  [run EXCEPT ![w] = [@ EXCEPT !.orm = o, !.verdict = v]]
               \in [Workers -> Run]
<1>1. run \in [Workers -> Run] /\ run[w] \in Run
  BY DEF TypeOK
<1>2. [run[w] EXCEPT !.orm = o, !.verdict = v] \in Run
  BY <1>1 DEF Run, Orms, Verdicts
<1>3. QED
  BY <1>1, <1>2

LEMMA TodoType ==
    ASSUME TypeOK, NEW w \in Workers, NEW t \in SUBSET Jobs
    PROVE  [run EXCEPT ![w].todo = t] \in [Workers -> Run]
<1>1. run \in [Workers -> Run] /\ run[w] \in Run
  BY DEF TypeOK
<1>2. [run[w] EXCEPT !.todo = t] \in Run
  BY <1>1 DEF Run
<1>3. QED
  BY <1>1, <1>2

LEMMA JobType ==
    ASSUME TypeOK, NEW w \in Workers, NEW j \in Jobs, NEW b \in BOOLEAN
    PROVE  [run EXCEPT ![w] = [@ EXCEPT !.job = j, !.pre = b]]
               \in [Workers -> Run]
<1>1. run \in [Workers -> Run] /\ run[w] \in Run
  BY DEF TypeOK
<1>2. [run[w] EXCEPT !.job = j, !.pre = b] \in Run
  BY <1>1 DEF Run
<1>3. QED
  BY <1>1, <1>2

\* A fresh row in status running.
LEMMA CreateRowType ==
    ASSUME TypeOK, NEW w \in Workers, NEW j \in Jobs \union {None},
           CreateRow(w, j)
    PROVE  /\ rows' \in [Workers -> Row]
           /\ order' \in Seq(Workers)
<1>1. [job |-> j, status |-> "running", pid |-> None] \in Row
  BY DEF Row
<1>2. rows' \in [Workers -> Row]
  BY <1>1 DEF CreateRow, TypeOK
<1>3. order' \in Seq(Workers)
  BY DEF CreateRow, TypeOK
<1>4. QED
  BY <1>2, <1>3

LEMMA StartType ==
    ASSUME TypeOK, NEW w \in Workers, NEW j \in Jobs,
           CronFire(w, j) \/ TriggerNow(w, j) \/ TriggerFails(w, j)
    PROVE  TypeOK'
<1> USE DEF jobVars, viewVars
<1>1. CASE CronFire(w, j)
  BY <1>1, JobType DEF CronFire, Start, Goto, TypeOK, Labels, Before
<1>2. CASE TriggerNow(w, j)
  <2>1. rows' \in [Workers -> Row] /\ order' \in Seq(Workers)
    BY <1>2, CreateRowType DEF TriggerNow
  <2>2. QED
    BY <1>2, <2>1, JobType DEF TriggerNow, Start, Goto, TypeOK, Labels, Before
<1>3. CASE TriggerFails(w, j)
  <2>1. rows' \in [Workers -> Row] /\ order' \in Seq(Workers)
    BY <1>3, CreateRowType DEF TriggerFails
  <2>2. QED
    BY <1>3, <2>1 DEF TriggerFails, Goto, TypeOK, Labels, Ended
<1>4. QED
  BY <1>1, <1>2, <1>3

LEMMA LaunchType ==
    ASSUME TypeOK, NEW w \in Workers,
           \/ Acquire(w) \/ LoadJob(w) \/ CheckDeps(w) \/ OpenExecution(w)
           \/ Launch(w) \/ SpawnFails(w)
    PROVE  TypeOK'
<1> USE DEF jobVars, viewVars
<1>1. run[w].orm \in Orms /\ run[w].job \in Jobs \union {None}
  BY DEF TypeOK, Run, Orms
<1>2. CASE Acquire(w)
  BY <1>2 DEF Acquire, TypeOK, Goto, Labels, Body
<1>3. CASE LoadJob(w)
  BY <1>3 DEF LoadJob, TypeOK, Goto, Labels, Body
<1>4. CASE CheckDeps(w)
  BY <1>4 DEF CheckDeps, TypeOK, Goto, Labels, Body
<1>5. CASE OpenExecution(w)
  <2>1. CASE Deleted(w)
    BY <1>5, <2>1, RaiseType DEF OpenExecution, TypeOK, Orms
  <2>2. CASE ~Deleted(w)
    <3>1. rows' \in [Workers -> Row] /\ order' \in Seq(Workers)
      BY <1>1, <1>5, <2>2, CreateRowType DEF OpenExecution, TypeOK
    <3>2. run' \in [Workers -> Run]
      <4>1. "fresh" \in Orms
        BY DEF Orms
      <4>2. run' = [run EXCEPT ![w].orm = "fresh"]
        BY <1>5, <2>2 DEF OpenExecution
      <4>3. QED
        BY <4>1, <4>2, OrmType
    <3>3. QED
      BY <1>5, <2>2, <3>1, <3>2
      DEF OpenExecution, TypeOK, Goto, Labels, Body
  <2>3. QED BY <2>1, <2>2
<1>6. CASE Launch(w)
  <2>1. CASE ~run[w].pre /\ Deleted(w)
    BY <1>1, <1>6, <2>1, RaiseType DEF Launch, TypeOK
  <2>2. CASE ~(~run[w].pre /\ Deleted(w))
    <3>1. PICK p \in FreePids :
              procs' = [procs EXCEPT ![w] =
                            [state |-> "alive", code |-> "none",
                             out |-> TRUE, pid |-> p, term |-> FALSE]]
      BY <1>6, <2>2 DEF Launch
    <3>2. [state |-> "alive", code |-> "none", out |-> TRUE, pid |-> p,
           term |-> FALSE] \in Proc
      BY DEF Proc, FreePids
    <3>3. procs' \in [Workers -> Proc]
      BY <3>1, <3>2 DEF TypeOK
    <3>4. QED
      BY <1>6, <2>2, <3>3 DEF Launch, TypeOK, Goto, Labels, Body
  <2>3. QED BY <2>1, <2>2
<1>7. CASE SpawnFails(w)
  BY <1>1, <1>7, RaiseType DEF SpawnFails, TypeOK
<1>8. QED
  BY <1>2, <1>3, <1>4, <1>5, <1>6, <1>7

LEMMA ProcessType ==
    ASSUME TypeOK, NEW w \in Workers,
           \/ Track(w) \/ StorePid(w) \/ CommitPid(w) \/ ReadLine(w)
           \/ ReadError(w) \/ EndOfOutput(w) \/ Reap(w) \/ Timeout(w)
           \/ Untrack(w)
    PROVE  TypeOK'
<1> USE DEF jobVars, viewVars
<1>1. run[w].orm \in Orms /\ procs[w] \in Proc /\ rows[w] \in Row
  BY DEF TypeOK, Run, Orms
<1>2. CASE Track(w)
  BY <1>2 DEF Track, TypeOK, Goto, Labels, Body
<1>3. CASE StorePid(w)
  BY <1>3 DEF StorePid, TypeOK, Goto, Labels, Body
<1>4. CASE CommitPid(w)
  <2>1. CASE RowGone(w)
    BY <1>4, <2>1, RaiseType DEF CommitPid, TypeOK, Orms
  <2>2. CASE ~RowGone(w)
    <3>1. [rows[w] EXCEPT !.pid = procs[w].pid] \in Row
      BY <1>1 DEF Row, Proc
    <3>2. rows' \in [Workers -> Row]
      BY <1>4, <2>2, <3>1 DEF CommitPid, TypeOK
    <3>3. run' \in [Workers -> Run]
      <4>1. "expired" \in Orms
        BY DEF Orms
      <4>2. run' = [run EXCEPT ![w].orm = "expired"]
        BY <1>4, <2>2 DEF CommitPid
      <4>3. QED
        BY <4>1, <4>2, OrmType
    <3>4. QED
      BY <1>4, <2>2, <3>2, <3>3 DEF CommitPid, TypeOK, Goto, Labels, Body
  <2>3. QED BY <2>1, <2>2
<1>5. CASE ReadLine(w)
  <2>1. "fresh" \in Orms
    BY DEF Orms
  <2>2. [run EXCEPT ![w].orm = "fresh"] \in [Workers -> Run]
    BY <2>1, OrmType
  <2>3. QED
    BY <1>5, <2>2 DEF ReadLine, TypeOK, Goto, Labels, Body
<1>6. CASE ReadError(w)
  BY <1>6 DEF ReadError, TypeOK, Goto, Labels, Body
<1>7. CASE EndOfOutput(w)
  BY <1>7 DEF EndOfOutput, TypeOK, Goto, Labels, Body
<1>8. CASE Reap(w)
  <2>1. [procs[w] EXCEPT !.state = "reaped"] \in Proc
    BY <1>1 DEF Proc
  <2>2. procs' \in [Workers -> Proc]
    BY <1>8, <2>1 DEF Reap, TypeOK
  <2>3. QED
    BY <1>8, <2>2 DEF Reap, TypeOK, Goto, Labels, Body
<1>9. CASE Timeout(w)
  <2>1. [procs[w] EXCEPT !.state = "reaped", !.code = "sigkill"] \in Proc
    BY <1>1 DEF Proc
  <2>2. procs' \in [Workers -> Proc]
    BY <1>9, <2>1 DEF Timeout, TypeOK
  <2> DEFINE timedOut == [run EXCEPT ![w] = [@ EXCEPT !.orm = "fresh",
                                                 !.verdict = "timeout"]]
  <2>3. CASE Goto(w, "select") /\ run' = timedOut
    <3>1. run' \in [Workers -> Run]
      <4>1. "fresh" \in Orms /\ "timeout" \in Verdicts
        BY DEF Orms, Verdicts
      <4>2. QED
        BY <2>3, <4>1, VerdictType
    <3>2. QED
      BY <1>9, <2>2, <2>3, <3>1 DEF Timeout, TypeOK, Goto, Labels, Body
  <2>4. CASE Raise(w, run[w].orm)
    BY <1>1, <1>9, <2>2, <2>4, RaiseType DEF Timeout, TypeOK
  <2>5. QED BY <1>9, <2>3, <2>4 DEF Timeout
<1>10. CASE Untrack(w)
  <2> DEFINE judged == [run EXCEPT ![w] =
                           [@ EXCEPT !.orm = "fresh",
                                     !.verdict = VerdictOf(procs[w].code)]]
  <2>1. CASE Goto(w, "select") /\ run' = judged /\ table' = table \ {w}
    <3>1. VerdictOf(procs[w].code) \in Verdicts
      BY DEF VerdictOf, Verdicts
    <3>2. run' \in [Workers -> Run]
      <4>1. "fresh" \in Orms
        BY DEF Orms
      <4>2. QED
        BY <2>1, <3>1, <4>1, VerdictType
    <3>3. QED
      BY <1>10, <2>1, <3>2 DEF Untrack, TypeOK, Goto, Labels, Body
  <2>2. CASE Raise(w, run[w].orm) /\ UNCHANGED table
    BY <1>1, <1>10, <2>2, RaiseType DEF Untrack, TypeOK
  <2>3. QED BY <1>10, <2>1, <2>2 DEF Untrack
<1>11. QED
  BY <1>2, <1>3, <1>4, <1>5, <1>6, <1>7, <1>8, <1>9, <1>10

LEMMA StatusType == \A v : Status(v) \in Terminal
BY DEF Status, Terminal

LEMMA CompletionType ==
    ASSUME TypeOK, NEW w \in Workers,
           \/ SelectRow(w) \/ CommitRow(w) \/ RefreshRow(w) \/ Notify(w)
           \/ Close(w) \/ Finally(w)
    PROVE  TypeOK'
<1> USE DEF jobVars, viewVars
<1>1. /\ run[w].orm \in Orms /\ rows[w] \in Row
      /\ "broken" \in Orms /\ "expired" \in Orms /\ "fresh" \in Orms
  BY DEF TypeOK, Run, Orms
<1>2. CASE SelectRow(w)
  <2>1. CASE RowGone(w) \/ run[w].orm = "broken"
    BY <1>1, <1>2, <2>1, RaiseType DEF SelectRow, TypeOK
  <2>2. CASE ~(RowGone(w) \/ run[w].orm = "broken")
    BY <1>2, <2>2 DEF SelectRow, TypeOK, Goto, Labels, Body
  <2>3. QED BY <2>1, <2>2
<1>3. CASE CommitRow(w)
  <2>1. CASE RowGone(w)
    BY <1>1, <1>3, <2>1, RaiseType DEF CommitRow, TypeOK
  <2>2. CASE ~RowGone(w)
    <3>1. [rows[w] EXCEPT !.pid = None, !.status = Status(run[w].verdict)]
              \in Row
      BY <1>1, StatusType DEF Row
    <3>2. rows' \in [Workers -> Row]
      BY <1>3, <2>2, <3>1 DEF CommitRow, TypeOK
    <3>3. run' = [run EXCEPT ![w].orm = "expired"]
      BY <1>3, <2>2 DEF CommitRow
    <3>4. run' \in [Workers -> Run]
      BY <1>1, <3>3, OrmType
    <3>5. QED
      BY <1>3, <2>2, <3>2, <3>4 DEF CommitRow, TypeOK, Goto, Labels, Body
  <2>3. QED BY <2>1, <2>2
<1>4. CASE RefreshRow(w)
  <2>1. CASE RowGone(w)
    BY <1>1, <1>4, <2>1, RaiseType DEF RefreshRow, TypeOK
  <2>2. CASE ~RowGone(w)
    <3>1. run' = [run EXCEPT ![w].orm = "fresh"]
      BY <1>4, <2>2 DEF RefreshRow
    <3>2. run' \in [Workers -> Run]
      BY <1>1, <3>1, OrmType
    <3>3. QED
      BY <1>4, <2>2, <3>2 DEF RefreshRow, TypeOK, Goto, Labels, Body
  <2>3. QED BY <2>1, <2>2
<1>5. CASE Notify(w)
  <2>1. CASE Deleted(w)
    BY <1>1, <1>5, <2>1, RaiseType DEF Notify, TypeOK
  <2>2. CASE ~Deleted(w)
    <3>1. pc' \in [Workers -> Labels]
      BY <1>5, <2>2 DEF Notify, TypeOK, Goto, Labels, Body
    <3>2. sent' \in [Workers -> SUBSET Terminal]
      BY <1>5, <2>2, StatusType DEF Notify, TypeOK
    <3>3. QED
      BY <1>5, <2>2, <3>1, <3>2 DEF Notify, TypeOK
  <2>3. QED BY <2>1, <2>2
<1>6. CASE Close(w)
  <2>1. [run EXCEPT ![w].orm = "fresh"] \in [Workers -> Run]
    BY <1>1, OrmType
  <2>2. run' \in [Workers -> Run]
    BY <1>6, <2>1 DEF Close, TypeOK
  <2>3. QED
    BY <1>6, <2>2 DEF Close, TypeOK, Goto, Labels, Body
<1>7. CASE Finally(w)
  BY <1>7 DEF Finally, TypeOK, Goto, Labels, Ended, Body
<1>8. QED
  BY <1>2, <1>3, <1>4, <1>5, <1>6, <1>7

LEMMA DependentsType ==
    ASSUME TypeOK, NEW w \in Workers,
           \/ QueryDependents(w) \/ (\E j \in Jobs : Fanout(w, j))
           \/ ThreadFails(w) \/ DbError(w)
    PROVE  TypeOK'
<1> USE DEF jobVars, viewVars
<1>1. /\ run[w].orm \in Orms /\ run[w].todo \subseteq Jobs
      /\ "broken" \in Orms
  BY DEF TypeOK, Run, Orms
<1>2. CASE QueryDependents(w)
  <2> DEFINE named == {j \in Jobs : /\ jobs[j] = "active"
                                    /\ run[w].job \in DependsOn[j]}
  <2>1. /\ run' = [run EXCEPT ![w].todo = named]
        /\ Goto(w, IF named = {} THEN "close" ELSE "fanout")
    BY <1>2 DEF QueryDependents
  <2>2. named \in SUBSET Jobs
    OBVIOUS
  <2>3. run' \in [Workers -> Run]
    BY <2>1, <2>2, TodoType
  <2>4. pc' \in [Workers -> Labels]
    BY <2>1 DEF TypeOK, Goto, Labels, Body
  <2>5. QED
    BY <1>2, <2>3, <2>4 DEF QueryDependents, TypeOK
<1>3. ASSUME NEW j \in Jobs, Fanout(w, j)
      PROVE  TypeOK'
  <2> DEFINE left == run[w].todo \ {j}
             next == IF left = {} THEN "close" ELSE "fanout"
  <2>1. left \in SUBSET Jobs /\ next \in Labels
    BY <1>1 DEF Labels, Body
  <2>2. CASE DepsMet(j)
    <3>1. PICK v \in Workers :
              /\ pc[v] = "unused"
              /\ pc' = [pc EXCEPT ![v] = "waiting", ![w] = next]
              /\ run' = [run EXCEPT ![v].job = j, ![w].todo = left]
      BY <1>3, <2>2 DEF Fanout
    <3>2. pc' \in [Workers -> Labels]
      BY <2>1, <3>1 DEF TypeOK, Labels, Before
    <3>3. v # w
      BY <1>3, <3>1 DEF Fanout
    <3>4. /\ [run[v] EXCEPT !.job = j] \in Run
          /\ [run[w] EXCEPT !.todo = left] \in Run
      <4>1. run[v] \in Run /\ run[w] \in Run
        BY DEF TypeOK
      <4>2. [run[v] EXCEPT !.job = j] \in Run
        BY <4>1 DEF Run
      <4> HIDE DEF left
      <4>3. [run[w] EXCEPT !.todo = left] \in Run
        BY <2>1, <4>1 DEF Run
      <4>4. QED
        BY <4>2, <4>3
    <3>5. run' = [run EXCEPT ![v] = [run[v] EXCEPT !.job = j],
                             ![w] = [run[w] EXCEPT !.todo = left]]
      BY <3>1, <3>3 DEF TypeOK
    <3>6. run' \in [Workers -> Run]
      BY <3>4, <3>5 DEF TypeOK
    <3>7. QED
      BY <1>3, <3>2, <3>6 DEF Fanout, TypeOK
  <2>3. CASE ~DepsMet(j)
    <3>1. /\ run' = [run EXCEPT ![w].todo = left]
          /\ pc' = [pc EXCEPT ![w] = next]
      BY <1>3, <2>3 DEF Fanout, Goto
    <3>2. run' \in [Workers -> Run]
      BY <2>1, <3>1, TodoType
    <3>3. QED
      BY <1>3, <2>1, <3>1, <3>2 DEF Fanout, TypeOK
  <2>4. QED BY <2>2, <2>3
<1>4. CASE ThreadFails(w)
  BY <1>1, <1>4, RaiseType DEF ThreadFails, TypeOK
<1>5. CASE DbError(w)
  BY <1>1, <1>5, RaiseType DEF DbError, TypeOK
<1>6. QED
  BY <1>2, <1>3, <1>4, <1>5

LEMMA ApiType ==
    ASSUME TypeOK,
           \/ \E j \in Jobs : ToggleJob(j) \/ DeleteJob(j)
           \/ \E w \in Workers : CancelTracked(w) \/ CancelLookup(w)
           \/ CancelKill
    PROVE  TypeOK'
<1> USE DEF viewVars
<1>1. ASSUME NEW v \in Workers, Terminate(v)
      PROVE  procs' \in [Workers -> Proc]
  <2>1. [procs[v] EXCEPT !.term = TRUE] \in Proc
    BY DEF TypeOK, Proc
  <2>2. QED
    BY <1>1, <2>1 DEF Terminate, TypeOK
<1>2. ASSUME NEW j \in Jobs, ToggleJob(j)
      PROVE  TypeOK'
  BY <1>2 DEF ToggleJob, TypeOK
<1>3. ASSUME NEW j \in Jobs, DeleteJob(j)
      PROVE  TypeOK'
  <2>1. \A w \in Workers : [rows[w] EXCEPT !.status = "gone", !.pid = None]
                               \in Row
    BY DEF TypeOK, Row
  <2>2. rows' \in [Workers -> Row]
    BY <1>3, <2>1 DEF DeleteJob, TypeOK
  <2>3. QED
    BY <1>3, <2>2 DEF DeleteJob, TypeOK
<1>4. ASSUME NEW w \in Workers, CancelTracked(w)
      PROVE  TypeOK'
  BY <1>1, <1>4 DEF CancelTracked, TypeOK
<1>5. ASSUME NEW w \in Workers, CancelLookup(w)
      PROVE  TypeOK'
  BY <1>5 DEF CancelLookup, TypeOK, Row
<1>6. CASE CancelKill
  BY <1>1, <1>6 DEF CancelKill, TypeOK
<1>7. QED
  BY <1>2, <1>3, <1>4, <1>5, <1>6

LEMMA SystemType ==
    ASSUME TypeOK, System
    PROVE  TypeOK'
<1> USE DEF jobVars, viewVars
<1>1. ASSUME NEW w \in Workers, ProcExit(w)
      PROVE  TypeOK'
  <2>1. PICK code \in {"ok", "error", "sigterm"} :
            procs' = [procs EXCEPT ![w] =
                         [@ EXCEPT !.code = code,
                                   !.state = IF pc[w] = "dead" THEN "reaped"
                                                               ELSE "zombie"]]
    BY <1>1 DEF ProcExit
  <2>2. [procs[w] EXCEPT !.code = code,
                         !.state = IF pc[w] = "dead" THEN "reaped"
                                                     ELSE "zombie"] \in Proc
    BY DEF TypeOK, Proc
  <2>3. procs' \in [Workers -> Proc]
    BY <2>1, <2>2 DEF TypeOK
  <2>4. QED
    BY <1>1, <2>3 DEF ProcExit, TypeOK
<1>2. ASSUME NEW w \in Workers, CloseOut(w)
      PROVE  TypeOK'
  <2>1. [procs[w] EXCEPT !.out = FALSE] \in Proc
    BY DEF TypeOK, Proc
  <2>2. procs' \in [Workers -> Proc]
    BY <1>2, <2>1 DEF CloseOut, TypeOK
  <2>3. QED
    BY <1>2, <2>2 DEF CloseOut, TypeOK
<1>3. CASE Crash
  <2>1. \A w \in Workers : [procs[w] EXCEPT !.state = "reaped"] \in Proc
    BY DEF TypeOK, Proc
  <2>2. procs' \in [Workers -> Proc]
    BY <1>3, <2>1 DEF Crash, TypeOK
  <2>3. pc' \in [Workers -> Labels]
    BY <1>3 DEF Crash, TypeOK, Labels, Ended
  <2>4. crashes' \in 0..MaxCrashes /\ slots' \in Nat
    BY <1>3, ExecutorAssumption DEF Crash, TypeOK
  <2>5. QED
    BY <1>3, <2>2, <2>3, <2>4 DEF Crash, TypeOK
<1>4. QED
  BY <1>1, <1>2, <1>3 DEF System

LEMMA InitType == Init => TypeOK
<1> SUFFICES ASSUME Init PROVE TypeOK
  OBVIOUS
<1>1. /\ run \in [Workers -> Run]
      /\ rows \in [Workers -> Row]
      /\ procs \in [Workers -> Proc]
  BY DEF Init, Run, Row, Proc
<1>2. /\ pc \in [Workers -> Labels]
      /\ order \in Seq(Workers)
      /\ channel \in [Workers -> {"none", "open", "finished"}]
      /\ sent \in [Workers -> SUBSET Terminal]
  BY DEF Init, Labels, Ended
<1>3. slots \in Nat /\ crashes \in 0..MaxCrashes
  BY ExecutorAssumption DEF Init
<1>4. jobs \in [Jobs -> {"active", "inactive", "deleted"}]
  BY DEF Init
<1>5. QED
  BY <1>1, <1>2, <1>3, <1>4 DEF Init, TypeOK

LEMMA NextType == TypeOK /\ [Next]_vars => TypeOK'
<1> SUFFICES ASSUME TypeOK, [Next]_vars PROVE TypeOK'
  OBVIOUS
<1>1. ASSUME NEW w \in Workers, Thread(w) \/ Disturb(w)
      PROVE  TypeOK'
  BY <1>1, LaunchType, ProcessType, CompletionType, DependentsType
  DEF Thread, Disturb
<1>2. CASE Api
  BY <1>2, StartType, ApiType DEF Api
<1>3. CASE System
  BY <1>3, SystemType
<1>4. CASE UNCHANGED vars
  BY <1>4 DEF vars, TypeOK
<1>5. QED
  BY <1>1, <1>2, <1>3, <1>4 DEF Next

\* Every reachable state is well typed; in particular the semaphore never
\* goes below zero.
THEOREM TypeCorrect == Spec => []TypeOK
BY InitType, NextType, PTL DEF Spec

-----------------------------------------------------------------------------
(* Slots *)

\* What a step can do to the semaphore and to the set of its holders.
Keeps == slots' = slots /\ Holders' = Holders
Enters == \E w \in Workers \ Holders :
              slots > 0 /\ slots' = slots - 1 /\ Holders' = Holders \union {w}
Leaves == \E w \in Holders : slots' = slots + 1 /\ Holders' = Holders \ {w}
Restarts == slots' = MaxConcurrent /\ Holders' = {}

LEMMA SameHolders ==
    ASSUME \A u \in Workers : pc'[u] \in Body \union {"leaked"}
                                  <=> pc[u] \in Body \union {"leaked"}
    PROVE  Holders' = Holders
BY DEF Holders

\* An exception in the body of a run stays in the body.
LEMMA RaiseStays ==
    ASSUME TypeOK, NEW w \in Workers, NEW o, pc[w] \in Body, Raise(w, o)
    PROVE  Holders' = Holders
<1>1. pc' \in [Workers -> Labels] /\ pc'[w] \in Body
  BY DEF TypeOK, Raise, Goto, Labels, Body
<1>2. \A u \in Workers \ {w} : pc'[u] = pc[u]
  BY DEF TypeOK, Raise, Goto
<1>3. QED
  BY <1>1, <1>2, SameHolders

\* A step from one label of the body to another.
LEMMA GotoStays ==
    ASSUME TypeOK, NEW w \in Workers, NEW l \in Body \union {"leaked"},
           pc[w] \in Body, Goto(w, l)
    PROVE  Holders' = Holders
BY SameHolders DEF TypeOK, Goto

LEMMA ThreadSlots ==
    ASSUME TypeOK, NEW w \in Workers, Thread(w) \/ Disturb(w)
    PROVE  Keeps \/ Enters \/ Leaves
<1>1. CASE Acquire(w)
  <2>1. w \in Workers \ Holders
    BY <1>1 DEF Acquire, Holders, Body
  <2>2. Holders' = Holders \union {w}
    BY <1>1 DEF Acquire, Goto, Holders, TypeOK, Body
  <2>3. QED
    BY <1>1, <2>1, <2>2 DEF Acquire, Enters
<1>2. CASE Finally(w)
  <2>1. CASE slots' = slots + 1 /\ Goto(w, "done")
    <3>1. w \in Holders
      BY <1>2 DEF Finally, Holders, Body
    <3>2. Holders' = Holders \ {w}
      BY <2>1 DEF Goto, Holders, TypeOK, Body
    <3>3. QED
      BY <2>1, <3>1, <3>2 DEF Leaves
  <2>2. CASE slots' = slots /\ Goto(w, "leaked")
    BY <1>2, <2>2, GotoStays DEF Finally, Keeps, Body
  <2>3. QED BY <1>2, <2>1, <2>2 DEF Finally
<1>3. CASE LoadJob(w) \/ CheckDeps(w) \/ Track(w) \/ StorePid(w)
           \/ ReadError(w) \/ EndOfOutput(w) \/ Reap(w)
  BY <1>3, GotoStays
  DEF LoadJob, CheckDeps, Track, StorePid, ReadError, EndOfOutput, Reap,
      Keeps, Body
<1>4. CASE OpenExecution(w) \/ Launch(w) \/ CommitPid(w)
  BY <1>4, GotoStays, RaiseStays
  DEF OpenExecution, Launch, CommitPid, Keeps, Body
<1>5. CASE ReadLine(w)
  BY <1>5, GotoStays DEF ReadLine, Keeps, Body, Holders
<1>6. CASE Timeout(w) \/ Untrack(w) \/ SelectRow(w)
  BY <1>6, GotoStays, RaiseStays DEF Timeout, Untrack, SelectRow, Keeps, Body
<1>7. CASE CommitRow(w) \/ RefreshRow(w) \/ Close(w)
  BY <1>7, GotoStays, RaiseStays DEF CommitRow, RefreshRow, Close, Keeps, Body
<1>8. CASE Notify(w)
  <2>1. CASE Deleted(w)
    BY <1>8, <2>1, RaiseStays DEF Notify, Keeps, Body
  <2>2. CASE ~Deleted(w)
    <3>1. PICK l \in {"dependents", "finally", "close"} : Goto(w, l)
      BY <1>8, <2>2 DEF Notify
    <3>2. QED
      BY <1>8, <3>1, GotoStays DEF Notify, Keeps, Body
  <2>3. QED BY <2>1, <2>2
<1>9. CASE QueryDependents(w)
  <2>1. PICK l \in {"close", "fanout"} : Goto(w, l)
    BY <1>9 DEF QueryDependents
  <2>2. QED
    BY <1>9, <2>1, GotoStays DEF QueryDependents, Keeps, Body
<1>10. ASSUME NEW j \in Jobs, Fanout(w, j)
       PROVE  Keeps
  <2>1. PICK l \in {"close", "fanout"} :
            \/ Goto(w, l)
            \/ \E v \in Workers :
                   pc[v] = "unused"
                   /\ pc' = [pc EXCEPT ![v] = "waiting", ![w] = l]
    BY <1>10 DEF Fanout
  <2>2. pc[w] = "fanout" /\ slots' = slots
    BY <1>10 DEF Fanout
  <2>3. \A u \in Workers : pc'[u] \in Body \union {"leaked"}
                               <=> pc[u] \in Body \union {"leaked"}
    BY <2>1, <2>2 DEF TypeOK, Goto, Body
  <2>4. QED
    BY <2>2, <2>3, SameHolders DEF Keeps
<1>11. CASE SpawnFails(w) \/ ThreadFails(w) \/ DbError(w)
  BY <1>11, RaiseStays DEF SpawnFails, ThreadFails, DbError, Keeps, Body
<1>12. QED
  BY <1>1, <1>2, <1>3, <1>4, <1>5, <1>6, <1>7, <1>8, <1>9, <1>10, <1>11
  DEF Thread, Disturb

LEMMA StepSlots ==
    ASSUME TypeOK, [Next]_vars
    PROVE  Keeps \/ Enters \/ Leaves \/ Restarts
<1>1. ASSUME NEW w \in Workers, Thread(w) \/ Disturb(w)
      PROVE  Keeps \/ Enters \/ Leaves
  BY <1>1, ThreadSlots
<1>2. ASSUME NEW w \in Workers, NEW j \in Jobs,
             CronFire(w, j) \/ TriggerNow(w, j) \/ TriggerFails(w, j)
      PROVE  Keeps
  <2>1. PICK l \in {"waiting", "dead"} :
            /\ pc[w] = "unused"
            /\ pc' = [pc EXCEPT ![w] = l]
            /\ slots' = slots
    BY <1>2 DEF CronFire, TriggerNow, TriggerFails, Start, Goto
  <2>2. Holders' = Holders
    BY <2>1, SameHolders DEF TypeOK, Body
  <2>3. QED
    BY <2>1, <2>2 DEF Keeps
<1>3. ASSUME NEW j \in Jobs, ToggleJob(j) \/ DeleteJob(j)
      PROVE  Keeps
  BY <1>3 DEF ToggleJob, DeleteJob, Keeps, Holders
<1>4. ASSUME NEW w \in Workers, CancelTracked(w) \/ CancelLookup(w)
      PROVE  Keeps
  BY <1>4 DEF CancelTracked, CancelLookup, Keeps, Holders
<1>5. CASE CancelKill
  BY <1>5 DEF CancelKill, Keeps, Holders
<1>6. ASSUME NEW w \in Workers, ProcExit(w) \/ CloseOut(w)
      PROVE  Keeps
  BY <1>6 DEF ProcExit, CloseOut, Keeps, Holders
<1>7. CASE Crash
  <2>1. \A w \in Workers : pc'[w] \notin Body \union {"leaked"}
    BY <1>7 DEF Crash, Body
  <2>2. QED
    BY <1>7, <2>1 DEF Crash, Restarts, Holders
<1>8. CASE UNCHANGED vars
  BY <1>8 DEF vars, Keeps, Holders
<1>9. QED
  BY <1>1, <1>2, <1>3, <1>4, <1>5, <1>6, <1>7, <1>8 DEF Next, Api, System

\* The set of holders is finite and fills what is missing in the semaphore.
PoolInv == IsFiniteSet(Holders) /\ SlotsAccounted

LEMMA PoolInvInit == Init => PoolInv
<1> SUFFICES ASSUME Init PROVE PoolInv
  OBVIOUS
<1>1. Holders = {}
  BY DEF Init, Holders, Body
<1>2. QED
  BY <1>1, FS_EmptySet, ExecutorAssumption DEF Init, PoolInv, SlotsAccounted

LEMMA PoolInvNext == TypeOK /\ TypeOK' /\ PoolInv /\ [Next]_vars => PoolInv'
<1> SUFFICES ASSUME TypeOK, TypeOK', PoolInv, [Next]_vars PROVE PoolInv'
  OBVIOUS
<1>1. Cardinality(Holders) \in Nat
  BY FS_CardinalityType DEF PoolInv
<1>2. slots \in Nat /\ MaxConcurrent \in Nat
  BY ExecutorAssumption DEF TypeOK
<1>3. CASE Keeps
  BY <1>3 DEF Keeps, PoolInv, SlotsAccounted
<1>4. CASE Enters
  <2>1. PICK w \in Workers \ Holders :
            slots' = slots - 1 /\ Holders' = Holders \union {w}
    BY <1>4 DEF Enters
  <2>2. /\ IsFiniteSet(Holders')
        /\ Cardinality(Holders') = Cardinality(Holders) + 1
    BY <2>1, FS_AddElement DEF PoolInv
  <2>3. QED
    BY <1>1, <1>2, <2>1, <2>2 DEF PoolInv, SlotsAccounted
<1>5. CASE Leaves
  <2>1. PICK w \in Holders : slots' = slots + 1 /\ Holders' = Holders \ {w}
    BY <1>5 DEF Leaves
  <2>2. /\ IsFiniteSet(Holders')
        /\ Cardinality(Holders') = Cardinality(Holders) - 1
    BY <2>1, FS_RemoveElement DEF PoolInv
  <2>3. QED
    BY <1>1, <1>2, <2>1, <2>2 DEF PoolInv, SlotsAccounted
<1>6. CASE Restarts
  BY <1>2, <1>6, FS_EmptySet DEF Restarts, PoolInv, SlotsAccounted
<1>7. QED
  BY <1>3, <1>4, <1>5, <1>6, StepSlots

\* No path through _execute_job gives back a slot twice or takes one unseen.
THEOREM SlotAccounting == Spec => []SlotsAccounted
<1>1. Init => TypeOK /\ PoolInv
  BY InitType, PoolInvInit
<1>2. (TypeOK /\ PoolInv) /\ [Next]_vars => (TypeOK /\ PoolInv)'
  BY NextType, PoolInvNext
<1>3. PoolInv => SlotsAccounted
  BY DEF PoolInv
<1>4. QED
  BY <1>1, <1>2, <1>3, PTL DEF Spec

\* The engine implements the abstract pool of slots.
THEOREM PoolRefinement == Spec => PoolImplemented
<1>1. Init => Pool!Init
  BY DEF Init, Pool!Init, Holders, Body
<1>2. TypeOK /\ PoolInv /\ [Next]_vars => [Pool!Next]_Holders
  <2> SUFFICES ASSUME TypeOK, PoolInv, [Next]_vars
               PROVE  [Pool!Next]_Holders
    OBVIOUS
  <2>1. CASE Keeps
    BY <2>1 DEF Keeps
  <2>2. CASE Enters
    <3>1. PICK w \in Workers \ Holders :
              slots > 0 /\ Holders' = Holders \union {w}
      BY <2>2 DEF Enters
    <3>2. Cardinality(Holders) < MaxConcurrent
      BY <3>1, FS_CardinalityType, ExecutorAssumption
      DEF PoolInv, SlotsAccounted, TypeOK
    <3>3. Pool!Cardinality(Holders) = Cardinality(Holders)
      BY DEF Pool!Cardinality, Cardinality
    <3>4. QED
      BY <3>1, <3>2, <3>3 DEF Pool!Next, Pool!Enter
  <2>3. CASE Leaves
    <3>1. PICK w \in Holders : Holders' = Holders \ {w}
      BY <2>3 DEF Leaves
    <3>2. w \in Workers
      BY DEF Holders
    <3>3. QED
      BY <3>1, <3>2 DEF Pool!Next, Pool!Leave
  <2>4. CASE Restarts
    BY <2>4 DEF Restarts, Pool!Next, Pool!Die
  <2>5. QED
    BY <2>1, <2>2, <2>3, <2>4, StepSlots
<1>3. Init => TypeOK /\ PoolInv
  BY InitType, PoolInvInit
<1>4. (TypeOK /\ PoolInv) /\ [Next]_vars => (TypeOK /\ PoolInv)'
  BY NextType, PoolInvNext
<1>5. QED
  BY <1>1, <1>2, <1>3, <1>4, PTL DEF Spec, PoolImplemented, Pool!Spec

-----------------------------------------------------------------------------
(* The cancel table *)

\* A step of one worker leaves alone what the others have.
Frame(w) ==
    \A u \in Workers \ {w} : /\ pc'[u] = pc[u]
                             /\ run'[u] = run[u]
                             /\ procs'[u] = procs[u]
                             /\ u \in table' <=> u \in table

LEMMA RaiseFrame ==
    ASSUME TypeOK, NEW w \in Workers, NEW o, Raise(w, o)
    PROVE  /\ \A u \in Workers \ {w} : pc'[u] = pc[u] /\ run'[u] = run[u]
           /\ pc'[w] \in {"finally", "close", "select"}
           /\ run'[w].orm = o /\ run'[w].verdict = "error"
<1>1. \A u \in Workers \ {w} : pc'[u] = pc[u] /\ run'[u] = run[u]
  BY DEF TypeOK, Raise, Goto
<1>2. pc'[w] \in {"finally", "close", "select"}
  BY DEF TypeOK, Raise, Goto
<1>3. run'[w] = [run[w] EXCEPT !.orm = o, !.verdict = "error"]
  BY DEF TypeOK, Raise
<1>4. run[w] \in Run
  BY DEF TypeOK
<1>5. run'[w].orm = o /\ run'[w].verdict = "error"
  BY <1>3, <1>4 DEF Run
<1>6. QED
  BY <1>1, <1>2, <1>5

LEMMA ThreadFrame ==
    ASSUME TypeOK, NEW w \in Workers, Thread(w) \/ Disturb(w),
           ~ \E j \in Jobs : Fanout(w, j)
    PROVE  Frame(w)
<1> USE DEF Frame, Goto
<1>1. CASE Acquire(w) \/ LoadJob(w) \/ CheckDeps(w) \/ Track(w) \/ StorePid(w)
           \/ EndOfOutput(w) \/ ReadError(w) \/ ReadLine(w)
  BY <1>1
  DEF TypeOK, Acquire, LoadJob, CheckDeps, Track, StorePid, EndOfOutput,
      ReadError, ReadLine
<1>2. CASE OpenExecution(w) \/ Launch(w) \/ CommitPid(w) \/ SpawnFails(w)
  BY <1>2, RaiseFrame
  DEF TypeOK, OpenExecution, Launch, CommitPid, SpawnFails
<1>3. CASE Reap(w) \/ Timeout(w) \/ Untrack(w)
  BY <1>3, RaiseFrame DEF TypeOK, Reap, Timeout, Untrack
<1>4. CASE SelectRow(w) \/ CommitRow(w) \/ RefreshRow(w)
  BY <1>4, RaiseFrame DEF TypeOK, SelectRow, CommitRow, RefreshRow
<1>5. CASE Notify(w)
  BY <1>5, RaiseFrame DEF TypeOK, Notify
<1>6. CASE QueryDependents(w) \/ Close(w) \/ Finally(w)
  BY <1>6 DEF TypeOK, QueryDependents, Close, Finally
<1>7. CASE ThreadFails(w) \/ DbError(w)
  BY <1>7, RaiseFrame DEF TypeOK, ThreadFails, DbError
<1>8. QED
  BY <1>1, <1>2, <1>3, <1>4, <1>5, <1>6, <1>7 DEF Thread, Disturb

\* What a dependent's start leaves alone: the new worker moves from "unused"
\* to "waiting" and the starter stays in its body.
LEMMA FanoutFrame ==
    ASSUME TypeOK, NEW w \in Workers, NEW j \in Jobs, Fanout(w, j)
    PROVE  /\ procs' = procs /\ table' = table
           /\ pc[w] = "fanout" /\ pc'[w] \in {"fanout", "close"}
           /\ \A u \in Workers \ {w} :
                  \/ pc'[u] = pc[u] /\ run'[u] = run[u]
                  \/ pc[u] = "unused" /\ pc'[u] = "waiting"
<1> DEFINE left == run[w].todo \ {j}
           next == IF left = {} THEN "close" ELSE "fanout"
<1>1. pc[w] = "fanout" /\ procs' = procs /\ table' = table
  BY DEF Fanout
<1>2. CASE DepsMet(j)
  <2>1. PICK v \in Workers :
            /\ pc[v] = "unused"
            /\ pc' = [pc EXCEPT ![v] = "waiting", ![w] = next]
            /\ run' = [run EXCEPT ![v].job = j, ![w].todo = left]
    BY <1>2 DEF Fanout
  <2>2. QED
    BY <1>1, <2>1 DEF TypeOK
<1>3. CASE ~DepsMet(j)
  <2>1. /\ pc' = [pc EXCEPT ![w] = next]
        /\ run' = [run EXCEPT ![w].todo = left]
    BY <1>3 DEF Fanout, Goto
  <2>2. QED
    BY <1>1, <2>1 DEF TypeOK
<1>4. QED BY <1>2, <1>3

\* The inductive form: entries are made at "track" and stay through "untrack".
TableAt(w) ==
    /\ w \in table => pc[w] \in Body \union {"leaked"}
    /\ pc[w] \in {"setpid", "pidcommit", "reading", "wait", "untrack"}
           => w \in table
TableInv == \A w \in Workers : TableAt(w)

LEMMA ThreadTable ==
    ASSUME TypeOK, TableInv, NEW w \in Workers, Thread(w) \/ Disturb(w),
           ~ \E j \in Jobs : Fanout(w, j)
    PROVE  TableAt(w)'
<1> USE DEF TableInv, TableAt, Goto, Body
<1>1. CASE Acquire(w) \/ LoadJob(w) \/ CheckDeps(w) \/ Track(w) \/ StorePid(w)
           \/ EndOfOutput(w) \/ ReadError(w) \/ ReadLine(w)
  BY <1>1
  DEF TypeOK, Acquire, LoadJob, CheckDeps, Track, StorePid, EndOfOutput,
      ReadError, ReadLine
<1>2. CASE OpenExecution(w) \/ Launch(w) \/ CommitPid(w) \/ SpawnFails(w)
  BY <1>2, RaiseFrame
  DEF TypeOK, OpenExecution, Launch, CommitPid, SpawnFails
<1>3. CASE Reap(w) \/ Timeout(w) \/ Untrack(w)
  BY <1>3, RaiseFrame DEF TypeOK, Reap, Timeout, Untrack
<1>4. CASE SelectRow(w) \/ CommitRow(w) \/ RefreshRow(w)
  BY <1>4, RaiseFrame DEF TypeOK, SelectRow, CommitRow, RefreshRow
<1>5. CASE Notify(w)
  <2>1. pc'[w] \in {"finally", "close", "select", "dependents"}
    BY <1>5, RaiseFrame DEF TypeOK, Notify
  <2>2. QED
    BY <1>5, <2>1 DEF Notify
<1>6. CASE QueryDependents(w) \/ Close(w) \/ Finally(w)
  BY <1>6 DEF TypeOK, QueryDependents, Close, Finally
<1>7. CASE ThreadFails(w) \/ DbError(w)
  BY <1>7, RaiseFrame DEF TypeOK, ThreadFails, DbError
<1>8. QED
  BY <1>1, <1>2, <1>3, <1>4, <1>5, <1>6, <1>7 DEF Thread, Disturb

LEMMA TableInvNext == TypeOK /\ TableInv /\ [Next]_vars => TableInv'
<1> SUFFICES ASSUME TypeOK, TableInv, [Next]_vars, NEW u \in Workers
             PROVE  TableAt(u)'
  BY DEF TableInv
<1> USE DEF TableInv, TableAt
<1>1. ASSUME NEW w \in Workers, Thread(w) \/ Disturb(w),
             ~ \E j \in Jobs : Fanout(w, j)
      PROVE  TableAt(u)'
  <2>1. CASE u = w
    BY <1>1, <2>1, ThreadTable
  <2>2. CASE u # w
    BY <1>1, <2>2, ThreadFrame DEF Frame
  <2>3. QED BY <2>1, <2>2
<1>2. ASSUME NEW w \in Workers, NEW j \in Jobs, Fanout(w, j)
      PROVE  TableAt(u)'
  BY <1>2, FanoutFrame DEF Body
<1>3. ASSUME NEW w \in Workers, NEW j \in Jobs,
             CronFire(w, j) \/ TriggerNow(w, j) \/ TriggerFails(w, j)
      PROVE  TableAt(u)'
  <2>1. PICK l \in {"waiting", "dead"} :
            /\ pc[w] = "unused"
            /\ pc' = [pc EXCEPT ![w] = l]
            /\ table' = table
    BY <1>3 DEF CronFire, TriggerNow, TriggerFails, Start, Goto
  <2>2. QED
    BY <2>1 DEF TypeOK, Body
<1>4. CASE \/ \E j \in Jobs : ToggleJob(j) \/ DeleteJob(j)
           \/ \E w \in Workers : CancelTracked(w) \/ CancelLookup(w)
           \/ CancelKill
  BY <1>4
  DEF ToggleJob, DeleteJob, CancelTracked, CancelLookup, CancelKill
<1>5. CASE \E w \in Workers : ProcExit(w) \/ CloseOut(w)
  BY <1>5 DEF ProcExit, CloseOut
<1>6. CASE Crash
  BY <1>6 DEF Crash
<1>7. CASE UNCHANGED vars
  BY <1>7 DEF vars
<1>8. QED
  BY <1>1, <1>2, <1>3, <1>4, <1>5, <1>6, <1>7 DEF Next, Api, System

-----------------------------------------------------------------------------
(* The cap on scripts *)

\* Where a worker can be while its script is alive: between Popen and the end
\* of the wait, or on the way out with a broken session, which never releases
\* the slot.
AliveAt(w) ==
    procs[w].state = "alive" =>
        \/ pc[w] \in {"track", "setpid", "pidcommit", "reading", "wait",
                      "leaked", "dead"}
        \/ /\ pc[w] \in {"select", "close", "finally"}
           /\ run[w].orm = "broken"
           /\ run[w].verdict = "error"
AliveInv == \A w \in Workers : AliveAt(w)

LEMMA ThreadAlive ==
    ASSUME TypeOK, AliveInv, "db" \notin Env,
           NEW w \in Workers, Thread(w) \/ Disturb(w),
           ~ \E j \in Jobs : Fanout(w, j)
    PROVE  AliveAt(w)'
<1> USE DEF AliveInv, AliveAt, Goto
<1>1. CASE Acquire(w) \/ LoadJob(w) \/ CheckDeps(w) \/ Track(w) \/ StorePid(w)
           \/ EndOfOutput(w) \/ ReadError(w) \/ ReadLine(w)
  BY <1>1
  DEF TypeOK, Acquire, LoadJob, CheckDeps, Track, StorePid, EndOfOutput,
      ReadError, ReadLine
<1>2. CASE OpenExecution(w) \/ SpawnFails(w)
  BY <1>2, RaiseFrame DEF TypeOK, OpenExecution, SpawnFails
<1>3. CASE Launch(w)
  <2>1. CASE ~run[w].pre /\ Deleted(w)
    BY <1>3, <2>1, RaiseFrame DEF Launch
  <2>2. CASE ~(~run[w].pre /\ Deleted(w))
    BY <1>3, <2>2 DEF Launch, TypeOK
  <2>3. QED BY <2>1, <2>2
<1>4. CASE CommitPid(w)
  BY <1>4, RaiseFrame DEF TypeOK, CommitPid
<1>5. CASE Reap(w) \/ Timeout(w)
  <2>1. procs[w] \in Proc /\ procs \in [Workers -> Proc]
    BY DEF TypeOK
  <2>2. CASE Reap(w)
    BY <2>1, <2>2 DEF Reap, Proc
  <2>3. CASE Timeout(w)
    <3>1. procs'[w] = [procs[w] EXCEPT !.state = "reaped", !.code = "sigkill"]
      BY <2>1, <2>3 DEF Timeout
    <3>2. procs'[w].state = "reaped"
      BY <2>1, <3>1 DEF Proc
    <3>3. QED
      BY <3>2
  <2>4. QED
    BY <1>5, <2>2, <2>3
<1>6. CASE Untrack(w) \/ RefreshRow(w) \/ Notify(w) \/ QueryDependents(w)
  BY <1>6 DEF Untrack, RefreshRow, Notify, QueryDependents
<1>7. CASE SelectRow(w)
  <2>1. CASE RowGone(w) \/ run[w].orm = "broken"
    BY <1>7, <2>1, RaiseFrame DEF SelectRow
  <2>2. CASE ~(RowGone(w) \/ run[w].orm = "broken")
    BY <1>7, <2>2 DEF SelectRow
  <2>3. QED BY <2>1, <2>2
<1>8. CASE CommitRow(w)
  BY <1>8 DEF CommitRow
<1>9. CASE Close(w) \/ Finally(w)
  BY <1>9 DEF TypeOK, Close, Finally, IdReadable
<1>10. CASE ThreadFails(w) \/ DbError(w)
  BY <1>10 DEF ThreadFails, DbError
<1>11. QED
  BY <1>1, <1>2, <1>3, <1>4, <1>5, <1>6, <1>7, <1>8, <1>9, <1>10
  DEF Thread, Disturb

LEMMA AliveInvNext ==
    ASSUME "db" \notin Env
    PROVE  TypeOK /\ AliveInv /\ [Next]_vars => AliveInv'
<1> SUFFICES ASSUME TypeOK, AliveInv, [Next]_vars, NEW u \in Workers
             PROVE  AliveAt(u)'
  BY DEF AliveInv
<1> USE DEF AliveInv, AliveAt
<1>1. ASSUME NEW w \in Workers, Thread(w) \/ Disturb(w),
             ~ \E j \in Jobs : Fanout(w, j)
      PROVE  AliveAt(u)'
  <2>1. CASE u = w
    BY <1>1, <2>1, ThreadAlive
  <2>2. CASE u # w
    BY <1>1, <2>2, ThreadFrame DEF Frame
  <2>3. QED BY <2>1, <2>2
<1>2. ASSUME NEW w \in Workers, NEW j \in Jobs, Fanout(w, j)
      PROVE  AliveAt(u)'
  BY <1>2, FanoutFrame
<1>3. ASSUME NEW w \in Workers, NEW j \in Jobs,
             CronFire(w, j) \/ TriggerNow(w, j) \/ TriggerFails(w, j)
      PROVE  AliveAt(u)'
  <2>1. PICK l \in {"waiting", "dead"} :
            /\ pc[w] = "unused"
            /\ pc' = [pc EXCEPT ![w] = l]
            /\ procs' = procs
    BY <1>3 DEF CronFire, TriggerNow, TriggerFails, Start, Goto
  <2>2. u # w => run'[u] = run[u]
    BY <1>3 DEF CronFire, TriggerNow, TriggerFails, Start, TypeOK
  <2>3. QED
    BY <2>1, <2>2 DEF TypeOK
<1>4. ASSUME NEW j \in Jobs, ToggleJob(j) \/ DeleteJob(j)
      PROVE  AliveAt(u)'
  BY <1>4 DEF ToggleJob, DeleteJob
<1>5. ASSUME NEW v \in Workers, Terminate(v)
      PROVE  procs'[u].state = procs[u].state
  BY <1>5 DEF Terminate, TypeOK, Proc
<1>6. ASSUME NEW w \in Workers, CancelTracked(w) \/ CancelLookup(w)
      PROVE  AliveAt(u)'
  BY <1>5, <1>6 DEF CancelTracked, CancelLookup
<1>7. CASE CancelKill
  BY <1>5, <1>7 DEF CancelKill
<1>8. ASSUME NEW w \in Workers, ProcExit(w) \/ CloseOut(w)
      PROVE  AliveAt(u)'
  <2>1. procs[w] \in Proc /\ procs \in [Workers -> Proc]
    BY DEF TypeOK
  <2>2. u # w => procs'[u] = procs[u]
    BY <1>8, <2>1 DEF ProcExit, CloseOut
  <2>3. ProcExit(w) => procs[w].state = "alive"
    BY DEF ProcExit
  <2>4. CloseOut(w) => procs'[w].state = procs[w].state
    BY <2>1 DEF CloseOut, Proc
  <2>5. procs'[u].state = "alive" => procs[u].state = "alive"
    BY <1>8, <2>2, <2>3, <2>4
  <2>6. QED
    BY <1>8, <2>5 DEF ProcExit, CloseOut
<1>9. CASE Crash
  <2>1. procs'[u].state = "alive" => procs[u].state = "alive"
    BY <1>9 DEF Crash, TypeOK, Proc
  <2>2. procs[u].state = "alive" => pc'[u] = "dead"
    BY <1>9 DEF Crash
  <2>3. QED
    BY <2>1, <2>2
<1>10. CASE UNCHANGED vars
  BY <1>10 DEF vars
<1>11. QED
  BY <1>1, <1>2, <1>3, <1>4, <1>6, <1>7, <1>8, <1>9, <1>10
  DEF Next, Api, System

LEMMA AliveInvInit == Init => AliveInv
BY DEF Init, AliveInv, AliveAt

\* The scripts alive are among the holders of slots, which are at most
\* MAX_CONCURRENT_JOBS.
LEMMA CapFromInvariants ==
    ASSUME TypeOK, PoolInv, AliveInv
    PROVE  CapRespected
<1>1. Own \subseteq Holders
  BY DEF AliveInv, AliveAt, Own, Holders, Body
<1>2. Cardinality(Own) <= Cardinality(Holders)
  BY <1>1, FS_Subset DEF PoolInv
<1>3. Cardinality(Holders) <= MaxConcurrent
  BY FS_CardinalityType, ExecutorAssumption
  DEF PoolInv, SlotsAccounted, TypeOK
<1>4. /\ Cardinality(Own) \in Nat
      /\ Cardinality(Holders) \in Nat
  BY <1>1, FS_Subset, FS_CardinalityType DEF PoolInv
<1>5. QED
  BY <1>2, <1>3, <1>4, ExecutorAssumption DEF CapRespected

\* As long as no database statement fails, this server never has more than
\* MAX_CONCURRENT_JOBS scripts alive, whatever is deleted, cancelled, undecodable
\* or timed out meanwhile, and across deaths of the server.
THEOREM CapHolds ==
    ASSUME "db" \notin Env
    PROVE  Spec => []CapRespected
<1>1. Init => TypeOK /\ PoolInv /\ AliveInv
  BY InitType, PoolInvInit, AliveInvInit
<1>2. (TypeOK /\ PoolInv /\ AliveInv) /\ [Next]_vars
          => (TypeOK /\ PoolInv /\ AliveInv)'
  BY NextType, PoolInvNext, AliveInvNext
<1>3. TypeOK /\ PoolInv /\ AliveInv => CapRespected
  BY CapFromInvariants
<1>4. QED
  BY <1>1, <1>2, <1>3, PTL DEF Spec
=============================================================================

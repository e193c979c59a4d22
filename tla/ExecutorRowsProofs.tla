------------------------- MODULE ExecutorRowsProofs -------------------------
(***************************************************************************)
(* Theorems about what Executor writes of a run: its row, its notification *)
(* and the request to cancel it, for every value of the constants.  Each   *)
(* names the optional events it excludes, and no other.                    *)
(***************************************************************************)
EXTENDS ExecutorProofs, WellFoundedInduction

-----------------------------------------------------------------------------
(* What a step of a worker does to its own locals, and to nobody's rows *)

LEMMA RaiseEffect ==
    ASSUME TypeOK, NEW w \in Workers, NEW o, Raise(w, o)
    PROVE  /\ run[w].orm = "none" => pc'[w] = "finally"
           /\ run[w].orm # "none" /\ run[w].verdict = "error"
                  => pc'[w] = "close"
           /\ run[w].orm # "none" /\ run[w].verdict # "error"
                  => pc'[w] = "select"
           /\ run'[w].orm = o /\ run'[w].verdict = "error"
           /\ run'[w].job = run[w].job /\ run'[w].pre = run[w].pre
<1>1. /\ run[w].orm = "none" => pc'[w] = "finally"
      /\ run[w].orm # "none" /\ run[w].verdict = "error" => pc'[w] = "close"
      /\ run[w].orm # "none" /\ run[w].verdict # "error"
             => pc'[w] = "select"
  BY DEF TypeOK, Raise, Goto
<1>2. run'[w] = [run[w] EXCEPT !.orm = o, !.verdict = "error"]
  BY DEF TypeOK, Raise
<1>3. run[w] \in Run
  BY DEF TypeOK
<1>4. /\ run'[w].orm = o /\ run'[w].verdict = "error"
      /\ run'[w].job = run[w].job /\ run'[w].pre = run[w].pre
  BY <1>2, <1>3 DEF Run
<1>5. QED
  BY <1>1, <1>4

LEMMA OrmEffect ==
    ASSUME TypeOK, NEW w \in Workers, NEW o,
           run' = [run EXCEPT ![w].orm = o]
    PROVE  /\ run'[w].orm = o /\ run'[w].verdict = run[w].verdict
           /\ run'[w].job = run[w].job /\ run'[w].pre = run[w].pre
<1>1. run'[w] = [run[w] EXCEPT !.orm = o] /\ run[w] \in Run
  BY DEF TypeOK
<1>2. QED
  BY ONLY <1>1 DEF Run

LEMMA VerdictEffect ==
    ASSUME TypeOK, NEW w \in Workers, NEW v,
           run' = [run EXCEPT ![w] = [@ EXCEPT !.orm = "fresh",
                                               !.verdict = v]]
    PROVE  /\ run'[w].orm = "fresh" /\ run'[w].verdict = v
           /\ run'[w].job = run[w].job /\ run'[w].pre = run[w].pre
<1>1. /\ run'[w] = [run[w] EXCEPT !.orm = "fresh", !.verdict = v]
      /\ run[w] \in Run
  BY DEF TypeOK
<1>2. QED
  BY ONLY <1>1 DEF Run

LEMMA TodoEffect ==
    ASSUME TypeOK, NEW w \in Workers, NEW t,
           run' = [run EXCEPT ![w].todo = t]
    PROVE  /\ run'[w].orm = run[w].orm /\ run'[w].verdict = run[w].verdict
           /\ run'[w].job = run[w].job /\ run'[w].pre = run[w].pre
<1>1. run'[w] = [run[w] EXCEPT !.todo = t] /\ run[w] \in Run
  BY DEF TypeOK
<1>2. QED
  BY ONLY <1>1 DEF Run

\* A new row of w; the rows of the others stay.
LEMMA CreateEffect ==
    ASSUME TypeOK, NEW w \in Workers, NEW j, CreateRow(w, j)
    PROVE  /\ rows'[w] = [job |-> j, status |-> "running", pid |-> None]
           /\ \A u \in Workers \ {w} : rows'[u] = rows[u]
BY DEF TypeOK, CreateRow

\* The rows, the notifications and the API's state while a thread moves.
RowsFrame(w) ==
    /\ jobs' = jobs /\ kill' = kill /\ asked' = asked
    /\ \A u \in Workers \ {w} : rows'[u] = rows[u] /\ sent'[u] = sent[u]

LEMMA ThreadRowsFrame ==
    ASSUME TypeOK, NEW w \in Workers, Thread(w) \/ Disturb(w)
    PROVE  RowsFrame(w)
<1> USE DEF RowsFrame, jobVars, viewVars
<1>1. CASE Acquire(w) \/ LoadJob(w) \/ CheckDeps(w) \/ Track(w) \/ StorePid(w)
           \/ EndOfOutput(w) \/ ReadError(w) \/ ReadLine(w) \/ Launch(w)
           \/ SpawnFails(w) \/ Reap(w) \/ Timeout(w) \/ Untrack(w)
           \/ SelectRow(w) \/ RefreshRow(w)
  BY <1>1
  DEF Acquire, LoadJob, CheckDeps, Track, StorePid, EndOfOutput, ReadError,
      ReadLine, Launch, SpawnFails, Reap, Timeout, Untrack, SelectRow,
      RefreshRow
<1>2. CASE OpenExecution(w)
  BY <1>2, CreateEffect DEF OpenExecution
<1>3. CASE CommitPid(w) \/ CommitRow(w)
  BY <1>3 DEF TypeOK, CommitPid, CommitRow
<1>4. CASE Notify(w)
  BY <1>4 DEF TypeOK, Notify
<1>5. CASE QueryDependents(w) \/ Close(w) \/ Finally(w) \/ ThreadFails(w)
           \/ DbError(w) \/ \E j \in Jobs : Fanout(w, j)
  BY <1>5 DEF QueryDependents, Close, Finally, ThreadFails, DbError, Fanout
<1>6. QED
  BY <1>1, <1>2, <1>3, <1>4, <1>5 DEF Thread, Disturb

-----------------------------------------------------------------------------
(* A run settles its row *)

\* Where a worker is: without an execution object; between the row and the
\* verdict; recording the verdict; past the record; out of the try block.
Early == {"waiting", "load", "deps", "open"}
Middle == {"launch", "track", "setpid", "pidcommit", "reading", "wait",
           "untrack"}
Recording == {"select", "commit"}
After == {"refresh", "notify", "dependents", "fanout", "close"}
Over == {"finally", "done", "leaked"}

\* Exactly the rows of deleted jobs are gone.
Deletion(w) ==
    /\ rows[w].status = "none" <=> rows[w].job = None
    /\ rows[w].status = "gone"
           <=> rows[w].job # None /\ jobs[rows[w].job] = "deleted"

\* The row as each part of _execute_job may find it.
RowAt(w) ==
    /\ pc[w] = "unused" => /\ rows[w].status = "none"
                           /\ run[w].orm = "none" /\ run[w].verdict = "none"
                           /\ ~run[w].pre
    /\ pc[w] \in Early =>
           /\ run[w].orm = "none" /\ run[w].verdict = "none"
           /\ run[w].job # None
           /\ run[w].pre => /\ rows[w].status \in {"running", "gone"}
                            /\ pc[w] # "deps"
           /\ ~run[w].pre => rows[w].status = "none"
    /\ pc[w] \in Middle =>
           /\ run[w].orm \in {"fresh", "expired"} /\ run[w].verdict = "none"
           /\ rows[w].status \in {"running", "gone"}
    /\ pc[w] \in Recording =>
           /\ run[w].orm # "none" /\ run[w].verdict # "none"
           /\ run[w].orm = "broken" => rows[w].status = "gone"
           /\ rows[w].status # "none"
    /\ pc[w] \in After =>
           /\ run[w].orm # "none"
           /\ run[w].orm = "broken" => rows[w].status = "gone"
           /\ rows[w].status \in Terminal \union {"gone"}
    /\ pc[w] \in Over => rows[w].status # "running"
    /\ pc[w] = "finally" /\ run[w].orm = "broken" => rows[w].status = "gone"
    /\ pc[w] = "leaked" => rows[w].status = "gone"
    /\ pc[w] \in Early \union Middle \union Recording \union After =>
           rows[w].job \in {None, run[w].job}

RowInv == \A w \in Workers : Deletion(w) /\ RowAt(w)

LEMMA ThreadRow ==
    ASSUME TypeOK, RowInv, "db" \notin Env,
           NEW w \in Workers, Thread(w) \/ Disturb(w),
           ~ \E j \in Jobs : Fanout(w, j)
    PROVE  Deletion(w)' /\ RowAt(w)'
<1> USE DEF Early, Middle, Recording, After, Over, Terminal
<1>1. /\ Deletion(w) /\ RowAt(w) /\ RowsFrame(w)
      /\ rows[w] \in Row /\ run[w] \in Run
      /\ rows \in [Workers -> Row]
      /\ pc \in [Workers -> Labels]
  BY ThreadRowsFrame DEF RowInv, TypeOK
<1>2. rows[w].job \in Jobs \union {None} /\ None \notin Jobs
  BY <1>1, ExecutorAssumption DEF Row
<1>3. CASE Acquire(w) \/ Track(w) \/ StorePid(w) \/ EndOfOutput(w)
           \/ ReadError(w) \/ Reap(w)
  <2>1. /\ run' = run /\ rows' = rows /\ jobs' = jobs
        /\ \/ pc[w] = "waiting" /\ pc'[w] = "load"
           \/ pc[w] \in Middle /\ pc'[w] \in Middle
    BY <1>1, <1>3
    DEF Acquire, Track, StorePid, EndOfOutput, ReadError, Reap, Goto, jobVars
  <2>2. QED
    BY ONLY <1>1, <2>1
    DEF RowAt, Deletion, Early, Middle, Recording, After, Over, Terminal
<1>4. CASE LoadJob(w) \/ CheckDeps(w)
  <2>1. /\ run' = run /\ rows' = rows /\ jobs' = jobs
        /\ pc[w] \in {"load", "deps"}
        /\ pc'[w] \in {"finally", "open", "deps"}
        /\ pc'[w] = "finally" /\ run[w].pre => Deleted(w) \/ pc[w] = "deps"
        /\ pc'[w] = "deps" => ~run[w].pre
    BY <1>1, <1>4 DEF LoadJob, CheckDeps, Goto, jobVars
  <2>2. run[w].orm = "none"
    BY <1>1, <2>1 DEF RowAt
  <2>3. pc'[w] # "leaked" /\ pc'[w] \notin Middle \union Recording \union After
    BY <2>1
  <2>4. QED
    BY ONLY <1>1, <1>2, <2>1, <2>2, <2>3
    DEF RowAt, Deletion, Deleted, Early, Middle, Recording, After, Over,
        Terminal
<1>5. CASE OpenExecution(w)
  <2>1. CASE Deleted(w)
    <3>1. Raise(w, "none") /\ rows' = rows /\ jobs' = jobs /\ pc[w] = "open"
      BY <1>5, <2>1 DEF OpenExecution, jobVars
    <3>2. /\ pc'[w] = "finally" /\ run'[w].orm = "none"
          /\ rows[w].status # "running"
      BY <1>1, <1>2, <2>1, <3>1, RaiseEffect DEF RowAt, Deletion, Deleted
    <3>3. QED
      BY ONLY <1>1, <3>1, <3>2
      DEF RowAt, Deletion, Early, Middle, Recording, After, Over
  <2>2. CASE ~Deleted(w)
    <3>1. /\ run'[w].orm = "fresh" /\ run'[w].verdict = run[w].verdict
          /\ run'[w].job = run[w].job /\ run'[w].pre = run[w].pre
      BY <1>5, <2>2, OrmEffect DEF OpenExecution
    <3>2. pc'[w] = "launch" /\ pc[w] = "open" /\ jobs' = jobs
      BY <1>1, <1>5, <2>2 DEF OpenExecution, Goto, jobVars
    <3>3. CASE run[w].pre
      <4>1. rows' = rows
        BY <1>5, <2>2, <3>3 DEF OpenExecution
      <4>2. QED
        BY ONLY <1>1, <3>1, <3>2, <3>3, <4>1
        DEF RowAt, Deletion, Early, Middle, Recording, After, Over, Terminal
    <3>4. CASE ~run[w].pre
      <4>1. rows'[w] = [job |-> run[w].job, status |-> "running",
                        pid |-> None]
        BY <1>5, <2>2, <3>4, CreateEffect DEF OpenExecution
      <4>2. rows'[w].job = run[w].job /\ rows'[w].status = "running"
        BY <4>1
      <4>3. QED
        BY ONLY <1>1, <2>2, <3>1, <3>2, <4>2
        DEF RowAt, Deletion, Deleted, Early, Middle, Recording, After, Over,
            Terminal
    <3>5. QED BY <3>3, <3>4
  <2>3. QED BY <2>1, <2>2
<1>6. CASE Launch(w) \/ SpawnFails(w)
  <2>1. CASE Raise(w, run[w].orm)
    <3>1. rows' = rows /\ jobs' = jobs /\ pc[w] = "launch"
      BY <1>6 DEF Launch, SpawnFails, jobVars
    <3>2. QED
      BY ONLY <1>1, <2>1, <3>1, TypeOK, RaiseEffect
      DEF RowAt, Deletion, Early, Middle, Recording, After, Over, Terminal
  <2>2. CASE ~Raise(w, run[w].orm)
    <3>1. /\ run' = run /\ rows' = rows /\ jobs' = jobs
          /\ pc[w] = "launch" /\ pc'[w] = "track"
      BY <1>1, <1>6, <2>2 DEF Launch, SpawnFails, Goto, jobVars
    <3>2. QED
      BY ONLY <1>1, <3>1
      DEF RowAt, Deletion, Early, Middle, Recording, After, Over, Terminal
  <2>3. QED BY <2>1, <2>2
<1>7. CASE CommitPid(w)
  <2>1. pc[w] = "pidcommit" /\ jobs' = jobs
    BY <1>7 DEF CommitPid, jobVars
  <2>2. CASE RowGone(w)
    <3>1. Raise(w, "broken") /\ rows' = rows
      BY <1>7, <2>2 DEF CommitPid
    <3>2. QED
      BY ONLY <1>1, <2>1, <2>2, <3>1, TypeOK, RaiseEffect
      DEF RowAt, RowGone, Deletion, Early, Middle, Recording, After, Over,
          Terminal
  <2>3. CASE ~RowGone(w)
    <3>1. /\ run'[w].orm = "expired" /\ run'[w].verdict = run[w].verdict
          /\ run'[w].job = run[w].job /\ run'[w].pre = run[w].pre
      BY <1>7, <2>3, OrmEffect DEF CommitPid
    <3>2. pc'[w] = "reading"
      BY <1>1, <1>7, <2>3 DEF CommitPid, Goto
    <3>3. rows'[w] = [rows[w] EXCEPT !.pid = procs[w].pid]
      BY <1>1, <1>7, <2>3 DEF CommitPid
    <3>4. rows'[w].job = rows[w].job /\ rows'[w].status = rows[w].status
      BY <1>1, <3>3 DEF Row
    <3>5. QED
      BY ONLY <1>1, <2>1, <3>1, <3>2, <3>4
      DEF RowAt, Deletion, Early, Middle, Recording, After, Over, Terminal
  <2>4. QED BY <2>2, <2>3
<1>8. CASE ReadLine(w)
  <2>1. /\ pc[w] = "reading" /\ pc'[w] \in {"wait", "reading"}
        /\ rows' = rows /\ jobs' = jobs
    BY <1>1, <1>8 DEF ReadLine, Goto, jobVars
  <2>2. /\ run'[w].orm \in {run[w].orm, "fresh"}
        /\ run'[w].verdict = run[w].verdict
        /\ run'[w].job = run[w].job /\ run'[w].pre = run[w].pre
    BY <1>8, OrmEffect DEF ReadLine
  <2>3. QED
    BY ONLY <1>1, <2>1, <2>2
    DEF RowAt, Deletion, Early, Middle, Recording, After, Over, Terminal
<1>9. CASE Timeout(w) \/ Untrack(w)
  <2>1. pc[w] \in {"wait", "untrack"} /\ rows' = rows /\ jobs' = jobs
    BY <1>9 DEF Timeout, Untrack, jobVars
  <2>2. CASE IdReadable(w)
    <3>1. /\ run'[w].orm = "fresh"
          /\ run'[w].verdict \in {"timeout", VerdictOf(procs[w].code)}
          /\ run'[w].job = run[w].job /\ run'[w].pre = run[w].pre
      BY <1>9, <2>2, VerdictEffect DEF Timeout, Untrack, IdFails
    <3>2. pc'[w] = "select"
      BY <1>1, <1>9, <2>2 DEF Timeout, Untrack, IdFails, Goto
    <3>3. run'[w].verdict # "none"
      BY <3>1 DEF VerdictOf
    <3>4. QED
      BY ONLY <1>1, <2>1, <3>1, <3>2, <3>3
      DEF RowAt, Deletion, Early, Middle, Recording, After, Over, Terminal
  <2>3. CASE ~IdReadable(w)
    <3>1. Raise(w, run[w].orm)
      BY <1>9, <2>3 DEF Timeout, Untrack
    <3>2. QED
      BY ONLY <1>1, <2>1, <3>1, TypeOK, RaiseEffect
      DEF RowAt, Deletion, Early, Middle, Recording, After, Over, Terminal
  <2>4. QED BY <2>2, <2>3
<1>10. CASE SelectRow(w)
  <2>1. pc[w] = "select" /\ rows' = rows /\ jobs' = jobs
    BY <1>10 DEF SelectRow, jobVars
  <2>2. CASE RowGone(w) \/ run[w].orm = "broken"
    <3>1. Raise(w, run[w].orm)
      BY <1>10, <2>2 DEF SelectRow
    <3>2. QED
      BY ONLY <1>1, <2>1, <2>2, <3>1, TypeOK, RaiseEffect
      DEF RowAt, RowGone, Deletion, Early, Middle, Recording, After, Over,
          Terminal
  <2>3. CASE ~(RowGone(w) \/ run[w].orm = "broken")
    <3>1. run' = run /\ pc'[w] = "commit"
      BY <1>1, <1>10, <2>3 DEF SelectRow, Goto
    <3>2. QED
      BY ONLY <1>1, <2>1, <3>1
      DEF RowAt, Deletion, Early, Middle, Recording, After, Over, Terminal
  <2>4. QED BY <2>2, <2>3
<1>11. CASE CommitRow(w)
  <2>1. pc[w] = "commit" /\ jobs' = jobs
    BY <1>11 DEF CommitRow, jobVars
  <2>2. CASE RowGone(w)
    <3>1. Raise(w, "broken") /\ rows' = rows
      BY <1>11, <2>2 DEF CommitRow
    <3>2. QED
      BY ONLY <1>1, <2>1, <2>2, <3>1, TypeOK, RaiseEffect
      DEF RowAt, RowGone, Deletion, Early, Middle, Recording, After, Over,
          Terminal
  <2>3. CASE ~RowGone(w)
    <3>1. /\ run'[w].orm = "expired" /\ run'[w].verdict = run[w].verdict
          /\ run'[w].job = run[w].job /\ run'[w].pre = run[w].pre
      BY <1>11, <2>3, OrmEffect DEF CommitRow
    <3>2. pc'[w] = "refresh"
      BY <1>1, <1>11, <2>3 DEF CommitRow, Goto
    <3>3. rows'[w] = [rows[w] EXCEPT !.pid = None,
                                     !.status = Status(run[w].verdict)]
      BY <1>1, <1>11, <2>3 DEF CommitRow
    <3>4. rows'[w].job = rows[w].job /\ rows'[w].status \in Terminal
      BY <1>1, <3>3, StatusType DEF Row
    <3>5. QED
      BY ONLY <1>1, <2>1, <2>3, <3>1, <3>2, <3>4
      DEF RowAt, RowGone, Deletion, Early, Middle, Recording, After, Over,
          Terminal
  <2>4. QED BY <2>2, <2>3
<1>12. CASE RefreshRow(w)
  <2>1. pc[w] = "refresh" /\ rows' = rows /\ jobs' = jobs
    BY <1>12 DEF RefreshRow, jobVars
  <2>2. CASE RowGone(w)
    <3>1. Raise(w, run[w].orm)
      BY <1>12, <2>2 DEF RefreshRow
    <3>2. QED
      BY ONLY <1>1, <2>1, <2>2, <3>1, TypeOK, RaiseEffect
      DEF RowAt, RowGone, Deletion, Early, Middle, Recording, After, Over,
          Terminal
  <2>3. CASE ~RowGone(w)
    <3>1. /\ run'[w].orm = "fresh" /\ run'[w].verdict = run[w].verdict
          /\ run'[w].job = run[w].job /\ run'[w].pre = run[w].pre
      BY <1>12, <2>3, OrmEffect DEF RefreshRow
    <3>2. pc'[w] \in {"notify", "close"}
      BY <1>1, <1>12, <2>3 DEF RefreshRow, Goto
    <3>3. QED
      BY ONLY <1>1, <2>1, <3>1, <3>2
      DEF RowAt, Deletion, Early, Middle, Recording, After, Over, Terminal
  <2>4. QED BY <2>2, <2>3
<1>13. CASE Notify(w)
  <2>1. pc[w] = "notify" /\ rows' = rows /\ jobs' = jobs
    BY <1>13 DEF Notify, jobVars
  <2>2. CASE Deleted(w)
    <3>1. Raise(w, run[w].orm)
      BY <1>13, <2>2 DEF Notify
    <3>2. QED
      BY ONLY <1>1, <2>1, <3>1, TypeOK, RaiseEffect
      DEF RowAt, Deletion, Early, Middle, Recording, After, Over, Terminal
  <2>3. CASE ~Deleted(w)
    <3>1. run' = run /\ pc'[w] \in {"dependents", "finally", "close"}
      BY <1>1, <1>13, <2>3 DEF Notify, Goto
    <3>2. QED
      BY ONLY <1>1, <2>1, <3>1
      DEF RowAt, Deletion, Early, Middle, Recording, After, Over, Terminal
  <2>4. QED BY <2>2, <2>3
<1>14. CASE QueryDependents(w)
  <2>1. /\ pc[w] = "dependents" /\ rows' = rows /\ jobs' = jobs
        /\ pc'[w] \in {"close", "fanout"}
    BY <1>1, <1>14 DEF QueryDependents, Goto, jobVars
  <2>2. /\ run'[w].orm = run[w].orm /\ run'[w].verdict = run[w].verdict
        /\ run'[w].job = run[w].job /\ run'[w].pre = run[w].pre
    BY <1>14, TodoEffect DEF QueryDependents
  <2>3. QED
    BY ONLY <1>1, <2>1, <2>2
    DEF RowAt, Deletion, Early, Middle, Recording, After, Over, Terminal
<1>15. CASE Close(w)
  <2>1. /\ pc[w] = "close" /\ rows' = rows /\ jobs' = jobs
        /\ pc'[w] \in {"notify", "finally"}
    BY <1>1, <1>15 DEF Close, Goto, jobVars
  <2>2. /\ run'[w].orm \in {run[w].orm, "fresh"}
        /\ run'[w].verdict = run[w].verdict
        /\ run'[w].job = run[w].job /\ run'[w].pre = run[w].pre
    BY <1>15, OrmEffect DEF Close
  <2>3. QED
    BY ONLY <1>1, <2>1, <2>2
    DEF RowAt, Deletion, Early, Middle, Recording, After, Over, Terminal
<1>16. CASE Finally(w)
  <2>1. /\ pc[w] = "finally" /\ rows' = rows /\ jobs' = jobs
        /\ pc'[w] \in {"done", "leaked"}
    BY <1>1, <1>16 DEF Finally, Goto, jobVars
  <2>2. run' = run
    BY <1>16 DEF Finally
  <2>3. pc'[w] = "leaked" => rows[w].status = "gone"
    <3>1. pc'[w] = "leaked" => run[w].orm # "none" /\ ~IdReadable(w)
      BY <1>1, <1>16 DEF Finally, IdFails, Goto
    <3>2. run[w].orm \in Orms
      BY <1>1 DEF Run, Orms
    <3>3. QED
      BY <1>1, <2>1, <3>1, <3>2 DEF RowAt, IdReadable, RowGone, Orms
  <2>4. QED
    BY ONLY <1>1, <2>1, <2>2, <2>3
    DEF RowAt, Deletion, Early, Middle, Recording, After, Over, Terminal
<1>17. CASE ThreadFails(w)
  <2>1. /\ pc[w] \in {"notify", "fanout"} /\ rows' = rows /\ jobs' = jobs
        /\ Raise(w, run[w].orm)
    BY <1>17 DEF ThreadFails, jobVars
  <2>2. QED
    BY ONLY <1>1, <2>1, TypeOK, RaiseEffect
    DEF RowAt, Deletion, Early, Middle, Recording, After, Over, Terminal
<1>18. QED
  BY <1>3, <1>4, <1>5, <1>6, <1>7, <1>8, <1>9, <1>10, <1>11, <1>12, <1>13,
     <1>14, <1>15, <1>16, <1>17
  DEF Thread, Disturb, DbError

\* A dependent's start: the new worker is the only other one that moves, with
\* the dependent for its job.
LEMMA FanoutEffect ==
    ASSUME TypeOK, NEW w \in Workers, NEW j \in Jobs, Fanout(w, j)
    PROVE  /\ pc[w] = "fanout" /\ pc'[w] \in {"fanout", "close"}
           /\ rows' = rows /\ jobs' = jobs /\ order' = order
           /\ sent' = sent /\ asked' = asked /\ kill' = kill
           /\ procs' = procs
           /\ run'[w].orm = run[w].orm /\ run'[w].verdict = run[w].verdict
           /\ run'[w].job = run[w].job /\ run'[w].pre = run[w].pre
           /\ \A u \in Workers \ {w} :
                  \/ pc'[u] = pc[u] /\ run'[u] = run[u]
                  \/ /\ pc[u] = "unused" /\ pc'[u] = "waiting"
                     /\ run'[u].job = j /\ run'[u].pre = run[u].pre
                     /\ run'[u].orm = run[u].orm
                     /\ run'[u].verdict = run[u].verdict
<1> DEFINE left == run[w].todo \ {j}
           next == IF left = {} THEN "close" ELSE "fanout"
<1>1. /\ pc[w] = "fanout" /\ rows' = rows /\ jobs' = jobs /\ order' = order
      /\ sent' = sent /\ asked' = asked /\ kill' = kill /\ procs' = procs
  BY DEF Fanout, jobVars, viewVars
<1>2. run \in [Workers -> Run] /\ pc \in [Workers -> Labels]
  BY DEF TypeOK
<1>3. CASE DepsMet(j)
  <2>1. PICK v \in Workers :
            /\ pc[v] = "unused"
            /\ pc' = [pc EXCEPT ![v] = "waiting", ![w] = next]
            /\ run' = [run EXCEPT ![v].job = j, ![w].todo = left]
    BY <1>3 DEF Fanout
  <2>2. v # w
    BY <1>1, <2>1
  <2>3. pc'[w] = next /\ pc'[v] = "waiting"
    BY <1>2, <2>1, <2>2
  <2>4. run'[w] = [run[w] EXCEPT !.todo = left]
    BY <1>2, <2>1, <2>2
  <2>5. run'[v] = [run[v] EXCEPT !.job = j]
    BY <1>2, <2>1, <2>2
  <2>6. \A u \in Workers \ {v, w} : pc'[u] = pc[u] /\ run'[u] = run[u]
    BY <1>2, <2>1
  <2>7. /\ run'[w].orm = run[w].orm /\ run'[w].verdict = run[w].verdict
        /\ run'[w].job = run[w].job /\ run'[w].pre = run[w].pre
    BY ONLY <1>2, <2>4 DEF Run
  <2>8. /\ run'[v].orm = run[v].orm /\ run'[v].verdict = run[v].verdict
        /\ run'[v].job = j /\ run'[v].pre = run[v].pre
    BY ONLY <1>2, <2>5 DEF Run
  <2>9. QED
    BY <1>1, <2>1, <2>2, <2>3, <2>6, <2>7, <2>8
<1>4. CASE ~DepsMet(j)
  <2>1. /\ pc' = [pc EXCEPT ![w] = next]
        /\ run' = [run EXCEPT ![w].todo = left]
    BY <1>4 DEF Fanout, Goto
  <2>2. /\ run'[w].orm = run[w].orm /\ run'[w].verdict = run[w].verdict
        /\ run'[w].job = run[w].job /\ run'[w].pre = run[w].pre
    BY <2>1, TodoEffect
  <2>3. \A u \in Workers \ {w} : pc'[u] = pc[u] /\ run'[u] = run[u]
    BY <1>2, <2>1
  <2>4. pc'[w] \in {"fanout", "close"}
    BY <1>2, <2>1
  <2>5. QED
    BY <1>1, <2>2, <2>3, <2>4
<1>5. QED BY <1>3, <1>4

\* A start by a fire or by a trigger: one unused worker moves, perhaps with a
\* new row.
LEMMA StartEffect ==
    ASSUME TypeOK, NEW w \in Workers, NEW j \in Jobs,
           CronFire(w, j) \/ TriggerNow(w, j) \/ TriggerFails(w, j)
    PROVE  /\ pc[w] = "unused" /\ jobs' = jobs /\ sent' = sent
           /\ asked' = asked /\ kill' = kill /\ procs' = procs
           /\ \A u \in Workers \ {w} :
                  pc'[u] = pc[u] /\ run'[u] = run[u] /\ rows'[u] = rows[u]
           /\ run'[w].orm = run[w].orm /\ run'[w].verdict = run[w].verdict
           /\ \/ /\ pc'[w] = "waiting" /\ rows' = rows /\ order' = order
                 /\ run'[w].job = j /\ ~run'[w].pre
              \/ /\ jobs[j] # "deleted"
                 /\ rows'[w] = [job |-> j, status |-> "running", pid |-> None]
                 /\ order' = Append(order, w)
                 /\ \/ pc'[w] = "waiting" /\ run'[w].job = j /\ run'[w].pre
                    \/ pc'[w] = "dead" /\ "thread" \in Env
<1>1. run \in [Workers -> Run] /\ pc \in [Workers -> Labels]
  BY DEF TypeOK
<1>2. ASSUME NEW b \in BOOLEAN, Start(w, j, b)
      PROVE  /\ pc[w] = "unused" /\ pc'[w] = "waiting"
             /\ \A u \in Workers \ {w} : pc'[u] = pc[u] /\ run'[u] = run[u]
             /\ run'[w].orm = run[w].orm /\ run'[w].verdict = run[w].verdict
             /\ run'[w].job = j /\ run'[w].pre = b
  <2>1. /\ pc[w] = "unused" /\ pc'[w] = "waiting"
        /\ \A u \in Workers \ {w} : pc'[u] = pc[u] /\ run'[u] = run[u]
    BY <1>1, <1>2 DEF Start, Goto
  <2>2. run'[w] = [run[w] EXCEPT !.job = j, !.pre = b]
    BY <1>1, <1>2 DEF Start
  <2>3. /\ run'[w].orm = run[w].orm /\ run'[w].verdict = run[w].verdict
        /\ run'[w].job = j /\ run'[w].pre = b
    BY ONLY <1>1, <2>2 DEF Run
  <2>4. QED
    BY <2>1, <2>3
<1>3. CASE CronFire(w, j)
  BY <1>2, <1>3 DEF CronFire, jobVars, viewVars
<1>4. CASE TriggerNow(w, j)
  <2>1. CreateRow(w, j) /\ order' = Append(order, w)
    BY <1>4 DEF TriggerNow, CreateRow
  <2>2. QED
    BY <1>2, <1>4, <2>1, CreateEffect DEF TriggerNow, jobVars, viewVars
<1>5. CASE TriggerFails(w, j)
  <2>1. CreateRow(w, j) /\ order' = Append(order, w)
    BY <1>5 DEF TriggerFails, CreateRow
  <2>2. /\ pc[w] = "unused" /\ pc'[w] = "dead" /\ run' = run
        /\ \A u \in Workers \ {w} : pc'[u] = pc[u]
    BY <1>1, <1>5 DEF TriggerFails, Goto
  <2>3. QED
    BY <1>5, <2>1, <2>2, CreateEffect DEF TriggerFails, jobVars, viewVars
<1>6. QED
  BY <1>3, <1>4, <1>5

\* What the rest of the API and the system leave alone.
LEMMA OtherEffect ==
    ASSUME TypeOK,
           \/ \E j \in Jobs : ToggleJob(j)
           \/ \E w \in Workers : CancelTracked(w) \/ CancelLookup(w)
           \/ CancelKill
           \/ \E w \in Workers : ProcExit(w) \/ CloseOut(w)
           \/ Crash
           \/ UNCHANGED vars
    PROVE  /\ run' = run /\ rows' = rows /\ order' = order /\ sent' = sent
           /\ asked \subseteq asked'
           /\ \A u \in Workers : pc'[u] \in {pc[u], "dead"}
           /\ \A u \in Workers : pc[u] \in {"unused", "done"} => pc'[u] = pc[u]
<1>1. CASE \/ \E j \in Jobs : ToggleJob(j)
           \/ \E w \in Workers : CancelTracked(w) \/ CancelLookup(w)
           \/ CancelKill
  BY <1>1 DEF ToggleJob, CancelTracked, CancelLookup, CancelKill, viewVars
<1>2. CASE \E w \in Workers : ProcExit(w) \/ CloseOut(w)
  BY <1>2 DEF ProcExit, CloseOut, jobVars, viewVars
<1>3. CASE Crash
  <2>1. \A u \in Workers : pc'[u] = IF pc[u] \in {"unused", "done"}
                                     THEN pc[u] ELSE "dead"
    BY <1>3 DEF Crash
  <2>2. QED
    BY <1>3, <2>1 DEF Crash
<1>4. CASE UNCHANGED vars
  BY <1>4 DEF vars
<1>5. QED
  BY <1>1, <1>2, <1>3, <1>4

\* No call brings a deleted job back.
LEMMA JobsEffect ==
    ASSUME TypeOK,
           \/ \E j \in Jobs : ToggleJob(j)
           \/ \E w \in Workers : CancelTracked(w) \/ CancelLookup(w)
           \/ CancelKill
           \/ \E w \in Workers : ProcExit(w) \/ CloseOut(w)
           \/ Crash
           \/ UNCHANGED vars
    PROVE  \A j \in Jobs : jobs'[j] = "deleted" <=> jobs[j] = "deleted"
<1>1. ASSUME NEW j \in Jobs, ToggleJob(j)
      PROVE  \A i \in Jobs : jobs'[i] = "deleted" <=> jobs[i] = "deleted"
  BY <1>1 DEF ToggleJob, TypeOK
<1>2. CASE \/ \E w \in Workers : CancelTracked(w) \/ CancelLookup(w)
           \/ CancelKill
           \/ \E w \in Workers : ProcExit(w) \/ CloseOut(w)
           \/ Crash
           \/ UNCHANGED vars
  BY <1>2
  DEF CancelTracked, CancelLookup, CancelKill, ProcExit, CloseOut, Crash,
      jobVars, vars
<1>3. QED
  BY <1>1, <1>2

LEMMA DeleteEffect ==
    ASSUME TypeOK, NEW j \in Jobs, DeleteJob(j)
    PROVE  /\ pc' = pc /\ run' = run /\ order' = order /\ sent' = sent
           /\ asked' = asked /\ kill' = kill /\ procs' = procs
           /\ jobs'[j] = "deleted"
           /\ \A i \in Jobs \ {j} : jobs'[i] = jobs[i]
           /\ \A u \in Workers :
                  /\ rows'[u].job = rows[u].job
                  /\ rows[u].job # j => rows'[u] = rows[u]
                  /\ rows[u].job = j => /\ rows'[u].status = "gone"
                                        /\ rows'[u].pid = None
<1>1. /\ pc' = pc /\ run' = run /\ order' = order /\ sent' = sent
      /\ asked' = asked /\ kill' = kill /\ procs' = procs
  BY DEF DeleteJob, viewVars
<1>2. jobs'[j] = "deleted" /\ \A i \in Jobs \ {j} : jobs'[i] = jobs[i]
  BY DEF DeleteJob, TypeOK
<1>3. ASSUME NEW u \in Workers
      PROVE  /\ rows'[u].job = rows[u].job
             /\ rows[u].job # j => rows'[u] = rows[u]
             /\ rows[u].job = j => /\ rows'[u].status = "gone"
                                   /\ rows'[u].pid = None
  <2>1. rows'[u] = IF rows[u].job = j
                   THEN [rows[u] EXCEPT !.status = "gone", !.pid = None]
                   ELSE rows[u]
    BY DEF DeleteJob
  <2>2. rows[u] \in Row
    BY DEF TypeOK
  <2>3. QED
    BY ONLY <2>1, <2>2 DEF Row
<1>4. QED
  BY <1>1, <1>2, <1>3

LEMMA RowInvInit == Init => RowInv
BY ExecutorAssumption
DEF Init, RowInv, RowAt, Deletion, Early, Middle, Recording, After, Over

LEMMA RowInvNext ==
    ASSUME "db" \notin Env
    PROVE  TypeOK /\ RowInv /\ [Next]_vars => RowInv'
<1> SUFFICES ASSUME TypeOK, RowInv, [Next]_vars, NEW u \in Workers
             PROVE  Deletion(u)' /\ RowAt(u)'
  BY DEF RowInv
<1>1. Deletion(u) /\ RowAt(u) /\ rows[u] \in Row
  BY DEF RowInv, TypeOK
<1>2. rows[u].job \in Jobs \union {None} /\ None \notin Jobs
  BY <1>1, ExecutorAssumption DEF Row
<1>3. ASSUME NEW w \in Workers, Thread(w) \/ Disturb(w),
             ~ \E j \in Jobs : Fanout(w, j)
      PROVE  Deletion(u)' /\ RowAt(u)'
  <2>1. CASE u = w
    BY <1>3, <2>1, ThreadRow
  <2>2. CASE u # w
    <3>1. pc'[u] = pc[u] /\ run'[u] = run[u] /\ rows'[u] = rows[u]
          /\ jobs' = jobs
      BY <1>3, <2>2, ThreadFrame, ThreadRowsFrame DEF Frame, RowsFrame
    <3>2. QED
      BY ONLY <1>1, <3>1 DEF RowAt, Deletion
  <2>3. QED BY <2>1, <2>2
<1>4. ASSUME NEW w \in Workers, NEW j \in Jobs, Fanout(w, j)
      PROVE  Deletion(u)' /\ RowAt(u)'
  <2>1. rows' = rows /\ jobs' = jobs
    BY <1>4, FanoutEffect
  <2>2. \/ pc'[u] = pc[u] /\ run'[u] = run[u]
        \/ /\ pc[u] = "unused" /\ pc'[u] = "waiting"
           /\ run'[u].job = j /\ run'[u].pre = run[u].pre
           /\ run'[u].orm = run[u].orm
           /\ run'[u].verdict = run[u].verdict
        \/ /\ pc[u] = "fanout" /\ pc'[u] \in {"fanout", "close"}
           /\ run'[u].orm = run[u].orm /\ run'[u].verdict = run[u].verdict
           /\ run'[u].job = run[u].job /\ run'[u].pre = run[u].pre
    BY <1>4, FanoutEffect
  <2>3. j # None
    BY <1>2
  <2>4. QED
    BY ONLY <1>1, <2>1, <2>2, <2>3
    DEF RowAt, Deletion, Early, Middle, Recording, After, Over, Terminal
<1>5. ASSUME NEW w \in Workers, NEW j \in Jobs,
             CronFire(w, j) \/ TriggerNow(w, j) \/ TriggerFails(w, j)
      PROVE  Deletion(u)' /\ RowAt(u)'
  <2>1. CASE u # w
    <3>1. pc'[u] = pc[u] /\ run'[u] = run[u] /\ rows'[u] = rows[u]
          /\ jobs' = jobs
      BY <1>5, <2>1, StartEffect
    <3>2. QED
      BY ONLY <1>1, <3>1 DEF RowAt, Deletion
  <2>2. CASE u = w
    <3>1. /\ pc[u] = "unused" /\ jobs' = jobs
          /\ run'[u].orm = run[u].orm /\ run'[u].verdict = run[u].verdict
          /\ \/ /\ pc'[u] = "waiting" /\ rows' = rows
                /\ run'[u].job = j /\ ~run'[u].pre
             \/ /\ jobs[j] # "deleted"
                /\ rows'[u] = [job |-> j, status |-> "running", pid |-> None]
                /\ \/ pc'[u] = "waiting" /\ run'[u].job = j /\ run'[u].pre
                   \/ pc'[u] = "dead"
      BY <1>5, <2>2, StartEffect
    <3>2. j # None
      BY <1>2
    <3>3. QED
      BY ONLY <1>1, <3>1, <3>2
      DEF RowAt, Deletion, Early, Middle, Recording, After, Over, Terminal
  <2>3. QED BY <2>1, <2>2
<1>6. ASSUME NEW j \in Jobs, DeleteJob(j)
      PROVE  Deletion(u)' /\ RowAt(u)'
  <2>1. /\ pc' = pc /\ run' = run
        /\ jobs'[j] = "deleted"
        /\ \A i \in Jobs \ {j} : jobs'[i] = jobs[i]
        /\ rows'[u].job = rows[u].job
        /\ rows[u].job # j => rows'[u] = rows[u]
        /\ rows[u].job = j => rows'[u].status = "gone"
    BY <1>6, DeleteEffect
  <2>2. CASE rows[u].job = j
    <3>1. Deletion(u)'
      BY <1>2, <2>1, <2>2 DEF Deletion
    <3>2. rows[u].status # "none"
      BY <1>1, <1>2, <2>2 DEF Deletion
    <3>3. RowAt(u)'
      BY ONLY <1>1, <2>1, <2>2, <3>2
      DEF RowAt, Early, Middle, Recording, After, Over, Terminal
    <3>4. QED
      BY <3>1, <3>3
  <2>3. CASE rows[u].job # j
    BY <1>1, <1>2, <2>1, <2>3 DEF RowAt, Deletion
  <2>4. QED BY <2>2, <2>3
<1>7. CASE \/ \E j \in Jobs : ToggleJob(j)
           \/ \E w \in Workers : CancelTracked(w) \/ CancelLookup(w)
           \/ CancelKill
           \/ \E w \in Workers : ProcExit(w) \/ CloseOut(w)
           \/ Crash
           \/ UNCHANGED vars
  <2>1. /\ run' = run /\ rows' = rows /\ pc'[u] \in {pc[u], "dead"}
        /\ pc[u] = "unused" => pc'[u] = pc[u]
        /\ \A j \in Jobs : jobs'[j] = "deleted" <=> jobs[j] = "deleted"
    BY <1>7, OtherEffect, JobsEffect
  <2>2. QED
    BY ONLY <1>1, <1>2, <2>1
    DEF RowAt, Deletion, Early, Middle, Recording, After, Over, Terminal
<1>8. QED
  BY <1>3, <1>4, <1>5, <1>6, <1>7 DEF Next, Api, System

\* Unless a database statement fails, every return and every exception of
\* _execute_job settles the row, whatever is deleted, cancelled or
\* undecodable meanwhile; a run that died with the server has no such end.
THEOREM RowsSettledHolds ==
    ASSUME "db" \notin Env
    PROVE  Spec => []RowsSettled
<1>1. Init => TypeOK /\ RowInv
  BY InitType, RowInvInit
<1>2. (TypeOK /\ RowInv) /\ [Next]_vars => (TypeOK /\ RowInv)'
  BY NextType, RowInvNext
<1>3. RowInv => RowsSettled
  BY DEF RowInv, RowAt, Over, RowsSettled
<1>4. QED
  BY <1>1, <1>2, <1>3, PTL DEF Spec

\* Unless a statement fails, an entry whose run is over is of a deleted row.
TableRowInv == TypeOK /\ TableInv /\ ("db" \in Env \/ RowInv)

LEMMA TableRowInvNext == TableRowInv /\ [Next]_vars => TableRowInv'
<1> SUFFICES ASSUME TableRowInv, [Next]_vars PROVE TableRowInv'
  OBVIOUS
<1>1. TypeOK' /\ TableInv'
  BY NextType, TableInvNext DEF TableRowInv
<1>2. CASE "db" \in Env
  BY <1>1, <1>2 DEF TableRowInv
<1>3. CASE "db" \notin Env
  BY <1>1, <1>3, RowInvNext DEF TableRowInv
<1>4. QED
  BY <1>2, <1>3

\* cancel_execution finds every script a worker waits for.  It finds a run that
\* is over only where the row was deleted during the run or a statement may
\* fail: no other exception, no kill and no death of the server leaves an entry
\* behind.
THEOREM TableCorrect == Spec => []TableIsLive
<1>1. Init => TableRowInv
  BY InitType, RowInvInit DEF Init, TableRowInv, TableInv, TableAt
<1>2. TableRowInv => TableIsLive
  <2> SUFFICES ASSUME TableRowInv PROVE TableIsLive
    OBVIOUS
  <2>1. ASSUME NEW w \in table
        PROVE  \/ pc[w] \in Body
               \/ pc[w] = "leaked" /\ (RowGone(w) \/ "db" \in Env)
    <3>1. w \in Workers /\ pc[w] \in Body \union {"leaked"}
      BY DEF TableRowInv, TypeOK, TableInv, TableAt
    <3>2. pc[w] = "leaked" => RowGone(w) \/ "db" \in Env
      BY <3>1 DEF TableRowInv, RowInv, RowAt, RowGone
    <3>3. QED
      BY <3>1, <3>2
  <2>2. \A w \in Workers : pc[w] \in {"reading", "wait"} => w \in table
    BY DEF TableRowInv, TableInv, TableAt
  <2>3. QED
    BY <2>1, <2>2 DEF TableIsLive
<1>3. QED
  BY <1>1, <1>2, TableRowInvNext, PTL DEF Spec

-----------------------------------------------------------------------------
(* The row is final and the notification agrees with it *)

\* Where a worker can be once it has notified.
Told == {"dependents", "fanout", "close", "finally", "done", "leaked", "dead"}

\* A row is recorded once, from running, as the verdict says; the user is
\* told after that, and a timed out run tells last.
ToldAt(w) ==
    /\ pc[w] \in Recording => rows[w].status \in {"running", "gone"}
    /\ sent[w] # {} => /\ pc[w] \in Told
                       /\ pc[w] \in {"dependents", "fanout", "close"}
                              => run[w].verdict # "timeout"
    /\ pc[w] \in After => rows[w].status \in {Status(run[w].verdict), "gone"}
    /\ \A s \in Terminal : s \in sent[w] => rows[w].status \in {s, "gone"}

ToldInv == \A w \in Workers : ToldAt(w)

\* A worker that has told nobody keeps the invariant as long as its row is
\* what its place asks for.
LEMMA QuietStep ==
    ASSUME NEW w, sent[w] = {}, sent' = sent,
           pc'[w] \in Recording => rows'[w].status \in {"running", "gone"},
           pc'[w] \in After
               => rows'[w].status \in {Status(run'[w].verdict), "gone"}
    PROVE  ToldAt(w)'
BY DEF ToldAt

LEMMA ThreadTold ==
    ASSUME TypeOK, RowInv, ToldInv, "db" \notin Env, "thread" \notin Env,
           NEW w \in Workers, Thread(w) \/ Disturb(w),
           ~ \E j \in Jobs : Fanout(w, j)
    PROVE  ToldAt(w)'
<1>1. /\ Deletion(w) /\ RowAt(w) /\ ToldAt(w)
      /\ rows[w] \in Row /\ run[w] \in Run
      /\ rows \in [Workers -> Row]
      /\ pc \in [Workers -> Labels]
  BY DEF RowInv, ToldInv, TypeOK
<1>2. rows[w].job \in Jobs \union {None} /\ None \notin Jobs
  BY <1>1, ExecutorAssumption DEF Row
<1>3. pc[w] \in Early \union Middle \union Recording \union {"refresh", "notify"}
          => sent[w] = {}
  <2>1. sent[w] \subseteq Terminal
    BY DEF TypeOK
  <2>2. QED
    BY <1>1, <2>1 DEF ToldAt, Told, Early, Middle, Recording
<1>4. CASE Acquire(w) \/ LoadJob(w) \/ CheckDeps(w) \/ Track(w) \/ StorePid(w)
           \/ EndOfOutput(w) \/ ReadError(w) \/ ReadLine(w) \/ Reap(w)
  <2>1. /\ sent' = sent /\ pc[w] \in Early \union Middle
        /\ pc'[w] \in Early \union Middle \union {"finally"}
    BY <1>1, <1>4
    DEF Acquire, LoadJob, CheckDeps, Track, StorePid, EndOfOutput, ReadError,
        ReadLine, Reap, Goto, viewVars, Early, Middle
  <2>2. QED
    BY ONLY <1>3, <2>1, QuietStep
    DEF Early, Middle, Recording, After
<1>5. CASE OpenExecution(w)
  <2>1. sent' = sent /\ pc[w] = "open" /\ run[w].orm = "none"
    BY <1>1, <1>5 DEF OpenExecution, RowAt, Early
  <2>2. pc'[w] \in {"finally", "launch"}
    BY <1>1, <1>5, <2>1, RaiseEffect DEF OpenExecution, Goto
  <2>3. QED
    BY ONLY <1>3, <2>1, <2>2, QuietStep DEF Early, Recording, After
<1>6. CASE Launch(w) \/ SpawnFails(w) \/ CommitPid(w) \/ Timeout(w)
           \/ Untrack(w)
  <2>1. pc[w] \in Middle /\ sent' = sent
    BY <1>6
    DEF Launch, SpawnFails, CommitPid, Timeout, Untrack, viewVars, Middle
  <2>2. /\ rows[w].status \in {"running", "gone"}
        /\ run[w].orm # "none" /\ run[w].verdict = "none"
    BY <1>1, <2>1 DEF RowAt
  <2>3. pc'[w] \in Middle \union Recording
    <3>1. CASE Raise(w, run[w].orm) \/ Raise(w, "broken")
      BY <2>2, <3>1, RaiseEffect DEF Recording
    <3>2. CASE ~(Raise(w, run[w].orm) \/ Raise(w, "broken"))
      BY <1>1, <1>6, <3>2
      DEF Launch, SpawnFails, CommitPid, Timeout, Untrack, Goto, Middle,
          Recording
    <3>3. QED BY <3>1, <3>2
  <2>4. rows'[w].status = rows[w].status
    <3>1. \/ rows' = rows
          \/ rows' = [rows EXCEPT ![w].pid = procs[w].pid]
      BY <1>6 DEF Launch, SpawnFails, CommitPid, Timeout, Untrack
    <3>2. QED
      BY <1>1, <3>1 DEF Row
  <2>5. QED
    BY ONLY <1>3, <2>1, <2>2, <2>3, <2>4, QuietStep
    DEF Early, Middle, Recording, After
<1>7. CASE SelectRow(w)
  <2>1. pc[w] = "select" /\ sent' = sent /\ rows' = rows
    BY <1>7 DEF SelectRow, viewVars
  <2>2. CASE RowGone(w) \/ run[w].orm = "broken"
    <3>1. Raise(w, run[w].orm)
      BY <1>7, <2>2 DEF SelectRow
    <3>2. QED
      BY ONLY <1>1, <1>3, <2>1, <2>2, <3>1, TypeOK, RaiseEffect, QuietStep
      DEF RowAt, RowGone, Recording, After
  <2>3. CASE ~(RowGone(w) \/ run[w].orm = "broken")
    <3>1. run' = run /\ pc'[w] = "commit"
      BY <1>1, <1>7, <2>3 DEF SelectRow, Goto
    <3>2. QED
      BY ONLY <1>1, <1>3, <2>1, <3>1, QuietStep
      DEF ToldAt, Recording, After
  <2>4. QED BY <2>2, <2>3
<1>8. CASE CommitRow(w)
  <2>1. pc[w] = "commit" /\ sent' = sent
    BY <1>8 DEF CommitRow, viewVars
  <2>2. CASE RowGone(w)
    <3>1. Raise(w, "broken") /\ rows' = rows
      BY <1>8, <2>2 DEF CommitRow
    <3>2. QED
      BY ONLY <1>1, <1>3, <2>1, <2>2, <3>1, TypeOK, RaiseEffect, QuietStep
      DEF RowAt, RowGone, Recording, After
  <2>3. CASE ~RowGone(w)
    <3>1. run'[w].verdict = run[w].verdict
      BY <1>8, <2>3, OrmEffect DEF CommitRow
    <3>2. pc'[w] = "refresh"
      BY <1>1, <1>8, <2>3 DEF CommitRow, Goto
    <3>3. rows'[w] = [rows[w] EXCEPT !.pid = None,
                                     !.status = Status(run[w].verdict)]
      BY <1>1, <1>8, <2>3 DEF CommitRow
    <3>4. rows'[w].status = Status(run[w].verdict)
      BY <1>1, <3>3 DEF Row
    <3>5. QED
      BY ONLY <1>3, <2>1, <3>1, <3>2, <3>4, QuietStep DEF Recording, After
  <2>4. QED BY <2>2, <2>3
<1>9. CASE RefreshRow(w)
  <2>1. pc[w] = "refresh" /\ sent' = sent /\ rows' = rows
    BY <1>9 DEF RefreshRow, viewVars
  <2>2. CASE RowGone(w)
    <3>1. Raise(w, run[w].orm)
      BY <1>9, <2>2 DEF RefreshRow
    <3>2. QED
      BY ONLY <1>1, <1>3, <2>1, <2>2, <3>1, TypeOK, RaiseEffect, QuietStep
      DEF RowAt, RowGone, Recording, After
  <2>3. CASE ~RowGone(w)
    <3>1. run'[w].verdict = run[w].verdict
      BY <1>9, <2>3, OrmEffect DEF RefreshRow
    <3>2. pc'[w] \in {"notify", "close"}
      BY <1>1, <1>9, <2>3 DEF RefreshRow, Goto
    <3>3. QED
      BY ONLY <1>1, <1>3, <2>1, <3>1, <3>2, QuietStep
      DEF ToldAt, Recording, After
  <2>4. QED BY <2>2, <2>3
<1>10. CASE Notify(w)
  <2>1. pc[w] = "notify" /\ rows' = rows
    BY <1>10 DEF Notify
  <2>2. CASE Deleted(w)
    <3>1. Raise(w, run[w].orm) /\ sent' = sent
      BY <1>10, <2>2 DEF Notify
    <3>2. rows[w].status = "gone"
      BY <1>1, <1>2, <2>1, <2>2 DEF RowAt, Deletion, Deleted, After, Terminal
    <3>3. QED
      BY ONLY <1>3, <2>1, <3>1, <3>2, QuietStep
      DEF Recording
  <2>3. CASE ~Deleted(w)
    <3>1. /\ run' = run
          /\ sent'[w] = sent[w] \union {Status(run[w].verdict)}
      BY <1>10, <2>3 DEF Notify, TypeOK
    <3>2. /\ pc'[w] \in {"dependents", "finally", "close"}
          /\ pc'[w] # "finally" => run[w].verdict # "timeout"
      BY <1>1, <1>10, <2>3 DEF Notify, Goto
    <3>3. rows[w].status \in {Status(run[w].verdict), "gone"}
      BY <1>1, <2>1 DEF ToldAt, After
    <3>4. QED
      BY ONLY <1>3, <2>1, <3>1, <3>2, <3>3
      DEF ToldAt, Told, Recording, After
  <2>4. QED BY <2>2, <2>3
<1>11. CASE QueryDependents(w)
  <2>1. /\ pc[w] = "dependents" /\ rows' = rows /\ sent' = sent
        /\ pc'[w] \in {"close", "fanout"}
        /\ run'[w].verdict = run[w].verdict
    BY <1>1, <1>11, TodoEffect DEF QueryDependents, Goto, viewVars
  <2>2. QED
    BY ONLY <1>1, <2>1
    DEF ToldAt, Told, Recording, After
<1>12. CASE Close(w) \/ Finally(w)
  <2>1. /\ pc[w] \in {"close", "finally"} /\ rows' = rows /\ sent' = sent
        /\ \/ pc'[w] \in Over
           \/ pc[w] = "close" /\ pc'[w] = "notify" /\ run[w].verdict = "timeout"
    BY <1>1, <1>12 DEF Close, Finally, Goto, viewVars, Over
  <2>2. run'[w].verdict = run[w].verdict
    BY <1>12, OrmEffect DEF Close, Finally
  <2>3. QED
    BY ONLY <1>1, <2>1, <2>2 DEF ToldAt, Told, Recording, After, Over
<1>13. QED
  BY <1>4, <1>5, <1>6, <1>7, <1>8, <1>9, <1>10, <1>11, <1>12
  DEF Thread, Disturb, DbError, ThreadFails

LEMMA ToldInvInit == Init => ToldInv
BY DEF Init, ToldInv, ToldAt, Recording, After

LEMMA ToldInvNext ==
    ASSUME "db" \notin Env, "thread" \notin Env
    PROVE  TypeOK /\ RowInv /\ ToldInv /\ [Next]_vars => ToldInv'
<1> SUFFICES ASSUME TypeOK, RowInv, ToldInv, [Next]_vars, NEW u \in Workers
             PROVE  ToldAt(u)'
  BY DEF ToldInv
<1>0. TypeOK
  OBVIOUS
<1>1. /\ ToldAt(u) /\ Deletion(u) /\ RowAt(u)
      /\ sent[u] \subseteq Terminal
  BY DEF ToldInv, RowInv, TypeOK
<1>2. ASSUME NEW w \in Workers, Thread(w) \/ Disturb(w),
             ~ \E j \in Jobs : Fanout(w, j)
      PROVE  ToldAt(u)'
  <2>1. CASE u = w
    BY <1>2, <2>1, ThreadTold
  <2>2. CASE u # w
    <3>1. /\ pc'[u] = pc[u] /\ run'[u] = run[u] /\ rows'[u] = rows[u]
          /\ sent'[u] = sent[u]
      BY <1>2, <2>2, ThreadFrame, ThreadRowsFrame DEF Frame, RowsFrame
    <3>2. QED
      BY ONLY <1>1, <3>1 DEF ToldAt
  <2>3. QED BY <2>1, <2>2
<1>3. ASSUME NEW w \in Workers, NEW j \in Jobs, Fanout(w, j)
      PROVE  ToldAt(u)'
  <2>1. /\ rows' = rows /\ sent' = sent
        /\ \/ pc'[u] = pc[u] /\ run'[u] = run[u]
           \/ pc[u] = "unused" /\ pc'[u] = "waiting"
           \/ /\ pc[u] = "fanout" /\ pc'[u] \in {"fanout", "close"}
              /\ run'[u].verdict = run[u].verdict
    BY <1>3, FanoutEffect
  <2>2. QED
    BY ONLY <1>1, <2>1 DEF ToldAt, Told, Recording, After
<1>4. ASSUME NEW w \in Workers, NEW j \in Jobs,
             CronFire(w, j) \/ TriggerNow(w, j) \/ TriggerFails(w, j)
      PROVE  ToldAt(u)'
  <2>0. /\ pc[w] = "unused" /\ sent' = sent
        /\ \A v \in Workers \ {w} :
               pc'[v] = pc[v] /\ run'[v] = run[v] /\ rows'[v] = rows[v]
        /\ pc'[w] \in {"waiting", "dead"}
    BY ONLY <1>0, <1>4, StartEffect
  <2>1. CASE u # w
    <3>1. /\ pc'[u] = pc[u] /\ run'[u] = run[u] /\ rows'[u] = rows[u]
          /\ sent' = sent
      BY ONLY <2>0, <2>1
    <3>2. QED
      BY ONLY <1>1, <3>1 DEF ToldAt
  <2>2. CASE u = w
    <3>1. /\ pc[u] = "unused" /\ sent' = sent
          /\ pc'[u] \in {"waiting", "dead"}
      BY ONLY <2>0, <2>2
    <3>2. QED
      BY ONLY <1>1, <3>1, QuietStep DEF ToldAt, Told, Recording, After
  <2>3. QED BY <2>1, <2>2
<1>5. ASSUME NEW j \in Jobs, DeleteJob(j)
      PROVE  ToldAt(u)'
  <2>1. /\ pc' = pc /\ run' = run /\ sent' = sent
        /\ rows'[u] = rows[u] \/ rows'[u].status = "gone"
    BY <1>5, DeleteEffect
  <2>2. QED
    BY ONLY <1>1, <2>1 DEF ToldAt
<1>6. CASE \/ \E j \in Jobs : ToggleJob(j)
           \/ \E w \in Workers : CancelTracked(w) \/ CancelLookup(w)
           \/ CancelKill
           \/ \E w \in Workers : ProcExit(w) \/ CloseOut(w)
           \/ Crash
           \/ UNCHANGED vars
  <2>1. /\ run' = run /\ rows' = rows /\ sent' = sent
        /\ pc'[u] \in {pc[u], "dead"}
    BY <1>6, OtherEffect
  <2>2. QED
    BY ONLY <1>1, <2>1 DEF ToldAt, Told, Recording, After
<1>7. QED
  BY <1>2, <1>3, <1>4, <1>5, <1>6 DEF Next, Api, System

\* The three invariants together.
LEMMA ToldInvariance ==
    ASSUME "db" \notin Env, "thread" \notin Env
    PROVE  Spec => [](TypeOK /\ RowInv /\ ToldInv)
<1>1. Init => TypeOK /\ RowInv /\ ToldInv
  BY InitType, RowInvInit, ToldInvInit
<1>2. (TypeOK /\ RowInv /\ ToldInv) /\ [Next]_vars
          => (TypeOK /\ RowInv /\ ToldInv)'
  BY NextType, RowInvNext, ToldInvNext
<1>3. QED
  BY <1>1, <1>2, PTL DEF Spec

\* What the user is told of a run is what its row says, whatever is deleted,
\* cancelled or undecodable meanwhile; a failing statement or thread start
\* after the record is what the two hypotheses exclude.
THEOREM NotifiedHolds ==
    ASSUME "db" \notin Env, "thread" \notin Env
    PROVE  Spec => []NotifiedAsRecorded
<1>1. ToldInv => NotifiedAsRecorded
  BY DEF ToldInv, ToldAt, NotifiedAsRecorded
<1>2. QED
  BY <1>1, ToldInvariance, PTL

\* No step takes a row out of a final status but the deletion of its job.
LEMMA FinalStep ==
    ASSUME "db" \notin Env, "thread" \notin Env,
           TypeOK, RowInv, ToldInv, [Next]_vars,
           NEW u \in Workers, rows[u].status \in Terminal
    PROVE  rows'[u].status \in {rows[u].status, "gone"}
<1>1. RowAt(u) /\ ToldAt(u) /\ rows[u] \in Row /\ rows \in [Workers -> Row]
  BY DEF RowInv, ToldInv, TypeOK
<1>2. ASSUME NEW w \in Workers, Thread(w) \/ Disturb(w)
      PROVE  rows'[u].status = rows[u].status
  <2>1. CASE u # w
    BY <1>2, <2>1, ThreadRowsFrame DEF RowsFrame
  <2>2. CASE u = w /\ OpenExecution(w)
    <3>1. pc[u] = "open" /\ (rows' = rows \/ ~run[u].pre)
      BY <2>2 DEF OpenExecution
    <3>2. QED
      BY <1>1, <3>1 DEF RowAt, Early, Terminal
  <2>3. CASE u = w /\ CommitPid(w)
    <3>1. rows' = rows \/ rows' = [rows EXCEPT ![w].pid = procs[w].pid]
      BY <2>3 DEF CommitPid
    <3>2. QED
      BY <1>1, <2>3, <3>1 DEF Row
  <2>4. CASE u = w /\ CommitRow(w)
    BY <1>1, <2>4 DEF CommitRow, ToldAt, Recording, Terminal, RowGone
  <2>5. CASE /\ u = w
             /\ ~OpenExecution(w) /\ ~CommitPid(w) /\ ~CommitRow(w)
    <3>1. rows' = rows
      BY <1>2, <2>5
      DEF Thread, Disturb, Acquire, LoadJob, CheckDeps, Track, StorePid,
          EndOfOutput, ReadError, ReadLine, Launch, SpawnFails, Reap, Timeout,
          Untrack, SelectRow, RefreshRow, Notify, QueryDependents, Fanout,
          Close, Finally, ThreadFails, DbError
    <3>2. QED
      BY <3>1
  <2>6. QED
    BY <2>1, <2>2, <2>3, <2>4, <2>5
<1>3. ASSUME NEW w \in Workers, NEW j \in Jobs,
             CronFire(w, j) \/ TriggerNow(w, j) \/ TriggerFails(w, j)
      PROVE  rows'[u].status = rows[u].status
  BY <1>1, <1>3, StartEffect DEF RowAt, Terminal
<1>4. ASSUME NEW j \in Jobs, DeleteJob(j)
      PROVE  rows'[u].status \in {rows[u].status, "gone"}
  BY <1>4, DeleteEffect
<1>5. CASE \/ \E j \in Jobs : ToggleJob(j)
           \/ \E w \in Workers : CancelTracked(w) \/ CancelLookup(w)
           \/ CancelKill
           \/ \E w \in Workers : ProcExit(w) \/ CloseOut(w)
           \/ Crash
           \/ UNCHANGED vars
  BY <1>5, OtherEffect
<1>6. QED
  BY <1>2, <1>3, <1>4, <1>5 DEF Next, Api, System

\* A row that has reached a final status keeps it until its job is deleted:
\* complete_execution writes each row once.
THEOREM RowsStayFinal ==
    ASSUME "db" \notin Env, "thread" \notin Env
    PROVE  Spec => RowsFinal
<1>1. TypeOK /\ RowInv /\ ToldInv /\ [Next]_vars
          => [\A w \in Workers : rows[w].status \in Terminal =>
                  rows'[w].status \in {rows[w].status, "gone"}]_vars
  BY FinalStep
<1>2. QED
  BY <1>1, ToldInvariance, PTL DEF Spec, RowsFinal

-----------------------------------------------------------------------------
(* A run recorded as cancelled was asked to be *)

Unlaunched == {"unused", "waiting", "load", "deps", "open", "launch"}

\* The request leaves its trace in the process, its exit code, the verdict
\* and the row, in this order, and each trace is of the run asked for.
AskedAt(w) ==
    /\ pc[w] \in Unlaunched => procs[w].pid = None
    /\ rows[w].pid \in {None, procs[w].pid}
    /\ procs[w].term => w \in asked
    /\ procs[w].code = "sigterm" => w \in asked
    /\ run[w].verdict = "cancelled" => w \in asked
    /\ rows[w].status = "cancelled" => w \in asked

PidsApart ==
    \A v, w \in Workers :
        procs[v].pid = procs[w].pid /\ procs[v].pid # None => v = w

KillAsked == kill # None => \E w \in asked : procs[w].pid = kill

AskedInv == PidsApart /\ KillAsked /\ \A w \in Workers : AskedAt(w)

\* No step leads a worker back before its launch.
LEMMA NoReturn ==
    ASSUME TypeOK, NEW w \in Workers, Thread(w) \/ Disturb(w),
           pc'[w] \in Unlaunched
    PROVE  pc[w] \in Unlaunched \ {"launch"}
<1> USE DEF Unlaunched
<1>1. CASE Acquire(w) \/ LoadJob(w) \/ CheckDeps(w) \/ Track(w) \/ StorePid(w)
           \/ EndOfOutput(w) \/ ReadError(w) \/ ReadLine(w) \/ Reap(w)
           \/ QueryDependents(w) \/ Close(w) \/ Finally(w)
  BY <1>1
  DEF TypeOK, Goto, Acquire, LoadJob, CheckDeps, Track, StorePid, EndOfOutput,
      ReadError, ReadLine, Reap, QueryDependents, Close, Finally
<1>2. CASE OpenExecution(w) \/ Launch(w) \/ CommitPid(w) \/ SpawnFails(w)
           \/ Timeout(w) \/ Untrack(w)
  BY <1>2, RaiseFrame
  DEF TypeOK, Goto, OpenExecution, Launch, CommitPid, SpawnFails, Timeout,
      Untrack
<1>3. CASE SelectRow(w) \/ CommitRow(w) \/ RefreshRow(w)
  BY <1>3, RaiseFrame DEF TypeOK, Goto, SelectRow, CommitRow, RefreshRow
<1>4. CASE Notify(w)
  <2>1. pc'[w] \in {"finally", "close", "select", "dependents"}
    BY <1>4, RaiseFrame DEF TypeOK, Goto, Notify
  <2>2. QED
    BY <2>1
<1>5. CASE ThreadFails(w) \/ DbError(w)
  BY <1>5, RaiseFrame DEF ThreadFails, DbError
<1>6. ASSUME NEW j \in Jobs, Fanout(w, j)
      PROVE  pc[w] \in Unlaunched \ {"launch"}
  BY <1>6, FanoutEffect
<1>7. QED
  BY <1>1, <1>2, <1>3, <1>4, <1>5, <1>6 DEF Thread, Disturb

\* A thread step that starts no process keeps every pid, delivers no signal,
\* and reads "sigterm" only off its process.
LEMMA ThreadAsked ==
    ASSUME TypeOK, AskedInv, NEW w \in Workers, Thread(w) \/ Disturb(w),
           ~Launch(w), ~ \E j \in Jobs : Fanout(w, j)
    PROVE  AskedAt(w)' /\ procs'[w].pid = procs[w].pid
<1>1. /\ AskedAt(w) /\ RowsFrame(w) /\ asked' = asked
      /\ procs[w] \in Proc /\ rows[w] \in Row /\ run[w] \in Run
      /\ procs \in [Workers -> Proc] /\ rows \in [Workers -> Row]
  BY ThreadRowsFrame DEF AskedInv, TypeOK, RowsFrame
<1>2. /\ procs'[w].pid = procs[w].pid /\ procs'[w].term = procs[w].term
      /\ procs'[w].code \in {procs[w].code, "sigkill"}
  <2>1. CASE Reap(w)
    <3>1. procs'[w] = [procs[w] EXCEPT !.state = "reaped"]
      BY <1>1, <2>1 DEF Reap
    <3>2. QED
      BY ONLY <1>1, <3>1 DEF Proc
  <2>2. CASE Timeout(w)
    <3>1. procs'[w] = [procs[w] EXCEPT !.state = "reaped", !.code = "sigkill"]
      BY <1>1, <2>2 DEF Timeout
    <3>2. QED
      BY ONLY <1>1, <3>1 DEF Proc
  <2>3. CASE ~Reap(w) /\ ~Timeout(w)
    <3>1. procs' = procs
      BY <2>3
      DEF Thread, Disturb, Acquire, LoadJob, CheckDeps, OpenExecution, Track,
          StorePid, CommitPid, EndOfOutput, ReadError, ReadLine, SpawnFails,
          Untrack, SelectRow, CommitRow, RefreshRow, Notify, QueryDependents,
          Close, Finally, ThreadFails, DbError
    <3>2. QED
      BY <3>1
  <2>4. QED BY <2>1, <2>2, <2>3
<1>3. run'[w].verdict = "cancelled" => w \in asked
  <2> DEFINE Judges(v) == run' = [run EXCEPT ![w] =
                                     [@ EXCEPT !.orm = "fresh",
                                               !.verdict = v]]
  <2>1. CASE Judges(VerdictOf(procs[w].code))
    <3>1. run'[w].verdict = VerdictOf(procs[w].code)
      BY <2>1, VerdictEffect
    <3>2. QED
      BY <1>1, <3>1 DEF VerdictOf, AskedAt
  <2>2. CASE Judges("timeout")
    <3>1. run'[w].verdict = "timeout"
      BY <2>2, VerdictEffect
    <3>2. QED
      BY <3>1
  <2>3. CASE \E o : Raise(w, o)
    BY <2>3, RaiseEffect
  <2>4. CASE OpenExecution(w) \/ CommitPid(w) \/ ReadLine(w) \/ CommitRow(w)
             \/ RefreshRow(w) \/ Close(w) \/ QueryDependents(w)
    <3>1. \/ run' = run
          \/ \E o : run' = [run EXCEPT ![w].orm = o]
          \/ \E t : run' = [run EXCEPT ![w].todo = t]
          \/ \E o : Raise(w, o)
      BY <2>4
      DEF OpenExecution, CommitPid, ReadLine, CommitRow, RefreshRow, Close,
          QueryDependents
    <3>2. QED
      BY <1>1, <2>3, <3>1, OrmEffect, TodoEffect DEF AskedAt
  <2>5. CASE /\ run' = run
    BY <1>1, <2>5 DEF AskedAt
  <2>6. QED
    BY <2>1, <2>2, <2>3, <2>4, <2>5
    DEF Thread, Disturb, Acquire, LoadJob, CheckDeps, Track, StorePid,
        EndOfOutput, ReadError, SpawnFails, Reap, Timeout, Untrack, SelectRow,
        Notify, Finally, ThreadFails, DbError
<1>4. /\ rows'[w].pid \in {None, procs[w].pid}
      /\ rows'[w].status = "cancelled" => w \in asked
  <2>1. CASE OpenExecution(w)
    <3>1. rows' = rows \/ CreateRow(w, run[w].job)
      BY <2>1 DEF OpenExecution
    <3>2. CASE rows' = rows
      BY <1>1, <3>2 DEF AskedAt
    <3>3. CASE CreateRow(w, run[w].job)
      <4>1. rows'[w] = [job |-> run[w].job, status |-> "running", pid |-> None]
        BY <3>3, CreateEffect
      <4>2. QED
        BY <4>1
    <3>4. QED
      BY <3>1, <3>2, <3>3
  <2>2. CASE CommitPid(w)
    <3>1. rows' = rows \/ rows'[w] = [rows[w] EXCEPT !.pid = procs[w].pid]
      BY <1>1, <2>2 DEF CommitPid
    <3>2. QED
      BY <1>1, <3>1 DEF AskedAt, Row
  <2>3. CASE CommitRow(w)
    <3>1. \/ rows' = rows
          \/ rows'[w] = [rows[w] EXCEPT !.pid = None,
                                        !.status = Status(run[w].verdict)]
      BY <1>1, <2>3 DEF CommitRow
    <3>2. Status(run[w].verdict) = "cancelled" => run[w].verdict = "cancelled"
      BY DEF Status
    <3>3. QED
      BY <1>1, <3>1, <3>2 DEF AskedAt, Row
  <2>4. CASE ~OpenExecution(w) /\ ~CommitPid(w) /\ ~CommitRow(w)
    <3>1. rows' = rows
      BY <2>4
      DEF Thread, Disturb, Acquire, LoadJob, CheckDeps, Track, StorePid,
          EndOfOutput, ReadError, ReadLine, SpawnFails, Reap, Timeout,
          Untrack, SelectRow, RefreshRow, Notify, QueryDependents, Close,
          Finally, ThreadFails, DbError
    <3>2. QED
      BY <1>1, <3>1 DEF AskedAt
  <2>5. QED BY <2>1, <2>2, <2>3, <2>4
<1>5. pc'[w] \in Unlaunched => procs[w].pid = None
  BY <1>1, NoReturn DEF AskedAt
<1>6. QED
  BY ONLY <1>1, <1>2, <1>3, <1>4, <1>5 DEF AskedAt

\* The invariant is about the pids, the traces and the requests only.
LEMMA AskedFrame ==
    ASSUME NEW u, AskedAt(u), asked \subseteq asked',
           pc'[u] \in Unlaunched => pc[u] \in Unlaunched,
           procs'[u] = procs[u], rows'[u] = rows[u],
           run'[u].verdict = run[u].verdict
    PROVE  AskedAt(u)'
BY DEF AskedAt

LEMMA AskedInvInit == Init => AskedInv
BY DEF Init, AskedInv, AskedAt, PidsApart, KillAsked

\* Popen: without reuse the pid is one no process has had.
LEMMA LaunchAsked ==
    ASSUME TypeOK, AskedInv, "reuse" \notin Env, NEW w \in Workers, Launch(w)
    PROVE  AskedInv'
<1>1. /\ procs \in [Workers -> Proc] /\ run \in [Workers -> Run]
      /\ asked' = asked /\ kill' = kill /\ rows' = rows
      /\ asked \subseteq Workers
      /\ \A u \in Workers \ {w} : pc'[u] = pc[u] /\ run'[u] = run[u]
                                 /\ procs'[u] = procs[u]
  <2>1. ~ \E j \in Jobs : Fanout(w, j)
    BY DEF Launch, Fanout
  <2>2. Frame(w)
    BY <2>1, ThreadFrame DEF Thread
  <2>3. QED
    BY <2>2 DEF TypeOK, Launch, jobVars, Frame
<1>2. /\ pc[w] = "launch" /\ procs[w].pid = None /\ rows[w].pid = None
  BY DEF Launch, AskedInv, AskedAt, Unlaunched
<1>3. CASE ~run[w].pre /\ Deleted(w)
  <2>1. Raise(w, run[w].orm) /\ procs' = procs
    BY <1>3 DEF Launch
  <2>2. run'[w].verdict = "error" /\ pc'[w] \in {"finally", "close", "select"}
    BY <2>1, RaiseFrame
  <2>3. \A u \in Workers : AskedAt(u)'
    BY <1>1, <2>1, <2>2 DEF AskedInv, AskedAt, Unlaunched
  <2>4. QED
    BY <1>1, <2>1, <2>3 DEF AskedInv, PidsApart, KillAsked
<1>4. CASE ~(~run[w].pre /\ Deleted(w))
  <2>1. PICK p \in FreePids :
            procs' = [procs EXCEPT ![w] =
                         [state |-> "alive", code |-> "none",
                          out |-> TRUE, pid |-> p, term |-> FALSE]]
    BY <1>4 DEF Launch
  <2>2. \A v \in Workers : procs[v].pid # p
    BY DEF FreePids
  <2>3. /\ procs'[w].pid = p /\ procs'[w].term = FALSE
        /\ procs'[w].code = "none"
    BY <1>1, <2>1
  <2>4. run' = run /\ pc'[w] = "track"
    BY <1>4 DEF Launch, Goto, TypeOK
  <2>5. PidsApart'
    BY <1>1, <2>2, <2>3 DEF AskedInv, PidsApart
  <2>6. KillAsked'
    BY <1>1, <1>2 DEF AskedInv, KillAsked
  <2>7. AskedAt(w)'
    BY <1>1, <1>2, <2>3, <2>4 DEF AskedInv, AskedAt, Unlaunched
  <2>8. \A u \in Workers \ {w} : AskedAt(u)'
    BY <1>1, <2>4 DEF AskedInv, AskedAt
  <2>9. QED
    BY <2>5, <2>6, <2>7, <2>8 DEF AskedInv
<1>5. QED BY <1>3, <1>4

\* A step that keeps every pid keeps the pids apart and a pending kill asked.
LEMMA PidsKept ==
    ASSUME TypeOK, AskedInv, asked \subseteq asked', kill' \in {kill, None},
           \A u \in Workers : procs'[u].pid = procs[u].pid
    PROVE  PidsApart' /\ KillAsked'
BY DEF TypeOK, AskedInv, PidsApart, KillAsked

\* Terminate, called for a run that was asked for.
LEMMA TerminateAsked ==
    ASSUME TypeOK, AskedInv, asked \subseteq asked',
           NEW v \in Workers, v \in asked', Terminate(v),
           pc' = pc, run' = run, rows' = rows
    PROVE  /\ \A u \in Workers : AskedAt(u)'
           /\ \A u \in Workers : procs'[u].pid = procs[u].pid
<1>1. procs \in [Workers -> Proc]
  BY DEF TypeOK
<1>2. \A u \in Workers \ {v} : procs'[u] = procs[u]
  BY <1>1 DEF Terminate
<1>3. procs'[v] = [procs[v] EXCEPT !.term = TRUE]
  BY <1>1 DEF Terminate
<1>4. procs'[v].pid = procs[v].pid /\ procs'[v].code = procs[v].code
  BY ONLY <1>1, <1>3 DEF Proc
<1>5. AskedAt(v)'
  BY <1>4 DEF AskedInv, AskedAt
<1>6. \A u \in Workers \ {v} : AskedAt(u)'
  BY <1>2, AskedFrame DEF AskedInv
<1>7. QED
  BY <1>2, <1>4, <1>5, <1>6

LEMMA ApiAsked ==
    ASSUME TypeOK, AskedInv,
           \/ \E j \in Jobs : ToggleJob(j) \/ DeleteJob(j)
           \/ \E w \in Workers : CancelTracked(w) \/ CancelLookup(w)
           \/ CancelKill
    PROVE  AskedInv'
<1>1. asked \subseteq Workers /\ \A u \in Workers : AskedAt(u)
  BY DEF TypeOK, AskedInv
<1>2. ASSUME NEW j \in Jobs, ToggleJob(j)
      PROVE  AskedInv'
  BY <1>2 DEF ToggleJob, AskedInv, PidsApart, KillAsked, AskedAt
<1>3. ASSUME NEW j \in Jobs, DeleteJob(j)
      PROVE  AskedInv'
  <2>1. /\ pc' = pc /\ run' = run /\ asked' = asked /\ kill' = kill
        /\ procs' = procs
        /\ \A u \in Workers : \/ rows'[u] = rows[u]
                              \/ /\ rows'[u].status = "gone"
                                 /\ rows'[u].pid = None
    BY <1>3, DeleteEffect
  <2>2. QED
    BY <2>1 DEF AskedInv, PidsApart, KillAsked, AskedAt
<1>4. ASSUME NEW w \in Workers, CancelTracked(w)
      PROVE  AskedInv'
  <2>1. /\ asked' = asked \union {w} /\ kill' = kill
        /\ pc' = pc /\ run' = run /\ rows' = rows
        /\ Terminate(w) \/ procs' = procs
    BY <1>4 DEF CancelTracked
  <2>2. CASE Terminate(w)
    BY <2>1, <2>2, TerminateAsked, PidsKept DEF AskedInv
  <2>3. CASE procs' = procs
    BY <1>1, <2>1, <2>3, AskedFrame, PidsKept DEF AskedInv
  <2>4. QED BY <2>1, <2>2, <2>3
<1>5. ASSUME NEW w \in Workers, CancelLookup(w)
      PROVE  AskedInv'
  <2>1. /\ asked' = asked \union {w} /\ kill' = rows[w].pid
        /\ rows[w].pid # None
        /\ pc' = pc /\ run' = run /\ rows' = rows /\ procs' = procs
    BY <1>5 DEF CancelLookup
  <2>2. kill' = procs[w].pid
    BY <1>1, <2>1 DEF AskedAt
  <2>3. KillAsked'
    BY <2>1, <2>2 DEF KillAsked
  <2>4. PidsApart'
    BY <2>1 DEF AskedInv, PidsApart
  <2>5. \A u \in Workers : AskedAt(u)'
    BY <1>1, <2>1, AskedFrame
  <2>6. QED
    BY <2>3, <2>4, <2>5 DEF AskedInv
<1>6. CASE CancelKill
  <2>1. /\ kill # None /\ kill' = None /\ asked' = asked
        /\ pc' = pc /\ run' = run /\ rows' = rows
    BY <1>6 DEF CancelKill
  <2>2. PICK w \in asked : procs[w].pid = kill
    BY <2>1 DEF AskedInv, KillAsked
  <2>3. ASSUME NEW v \in Workers, procs[v].pid = kill, Terminate(v)
        PROVE  AskedInv'
    <3>1. v = w
      BY <1>1, <2>1, <2>2, <2>3 DEF AskedInv, PidsApart
    <3>2. QED
      BY <2>1, <2>2, <2>3, <3>1, TerminateAsked, PidsKept DEF AskedInv
  <2>4. CASE procs' = procs
    BY <1>1, <2>1, <2>4, AskedFrame, PidsKept DEF AskedInv
  <2>5. QED
    BY <1>6, <2>3, <2>4 DEF CancelKill
<1>7. QED
  BY <1>2, <1>3, <1>4, <1>5, <1>6

LEMMA SystemAsked ==
    ASSUME TypeOK, AskedInv, System
    PROVE  AskedInv'
<1>1. /\ procs \in [Workers -> Proc] /\ asked \subseteq Workers
      /\ \A u \in Workers : AskedAt(u)
  BY DEF TypeOK, AskedInv
<1>2. run' = run /\ rows' = rows /\ asked' = asked
  BY DEF System, ProcExit, CloseOut, Crash, jobVars, viewVars
<1>3. ASSUME NEW u \in Workers
      PROVE  /\ procs'[u].pid = procs[u].pid /\ procs'[u].term = procs[u].term
             /\ procs'[u].code = "sigterm"
                    => procs[u].code = "sigterm" \/ procs[u].term
  <2>1. ASSUME NEW w \in Workers, ProcExit(w), u = w
        PROVE  /\ procs'[u].pid = procs[u].pid
               /\ procs'[u].term = procs[u].term
               /\ procs'[u].code = "sigterm" => procs[u].term
    <3>1. PICK code \in {"ok", "error"} \union
                        (IF procs[w].term THEN {"sigterm"} ELSE {}) :
              procs' = [procs EXCEPT ![w] =
                         [@ EXCEPT !.code = code,
                                   !.state = IF pc[w] = "dead" THEN "reaped"
                                                               ELSE "zombie"]]
      BY <2>1 DEF ProcExit
    <3> DEFINE state == IF pc[w] = "dead" THEN "reaped" ELSE "zombie"
    <3>2. procs'[w] = [procs[w] EXCEPT !.code = code, !.state = state]
      BY <1>1, <3>1
    <3> HIDE DEF state
    <3>3. /\ procs'[w].pid = procs[w].pid /\ procs'[w].term = procs[w].term
          /\ procs'[w].code = code
      BY ONLY <1>1, <3>2 DEF Proc
    <3>4. code = "sigterm" => procs[w].term
      BY <3>1
    <3>5. QED
      BY <2>1, <3>3, <3>4
  <2>2. ASSUME NEW w \in Workers, CloseOut(w), u = w
        PROVE  /\ procs'[u].pid = procs[u].pid
               /\ procs'[u].term = procs[u].term
               /\ procs'[u].code = procs[u].code
    <3>1. procs'[w] = [procs[w] EXCEPT !.out = FALSE]
      BY <1>1, <2>2 DEF CloseOut
    <3>2. QED
      BY ONLY <1>1, <2>2, <3>1 DEF Proc
  <2>3. ASSUME NEW w \in Workers, ProcExit(w) \/ CloseOut(w), u # w
        PROVE  procs'[u] = procs[u]
    BY <1>1, <2>3 DEF ProcExit, CloseOut
  <2>4. CASE Crash
    <3>1. \/ procs'[u] = procs[u]
          \/ procs'[u] = [procs[u] EXCEPT !.state = "reaped"]
      BY <2>4 DEF Crash
    <3>2. QED
      BY ONLY <1>1, <3>1 DEF Proc
  <2>5. QED
    BY <2>1, <2>2, <2>3, <2>4 DEF System
<1>4. \A u \in Workers : pc'[u] \in Unlaunched => pc[u] \in Unlaunched
  BY DEF System, ProcExit, CloseOut, Crash, Unlaunched
<1>5. \A u \in Workers : AskedAt(u)'
  BY <1>1, <1>2, <1>3, <1>4 DEF AskedAt
<1>6. kill' \in {kill, None}
  BY DEF System, ProcExit, CloseOut, Crash, jobVars
<1>7. QED
  BY <1>2, <1>3, <1>5, <1>6, PidsKept DEF AskedInv

LEMMA AskedInvNext ==
    ASSUME "reuse" \notin Env
    PROVE  TypeOK /\ AskedInv /\ [Next]_vars => AskedInv'
<1> SUFFICES ASSUME TypeOK, AskedInv, [Next]_vars
             PROVE  AskedInv'
  OBVIOUS
<1>1. \A u \in Workers : AskedAt(u)
  BY DEF AskedInv
<1>2. ASSUME NEW w \in Workers, Thread(w) \/ Disturb(w),
             ~ \E j \in Jobs : Fanout(w, j), ~Launch(w)
      PROVE  AskedInv'
  <2>1. /\ AskedAt(w)' /\ procs'[w].pid = procs[w].pid
        /\ asked' = asked /\ kill' = kill
    BY <1>2, ThreadAsked, ThreadRowsFrame DEF RowsFrame
  <2>2. \A u \in Workers \ {w} :
            /\ pc'[u] = pc[u] /\ run'[u] = run[u] /\ rows'[u] = rows[u]
            /\ procs'[u] = procs[u]
    BY <1>2, ThreadFrame, ThreadRowsFrame DEF Frame, RowsFrame
  <2>3. \A u \in Workers : AskedAt(u)'
    BY <1>1, <2>1, <2>2, AskedFrame
  <2>4. QED
    BY <2>1, <2>2, <2>3, PidsKept DEF AskedInv
<1>3. ASSUME NEW w \in Workers, Launch(w)
      PROVE  AskedInv'
  BY <1>3, LaunchAsked
<1>4. ASSUME NEW w \in Workers, NEW j \in Jobs, Fanout(w, j)
      PROVE  AskedInv'
  <2>1. /\ rows' = rows /\ procs' = procs /\ asked' = asked /\ kill' = kill
        /\ \A u \in Workers : run'[u].verdict = run[u].verdict
        /\ \A u \in Workers : pc'[u] \in Unlaunched => pc[u] \in Unlaunched
    BY <1>4, FanoutEffect DEF Unlaunched
  <2>2. \A u \in Workers : AskedAt(u)'
    BY <1>1, <2>1, AskedFrame
  <2>3. QED
    BY <2>1, <2>2, PidsKept DEF AskedInv
<1>5. ASSUME NEW w \in Workers, NEW j \in Jobs,
             CronFire(w, j) \/ TriggerNow(w, j) \/ TriggerFails(w, j)
      PROVE  AskedInv'
  <2>1. /\ procs' = procs /\ asked' = asked /\ kill' = kill
        /\ \A u \in Workers : run'[u].verdict = run[u].verdict
        /\ \A u \in Workers \ {w} : pc'[u] = pc[u] /\ rows'[u] = rows[u]
        /\ pc[w] = "unused"
        /\ \/ rows' = rows
           \/ rows'[w] = [job |-> j, status |-> "running", pid |-> None]
    BY <1>5, StartEffect
  <2>2. \A u \in Workers \ {w} : AskedAt(u)'
    BY <1>1, <2>1, AskedFrame
  <2>3. AskedAt(w)'
    BY <1>1, <2>1 DEF AskedAt, Unlaunched
  <2>4. QED
    BY <2>1, <2>2, <2>3, PidsKept DEF AskedInv
<1>6. CASE \/ \E j \in Jobs : ToggleJob(j) \/ DeleteJob(j)
           \/ \E w \in Workers : CancelTracked(w) \/ CancelLookup(w)
           \/ CancelKill
  BY <1>6, ApiAsked
<1>7. CASE System
  BY <1>7, SystemAsked
<1>8. CASE UNCHANGED vars
  BY <1>8 DEF vars, AskedInv, PidsApart, KillAsked, AskedAt
<1>9. QED
  BY <1>2, <1>3, <1>4, <1>5, <1>6, <1>7, <1>8 DEF Next, Api

\* As long as the system gives no pid twice, a run is recorded as cancelled
\* only if that run was asked to be cancelled, through the table or through
\* the pid of its row, whatever fails and however often the server dies.
THEOREM CancelHolds ==
    ASSUME "reuse" \notin Env
    PROVE  Spec => []CancelledWasAsked
<1>1. Init => TypeOK /\ AskedInv
  BY InitType, AskedInvInit
<1>2. (TypeOK /\ AskedInv) /\ [Next]_vars => (TypeOK /\ AskedInv)'
  BY NextType, AskedInvNext
<1>3. AskedInv => CancelledWasAsked
  BY DEF AskedInv, AskedAt, CancelledWasAsked
<1>4. QED
  BY <1>1, <1>2, <1>3, PTL DEF Spec

-----------------------------------------------------------------------------
(* Every slot comes back *)

\* Nothing can keep a run from evaluating execution.id in the finally block.
KeptAt(w) ==
    rows[w].status # "gone" /\ run[w].orm # "broken" /\ pc[w] # "leaked"

KeptInv == \A w \in Workers : KeptAt(w)

LEMMA ThreadKept ==
    ASSUME TypeOK, KeptInv, "db" \notin Env,
           NEW w \in Workers, Thread(w) \/ Disturb(w),
           ~ \E j \in Jobs : Fanout(w, j)
    PROVE  KeptAt(w)'
<1>1. /\ KeptAt(w) /\ rows[w] \in Row /\ run[w] \in Run
      /\ rows \in [Workers -> Row] /\ run \in [Workers -> Run]
      /\ run[w].orm \in Orms \ {"broken"}
  BY DEF KeptInv, KeptAt, TypeOK, Run, Orms
<1>2. rows'[w].status # "gone"
  <2>1. CASE OpenExecution(w)
    <3>1. CASE rows' = rows
      BY <1>1, <3>1 DEF KeptAt
    <3>2. CASE CreateRow(w, run[w].job)
      <4>1. rows'[w] = [job |-> run[w].job, status |-> "running",
                        pid |-> None]
        BY <3>2, CreateEffect
      <4>2. QED
        BY <4>1
    <3>3. QED
      BY <2>1, <3>1, <3>2 DEF OpenExecution
  <2>2. CASE CommitPid(w)
    <3>1. rows' = rows \/ rows'[w] = [rows[w] EXCEPT !.pid = procs[w].pid]
      BY <1>1, <2>2 DEF CommitPid
    <3>2. QED
      BY <1>1, <3>1 DEF KeptAt, Row
  <2>3. CASE CommitRow(w)
    <3>1. \/ rows' = rows
          \/ rows'[w] = [rows[w] EXCEPT !.pid = None,
                                        !.status = Status(run[w].verdict)]
      BY <1>1, <2>3 DEF CommitRow
    <3>2. Status(run[w].verdict) # "gone"
      BY DEF Status
    <3>3. QED
      BY <1>1, <3>1, <3>2 DEF KeptAt, Row
  <2>4. CASE ~OpenExecution(w) /\ ~CommitPid(w) /\ ~CommitRow(w)
    <3>1. rows' = rows
      BY <2>4
      DEF Thread, Disturb, Acquire, LoadJob, CheckDeps, Track, StorePid,
          EndOfOutput, ReadError, ReadLine, Launch, SpawnFails, Reap, Timeout,
          Untrack, SelectRow, RefreshRow, Notify, QueryDependents, Close,
          Finally, ThreadFails, DbError
    <3>2. QED
      BY <1>1, <3>1 DEF KeptAt
  <2>5. QED BY <2>1, <2>2, <2>3, <2>4
<1>3. run'[w].orm # "broken"
  <2>1. \/ run' = run
        \/ \E o \in {"fresh", "expired"} : run' = [run EXCEPT ![w].orm = o]
        \/ \E v : run' = [run EXCEPT ![w] = [@ EXCEPT !.orm = "fresh",
                                                      !.verdict = v]]
        \/ \E t : run' = [run EXCEPT ![w].todo = t]
        \/ Raise(w, run[w].orm)
        \/ Raise(w, "none")
    <3>1. CASE OpenExecution(w) \/ Launch(w) \/ CommitPid(w) \/ ReadLine(w)
               \/ SelectRow(w) \/ CommitRow(w) \/ RefreshRow(w)
      BY <1>1, <3>1
      DEF OpenExecution, Launch, CommitPid, ReadLine, SelectRow, CommitRow,
          RefreshRow, KeptAt, RowGone
    <3>2. CASE Timeout(w) \/ Untrack(w)
      BY <3>2 DEF Timeout, Untrack
    <3>3. CASE Notify(w) \/ QueryDependents(w) \/ Close(w) \/ ThreadFails(w)
               \/ SpawnFails(w)
      BY <3>3 DEF Notify, QueryDependents, Close, ThreadFails, SpawnFails
    <3>4. CASE Acquire(w) \/ LoadJob(w) \/ CheckDeps(w) \/ Track(w)
               \/ StorePid(w) \/ EndOfOutput(w) \/ ReadError(w) \/ Reap(w)
               \/ Finally(w)
      BY <3>4
      DEF Acquire, LoadJob, CheckDeps, Track, StorePid, EndOfOutput, ReadError,
          Reap, Finally
    <3>5. QED
      BY <3>1, <3>2, <3>3, <3>4 DEF Thread, Disturb, DbError
  <2>2. ASSUME NEW o \in {"fresh", "expired"}, run' = [run EXCEPT ![w].orm = o]
        PROVE  run'[w].orm # "broken"
    BY <2>2, OrmEffect
  <2>3. ASSUME NEW v, run' = [run EXCEPT ![w] = [@ EXCEPT !.orm = "fresh",
                                                          !.verdict = v]]
        PROVE  run'[w].orm # "broken"
    <3>1. run'[w].orm = "fresh"
      BY <2>3, VerdictEffect
    <3>2. QED
      BY <3>1
  <2>4. ASSUME NEW t, run' = [run EXCEPT ![w].todo = t]
        PROVE  run'[w].orm # "broken"
    BY <1>1, <2>4, TodoEffect DEF KeptAt
  <2>5. ASSUME Raise(w, run[w].orm) \/ Raise(w, "none")
        PROVE  run'[w].orm # "broken"
    BY <1>1, <2>5, RaiseEffect DEF KeptAt
  <2>6. CASE run' = run
    BY <1>1, <2>6 DEF KeptAt
  <2>7. QED
    BY <2>1, <2>2, <2>3, <2>4, <2>5, <2>6
<1>4. pc'[w] # "leaked"
  <2>1. CASE Finally(w)
    <3>1. run[w].orm = "none" \/ IdReadable(w)
      BY <1>1 DEF KeptAt, IdReadable, RowGone, Orms
    <3>2. QED
      BY <2>1, <3>1 DEF Finally, IdFails, Goto, TypeOK
  <2>2. CASE Acquire(w) \/ LoadJob(w) \/ CheckDeps(w) \/ Track(w)
             \/ StorePid(w) \/ EndOfOutput(w) \/ ReadError(w) \/ ReadLine(w)
             \/ Reap(w) \/ QueryDependents(w) \/ Close(w)
    BY <2>2
    DEF TypeOK, Goto, Acquire, LoadJob, CheckDeps, Track, StorePid,
        EndOfOutput, ReadError, ReadLine, Reap, QueryDependents, Close
  <2>3. CASE OpenExecution(w) \/ Launch(w) \/ CommitPid(w) \/ SpawnFails(w)
             \/ Timeout(w) \/ Untrack(w)
    BY <2>3, RaiseFrame
    DEF TypeOK, Goto, OpenExecution, Launch, CommitPid, SpawnFails, Timeout,
        Untrack
  <2>4. CASE SelectRow(w) \/ CommitRow(w) \/ RefreshRow(w)
    BY <2>4, RaiseFrame DEF TypeOK, Goto, SelectRow, CommitRow, RefreshRow
  <2>5. CASE Notify(w)
    <3>1. pc'[w] \in {"finally", "close", "select", "dependents"}
      BY <2>5, RaiseFrame DEF TypeOK, Goto, Notify
    <3>2. QED
      BY <3>1
  <2>6. CASE ThreadFails(w)
    BY <2>6, RaiseFrame DEF ThreadFails
  <2>7. QED
    BY <2>1, <2>2, <2>3, <2>4, <2>5, <2>6 DEF Thread, Disturb, DbError
<1>5. QED
  BY <1>2, <1>3, <1>4 DEF KeptAt

LEMMA KeptInvInit == Init => KeptInv
BY DEF Init, KeptInv, KeptAt

LEMMA KeptInvNext ==
    ASSUME "db" \notin Env, "delete" \notin Env
    PROVE  TypeOK /\ KeptInv /\ [Next]_vars => KeptInv'
<1> SUFFICES ASSUME TypeOK, KeptInv, [Next]_vars, NEW u \in Workers
             PROVE  KeptAt(u)'
  BY DEF KeptInv
<1>1. KeptAt(u)
  BY DEF KeptInv
<1>2. ASSUME NEW w \in Workers, Thread(w) \/ Disturb(w),
             ~ \E j \in Jobs : Fanout(w, j)
      PROVE  KeptAt(u)'
  <2>1. CASE u = w
    BY <1>2, <2>1, ThreadKept
  <2>2. CASE u # w
    BY <1>1, <1>2, <2>2, ThreadFrame, ThreadRowsFrame
    DEF Frame, RowsFrame, KeptAt
  <2>3. QED BY <2>1, <2>2
<1>3. ASSUME NEW w \in Workers, NEW j \in Jobs, Fanout(w, j)
      PROVE  KeptAt(u)'
  <2>1. /\ rows' = rows /\ run'[u].orm = run[u].orm
        /\ pc'[u] \in {pc[u], "waiting", "fanout", "close"}
    BY <1>3, FanoutEffect
  <2>2. QED
    BY <1>1, <2>1 DEF KeptAt
<1>4. ASSUME NEW w \in Workers, NEW j \in Jobs,
             CronFire(w, j) \/ TriggerNow(w, j) \/ TriggerFails(w, j)
      PROVE  KeptAt(u)'
  <2>1. /\ run'[u].orm = run[u].orm
        /\ pc'[u] \in {pc[u], "waiting", "dead"}
        /\ \/ rows'[u] = rows[u]
           \/ rows'[u] = [job |-> j, status |-> "running", pid |-> None]
    BY <1>4, StartEffect
  <2>2. rows'[u].status \in {rows[u].status, "running"}
    BY <2>1
  <2>3. QED
    BY <1>1, <2>1, <2>2 DEF KeptAt
<1>5. CASE \/ \E j \in Jobs : ToggleJob(j)
           \/ \E w \in Workers : CancelTracked(w) \/ CancelLookup(w)
           \/ CancelKill
           \/ \E w \in Workers : ProcExit(w) \/ CloseOut(w)
           \/ Crash
           \/ UNCHANGED vars
  <2>1. run' = run /\ rows' = rows /\ pc'[u] \in {pc[u], "dead"}
    BY <1>5, OtherEffect
  <2>2. QED
    BY <1>1, <2>1 DEF KeptAt
<1>6. QED
  BY <1>2, <1>3, <1>4, <1>5 DEF Next, Api, System, DeleteJob

\* With no job deleted and no statement failing, every way through
\* _execute_job gives its slot back: when no thread runs, all are free.
THEOREM SlotsComeBack ==
    ASSUME "db" \notin Env, "delete" \notin Env
    PROVE  Spec => []SlotsReturned
<1>1. Init => TypeOK /\ PoolInv /\ KeptInv
  BY InitType, PoolInvInit, KeptInvInit
<1>2. (TypeOK /\ PoolInv /\ KeptInv) /\ [Next]_vars
          => (TypeOK /\ PoolInv /\ KeptInv)'
  BY NextType, PoolInvNext, KeptInvNext
<1>3. TypeOK /\ PoolInv /\ KeptInv => SlotsReturned
  <2> SUFFICES ASSUME TypeOK, PoolInv, KeptInv,
                      \A w \in Workers : pc[w] \in Ended
               PROVE  slots = MaxConcurrent
    BY DEF SlotsReturned
  <2>1. Holders = {}
    BY DEF Holders, Body, Ended, KeptInv, KeptAt
  <2>2. Cardinality(Holders) = 0
    BY <2>1, FS_EmptySet
  <2>3. QED
    BY <2>2, ExecutorAssumption DEF PoolInv, SlotsAccounted, TypeOK
<1>4. QED
  BY <1>1, <1>2, <1>3, PTL DEF Spec

\* With no job deleted and no statement failing, the table names runs in
\* progress and nothing else.
THEOREM TableExact ==
    ASSUME "db" \notin Env, "delete" \notin Env
    PROVE  Spec => [](\A w \in table : pc[w] \in Body)
<1> DEFINE Exact == \A w \in table : pc[w] \in Body
<1>1. Init => TypeOK /\ TableInv /\ KeptInv
  BY InitType, KeptInvInit DEF Init, TableInv, TableAt
<1>2. (TypeOK /\ TableInv /\ KeptInv) /\ [Next]_vars
          => (TypeOK /\ TableInv /\ KeptInv)'
  BY NextType, TableInvNext, KeptInvNext
<1>3. TypeOK /\ TableInv /\ KeptInv => Exact
  BY DEF TypeOK, TableInv, TableAt, KeptInv, KeptAt
<1> HIDE DEF Exact
<1>4. Spec => []Exact
  BY <1>1, <1>2, <1>3, PTL DEF Spec
<1>5. QED
  BY <1>4 DEF Exact

-----------------------------------------------------------------------------
(* A run nobody triggered by hand comes after its dependencies *)

\* A non-empty set of indices has a greatest one.
LEMMA GreatestIndex ==
    ASSUME NEW n \in Nat, NEW S \in SUBSET (1..n), S # {}
    PROVE  \E i \in S : \A k \in S : k <= i
<1> DEFINE T == {m \in Nat : n - m \in S}
<1>1. T # {}
  <2>1. PICK i \in S : TRUE
    OBVIOUS
  <2>2. n - i \in Nat /\ n - (n - i) = i
    OBVIOUS
  <2>3. QED
    BY <2>1, <2>2
<1>2. PICK m \in T : \A k \in T : m <= k
  <2>1. T \subseteq Nat
    OBVIOUS
  <2> HIDE DEF T
  <2>2. PICK m \in T : \A k \in T : ~(<<k, m>> \in OpToRel(<, Nat))
    BY <1>1, <2>1, WFMin, NatLessThanWellFounded
  <2>3. \A k \in T : k < m => <<k, m>> \in OpToRel(<, Nat)
    BY <2>1 DEF OpToRel
  <2>4. ASSUME NEW k \in T
        PROVE  m <= k
    <3>1. k \in Nat /\ m \in Nat /\ ~(k < m)
      BY <2>1, <2>2, <2>3
    <3>2. QED
      BY <3>1
  <2>5. QED
    BY <2>4
<1>3. ASSUME NEW k \in S
      PROVE  k <= n - m
  <2>1. n - k \in T
    OBVIOUS
  <2>2. QED
    BY <1>2, <2>1
<1>4. QED
  BY <1>2, <1>3

\* A dependency that is met has a successful row in the table.
LEMMA MetHasSuccess ==
    ASSUME TypeOK, NEW j \in Jobs, DepsMet(j), NEW d \in DependsOn[j]
    PROVE  \E i \in DOMAIN order : /\ rows[order[i]].job = d
                                  /\ rows[order[i]].status = "success"
<1> DEFINE mine == {i \in DOMAIN order : rows[order[i]].job = d
                                         /\ ~RowGone(order[i])}
<1>1. LatestOf(d) # None /\ rows[LatestOf(d)].status = "success"
  BY DEF DepsMet
<1>2. mine # {}
  BY <1>1 DEF LatestOf
<1>3. Len(order) \in Nat /\ DOMAIN order = 1..Len(order)
  BY DEF TypeOK
<1>4. mine \in SUBSET (1..Len(order))
  BY <1>3
<1>5. \E i \in mine : \A k \in mine : k <= i
  <2> HIDE DEF mine
  <2>1. QED
    BY <1>2, <1>3, <1>4, GreatestIndex
<1>6. LatestOf(d) = order[CHOOSE i \in mine : \A k \in mine : k <= i]
  BY <1>2 DEF LatestOf
<1>7. PICK i \in mine : LatestOf(d) = order[i]
  BY <1>5, <1>6
<1>8. QED
  BY <1>1, <1>7

\* A dependency has succeeded, or had and is deleted by now.
Supported(d) ==
    \E i \in DOMAIN order : /\ rows[order[i]].job = d
                            /\ rows[order[i]].status \in {"success", "gone"}

\* A run past its dependency check still has the support it found.
DepsAt(w) ==
    /\ pc[w] = "open" /\ ~run[w].pre
           => \A d \in DependsOn[run[w].job] : Supported(d)
    /\ rows[w].job # None /\ ~run[w].pre
           => \A d \in DependsOn[rows[w].job] : \E v \in Workers :
                 /\ rows[v].job = d
                 /\ rows[v].status \in {"success", "gone"}
                 /\ Precedes(v, w)

DepsInv == \A w \in Workers : DepsAt(w)

\* What no step undoes: a row keeps its job, a success stays one until it is
\* deleted, and the order of the rows only grows at its end.
Persists ==
    /\ \A v \in Workers :
           rows[v].status \in {"success", "gone"}
               => /\ rows'[v].job = rows[v].job
                  /\ rows'[v].status \in {"success", "gone"}
    /\ order' = order \/ \E w \in Workers : order' = Append(order, w)

LEMMA OrderGrows ==
    ASSUME TypeOK, Persists
    PROVE  /\ DOMAIN order \subseteq DOMAIN order'
           /\ \A i \in DOMAIN order : order'[i] = order[i] /\ order[i] \in Workers
<1>1. order \in Seq(Workers)
  BY DEF TypeOK
<1>2. QED
  BY <1>1 DEF Persists

LEMMA SupportPersists ==
    ASSUME TypeOK, Persists, NEW d, Supported(d)
    PROVE  Supported(d)'
<1>1. PICK i \in DOMAIN order : /\ rows[order[i]].job = d
                               /\ rows[order[i]].status \in {"success", "gone"}
  BY DEF Supported
<1>2. order[i] \in Workers /\ i \in DOMAIN order' /\ order'[i] = order[i]
  BY OrderGrows
<1>3. /\ rows'[order[i]].job = d
      /\ rows'[order[i]].status \in {"success", "gone"}
  BY <1>1, <1>2 DEF Persists
<1>4. QED
  BY <1>2, <1>3 DEF Supported

LEMMA PrecedesPersists ==
    ASSUME TypeOK, Persists, NEW v, NEW w, Precedes(v, w)
    PROVE  Precedes(v, w)'
BY OrderGrows DEF Precedes

\* A worker that gets no row and does not pass the check keeps its clause.
LEMMA DepsFrame ==
    ASSUME TypeOK, Persists, NEW u \in Workers, DepsAt(u),
           rows'[u].job = rows[u].job,
           rows[u].job # None => run'[u].pre = run[u].pre,
           pc'[u] = "open" => /\ pc[u] = "open"
                              /\ run'[u].job = run[u].job
                              /\ run'[u].pre = run[u].pre
    PROVE  DepsAt(u)'
<1>1. pc'[u] = "open" /\ ~run'[u].pre
          => \A d \in DependsOn[run'[u].job] : Supported(d)'
  BY SupportPersists DEF DepsAt
<1>2. ASSUME rows'[u].job # None, ~run'[u].pre, NEW d \in DependsOn[rows'[u].job]
      PROVE  \E v \in Workers : /\ rows'[v].job = d
                               /\ rows'[v].status \in {"success", "gone"}
                               /\ Precedes(v, u)'
  <2>1. PICK v \in Workers : /\ rows[v].job = d
                            /\ rows[v].status \in {"success", "gone"}
                            /\ Precedes(v, u)
    BY <1>2 DEF DepsAt
  <2>2. QED
    BY <2>1, PrecedesPersists DEF Persists
<1>3. QED
  BY <1>1, <1>2 DEF DepsAt

\* A row keeps its job, and a deleted one stays deleted.
LEMMA RowsPersist ==
    ASSUME TypeOK, RowInv, [Next]_vars, NEW u \in Workers, rows[u].job # None
    PROVE  /\ rows'[u].job = rows[u].job
           /\ rows[u].status = "gone" => rows'[u].status = "gone"
<1>1. /\ RowAt(u) /\ Deletion(u) /\ rows[u] \in Row
      /\ rows \in [Workers -> Row]
  BY DEF RowInv, TypeOK
<1>2. ASSUME NEW w \in Workers, Thread(w) \/ Disturb(w)
      PROVE  /\ rows'[u].job = rows[u].job
             /\ rows[u].status = "gone" => rows'[u].status = "gone"
  <2>1. CASE u # w
    BY <1>2, <2>1, ThreadRowsFrame DEF RowsFrame
  <2>2. CASE u = w /\ OpenExecution(w)
    <3>1. pc[u] = "open" /\ (rows' = rows \/ ~run[u].pre)
      BY <2>2 DEF OpenExecution
    <3>2. rows' = rows
      BY <1>1, <3>1 DEF RowAt, Early, Deletion
    <3>3. QED
      BY <3>2
  <2>3. CASE u = w /\ CommitPid(w)
    <3>1. rows' = rows \/ rows' = [rows EXCEPT ![w].pid = procs[w].pid]
      BY <2>3 DEF CommitPid
    <3>2. QED
      BY <1>1, <2>3, <3>1 DEF Row
  <2>4. CASE u = w /\ CommitRow(w)
    <3>1. CASE RowGone(w)
      BY <2>4, <3>1 DEF CommitRow
    <3>2. CASE ~RowGone(w)
      <4>1. rows'[w] = [rows[w] EXCEPT !.pid = None,
                                       !.status = Status(run[w].verdict)]
        BY <1>1, <2>4, <3>2 DEF CommitRow
      <4>2. rows'[w].job = rows[w].job
        BY <1>1, <2>4, <4>1 DEF Row
      <4>3. QED
        BY <2>4, <3>2, <4>2 DEF RowGone
    <3>3. QED BY <3>1, <3>2
  <2>5. CASE /\ u = w
             /\ ~OpenExecution(w) /\ ~CommitPid(w) /\ ~CommitRow(w)
    <3>1. rows' = rows
      BY <1>2, <2>5
      DEF Thread, Disturb, Acquire, LoadJob, CheckDeps, Track, StorePid,
          EndOfOutput, ReadError, ReadLine, Launch, SpawnFails, Reap, Timeout,
          Untrack, SelectRow, RefreshRow, Notify, QueryDependents, Fanout,
          Close, Finally, ThreadFails, DbError
    <3>2. QED
      BY <3>1
  <2>6. QED
    BY <2>1, <2>2, <2>3, <2>4, <2>5
<1>3. ASSUME NEW w \in Workers, NEW j \in Jobs,
             CronFire(w, j) \/ TriggerNow(w, j) \/ TriggerFails(w, j)
      PROVE  rows'[u] = rows[u]
  BY <1>1, <1>3, StartEffect DEF RowAt, Deletion
<1>4. ASSUME NEW j \in Jobs, DeleteJob(j)
      PROVE  /\ rows'[u].job = rows[u].job
             /\ rows[u].status = "gone" => rows'[u].status = "gone"
  BY <1>4, DeleteEffect
<1>5. CASE \/ \E j \in Jobs : ToggleJob(j)
           \/ \E w \in Workers : CancelTracked(w) \/ CancelLookup(w)
           \/ CancelKill
           \/ \E w \in Workers : ProcExit(w) \/ CloseOut(w)
           \/ Crash
           \/ UNCHANGED vars
  BY <1>5, OtherEffect
<1>6. QED
  BY <1>2, <1>3, <1>4, <1>5 DEF Next, Api, System

LEMMA OrderStep ==
    ASSUME TypeOK, [Next]_vars
    PROVE  order' = order \/ \E w \in Workers : order' = Append(order, w)
<1>1. ASSUME NEW w \in Workers, Thread(w) \/ Disturb(w)
      PROVE  order' = order \/ order' = Append(order, w)
  <2>1. CASE OpenExecution(w)
    BY <2>1 DEF OpenExecution, CreateRow
  <2>2. CASE ~OpenExecution(w)
    BY <1>1, <2>2
    DEF Thread, Disturb, Acquire, LoadJob, CheckDeps, Track, StorePid,
        CommitPid, EndOfOutput, ReadError, ReadLine, Launch, SpawnFails, Reap,
        Timeout, Untrack, SelectRow, CommitRow, RefreshRow, Notify,
        QueryDependents, Fanout, Close, Finally, ThreadFails, DbError
  <2>3. QED BY <2>1, <2>2
<1>2. ASSUME NEW w \in Workers, NEW j \in Jobs,
             CronFire(w, j) \/ TriggerNow(w, j) \/ TriggerFails(w, j)
      PROVE  order' = order \/ order' = Append(order, w)
  BY <1>2, StartEffect
<1>3. ASSUME NEW j \in Jobs, DeleteJob(j)
      PROVE  order' = order
  BY <1>3, DeleteEffect
<1>4. CASE \/ \E j \in Jobs : ToggleJob(j)
           \/ \E w \in Workers : CancelTracked(w) \/ CancelLookup(w)
           \/ CancelKill
           \/ \E w \in Workers : ProcExit(w) \/ CloseOut(w)
           \/ Crash
           \/ UNCHANGED vars
  BY <1>4, OtherEffect
<1>5. QED
  BY <1>1, <1>2, <1>3, <1>4 DEF Next, Api, System

LEMMA StepPersists ==
    ASSUME "db" \notin Env, "thread" \notin Env,
           TypeOK, RowInv, ToldInv, [Next]_vars
    PROVE  Persists
<1>1. ASSUME NEW v \in Workers, rows[v].status \in {"success", "gone"}
      PROVE  /\ rows'[v].job = rows[v].job
             /\ rows'[v].status \in {"success", "gone"}
  <2>1. rows[v].job # None
    BY <1>1 DEF RowInv, Deletion
  <2>2. rows[v].status = "success" => rows'[v].status \in {"success", "gone"}
    BY FinalStep DEF Terminal
  <2>3. QED
    BY <1>1, <2>1, <2>2, RowsPersist
<1>2. QED
  BY <1>1, OrderStep DEF Persists

\* The check passes with every dependency supported.
LEMMA CheckDepsStep ==
    ASSUME TypeOK, RowInv, DepsInv, Persists, NEW w \in Workers, CheckDeps(w)
    PROVE  DepsAt(w)'
<1>1. /\ pc[w] = "deps" /\ run' = run /\ rows' = rows
      /\ pc'[w] = "open" => DepsMet(run[w].job)
  BY DEF CheckDeps, Goto, TypeOK
<1>2. run[w].job \in Jobs
  BY <1>1 DEF TypeOK, Run, RowInv, RowAt, Early
<1>3. rows[w].job = None \/ run[w].pre
  BY <1>1 DEF RowInv, RowAt, Deletion, Early
<1>4. ASSUME pc'[w] = "open", NEW d \in DependsOn[run[w].job]
      PROVE  Supported(d)'
  <2>1. Supported(d)
    BY <1>1, <1>2, <1>4, MetHasSuccess DEF Supported
  <2>2. QED
    BY <2>1, SupportPersists
<1>5. QED
  BY <1>1, <1>3, <1>4 DEF DepsAt

\* The new row comes after the rows that supported the run.
LEMMA OpenDepsStep ==
    ASSUME TypeOK, RowInv, DepsInv, Persists,
           NEW w \in Workers, OpenExecution(w)
    PROVE  DepsAt(w)'
<1>1. DepsAt(w) /\ pc[w] = "open" /\ order \in Seq(Workers)
  BY DEF DepsInv, OpenExecution, TypeOK
<1>2. pc'[w] # "open" /\ run'[w].job = run[w].job /\ run'[w].pre = run[w].pre
  <2>1. CASE Deleted(w)
    BY <2>1, RaiseEffect, RaiseFrame DEF OpenExecution
  <2>2. CASE ~Deleted(w)
    <3>1. run'[w].job = run[w].job /\ run'[w].pre = run[w].pre
      BY <2>2, OrmEffect DEF OpenExecution
    <3>2. pc'[w] = "launch"
      BY <2>2 DEF OpenExecution, Goto, TypeOK
    <3>3. QED
      BY <3>1, <3>2
  <2>3. QED BY <2>1, <2>2
<1>3. CASE rows' = rows
  BY <1>1, <1>2, <1>3, DepsFrame
<1>4. CASE ~run[w].pre /\ CreateRow(w, run[w].job)
  <2>1. /\ rows'[w] = [job |-> run[w].job, status |-> "running", pid |-> None]
        /\ order' = Append(order, w)
    BY <1>4, CreateEffect DEF CreateRow
  <2>2. rows'[w].job = run[w].job
    BY <2>1
  <2>3. ASSUME NEW d \in DependsOn[run[w].job]
        PROVE  \E v \in Workers : /\ rows'[v].job = d
                                 /\ rows'[v].status \in {"success", "gone"}
                                 /\ Precedes(v, w)'
    <3>1. PICK i \in DOMAIN order :
              /\ rows[order[i]].job = d
              /\ rows[order[i]].status \in {"success", "gone"}
      BY <1>1, <1>4 DEF DepsAt, Supported
    <3>2. PICK v \in Workers : v = order[i]
      BY <1>1
    <3>3. rows'[v].job = d /\ rows'[v].status \in {"success", "gone"}
      BY <3>1, <3>2 DEF Persists
    <3>4. /\ i \in DOMAIN order' /\ Len(order) + 1 \in DOMAIN order'
          /\ i < Len(order) + 1 /\ order'[i] = v
          /\ order'[Len(order) + 1] = w
      BY <1>1, <2>1, <3>2
    <3>5. Precedes(v, w)'
      BY <3>4 DEF Precedes
    <3>6. QED
      BY <3>3, <3>5
  <2>4. QED
    BY <1>2, <2>2, <2>3 DEF DepsAt
<1>5. QED
  BY <1>3, <1>4 DEF OpenExecution

\* The other steps of a thread: no row is made and no check is passed.
LEMMA ThreadDeps ==
    ASSUME TypeOK, RowInv, DepsInv, Persists,
           NEW w \in Workers, Thread(w) \/ Disturb(w), [Next]_vars,
           ~ \E j \in Jobs : Fanout(w, j)
    PROVE  DepsAt(w)'
<1>1. /\ DepsAt(w) /\ RowAt(w) /\ Deletion(w)
      /\ run \in [Workers -> Run] /\ rows \in [Workers -> Row]
      /\ rows[w] \in Row
  BY DEF DepsInv, RowInv, TypeOK
<1>2. CASE CheckDeps(w)
  BY <1>2, CheckDepsStep
<1>3. CASE OpenExecution(w)
  BY <1>3, OpenDepsStep
<1>4. CASE LoadJob(w)
  <2>1. /\ pc[w] = "load" /\ run' = run /\ rows' = rows
        /\ pc'[w] = "open" => run[w].pre
    BY <1>4 DEF LoadJob, Goto, TypeOK
  <2>2. rows[w].job = None \/ run[w].pre
    BY <1>1, <2>1 DEF RowAt, Deletion, Early
  <2>3. QED
    BY <2>1, <2>2 DEF DepsAt
<1>5. CASE ~CheckDeps(w) /\ ~OpenExecution(w) /\ ~LoadJob(w)
  <2>1. pc'[w] # "open"
    <3>1. CASE Acquire(w) \/ Track(w) \/ StorePid(w)
               \/ EndOfOutput(w) \/ ReadError(w) \/ ReadLine(w) \/ Reap(w)
               \/ QueryDependents(w) \/ Close(w) \/ Finally(w)
      BY <3>1
      DEF TypeOK, Goto, Acquire, Track, StorePid, EndOfOutput, ReadError,
          ReadLine, Reap, QueryDependents, Close, Finally
    <3>2. CASE Launch(w) \/ CommitPid(w) \/ SpawnFails(w) \/ Timeout(w)
               \/ Untrack(w)
      BY <3>2, RaiseFrame
      DEF TypeOK, Goto, Launch, CommitPid, SpawnFails, Timeout, Untrack
    <3>3. CASE SelectRow(w) \/ CommitRow(w) \/ RefreshRow(w)
      BY <3>3, RaiseFrame DEF TypeOK, Goto, SelectRow, CommitRow, RefreshRow
    <3>4. CASE Notify(w)
      <4>1. pc'[w] \in {"finally", "close", "select", "dependents"}
        BY <3>4, RaiseFrame DEF TypeOK, Goto, Notify
      <4>2. QED
        BY <4>1
    <3>5. CASE ThreadFails(w) \/ DbError(w)
      BY <3>5, RaiseFrame DEF ThreadFails, DbError
    <3>6. QED
      BY <1>5, <3>1, <3>2, <3>3, <3>4, <3>5 DEF Thread, Disturb
  <2>2. run'[w].pre = run[w].pre
    <3>1. \/ run' = run
          \/ \E o : run' = [run EXCEPT ![w].orm = o]
          \/ \E v : run' = [run EXCEPT ![w] = [@ EXCEPT !.orm = "fresh",
                                                        !.verdict = v]]
          \/ \E t : run' = [run EXCEPT ![w].todo = t]
          \/ \E o : Raise(w, o)
      <4>1. CASE Launch(w) \/ CommitPid(w) \/ ReadLine(w)
                 \/ SelectRow(w) \/ CommitRow(w) \/ RefreshRow(w)
        BY <4>1
        DEF Launch, CommitPid, ReadLine, SelectRow, CommitRow, RefreshRow
      <4>2. CASE Timeout(w) \/ Untrack(w)
        BY <4>2 DEF Timeout, Untrack
      <4>3. CASE Notify(w) \/ QueryDependents(w) \/ Close(w) \/ ThreadFails(w)
                 \/ SpawnFails(w) \/ DbError(w)
        BY <4>3
        DEF Notify, QueryDependents, Close, ThreadFails, SpawnFails, DbError
      <4>4. CASE Acquire(w) \/ Track(w) \/ StorePid(w) \/ EndOfOutput(w)
                 \/ ReadError(w) \/ Reap(w) \/ Finally(w)
        BY <4>4
        DEF Acquire, Track, StorePid, EndOfOutput, ReadError, Reap, Finally
      <4>5. QED
        BY <1>5, <4>1, <4>2, <4>3, <4>4 DEF Thread, Disturb
    <3>2. ASSUME NEW o, run' = [run EXCEPT ![w].orm = o]
          PROVE  run'[w].pre = run[w].pre
      BY <3>2, OrmEffect
    <3>3. ASSUME NEW v, run' = [run EXCEPT ![w] = [@ EXCEPT !.orm = "fresh",
                                                            !.verdict = v]]
          PROVE  run'[w].pre = run[w].pre
      BY <3>3, VerdictEffect
    <3>4. ASSUME NEW t, run' = [run EXCEPT ![w].todo = t]
          PROVE  run'[w].pre = run[w].pre
      BY <3>4, TodoEffect
    <3>5. ASSUME NEW o, Raise(w, o)
          PROVE  run'[w].pre = run[w].pre
      BY <3>5, RaiseEffect
    <3>6. QED
      BY <3>1, <3>2, <3>3, <3>4, <3>5
  <2>3. rows'[w].job = rows[w].job
    <3>1. \/ rows' = rows
          \/ rows' = [rows EXCEPT ![w].pid = procs[w].pid]
          \/ rows' = [rows EXCEPT ![w] =
                          [@ EXCEPT !.pid = None,
                                    !.status = Status(run[w].verdict)]]
      <4>1. CASE CommitPid(w) \/ CommitRow(w)
        BY <4>1 DEF CommitPid, CommitRow
      <4>2. CASE ~CommitPid(w) /\ ~CommitRow(w)
        BY <1>5, <4>2
        DEF Thread, Disturb, Acquire, Track, StorePid, EndOfOutput, ReadError,
            ReadLine, Launch, SpawnFails, Reap, Timeout, Untrack, SelectRow,
            RefreshRow, Notify, QueryDependents, Close, Finally, ThreadFails,
            DbError
      <4>3. QED BY <4>1, <4>2
    <3>2. \/ rows'[w] = rows[w]
          \/ rows'[w] = [rows[w] EXCEPT !.pid = procs[w].pid]
          \/ rows'[w] = [rows[w] EXCEPT !.pid = None,
                                        !.status = Status(run[w].verdict)]
      BY <1>1, <3>1
    <3>3. QED
      BY ONLY <1>1, <3>2 DEF Row
  <2>4. QED
    BY <1>1, <2>1, <2>2, <2>3, DepsFrame
<1>6. QED
  BY <1>2, <1>3, <1>4, <1>5

LEMMA DepsInvInit == Init => DepsInv
BY DEF Init, DepsInv, DepsAt

LEMMA DepsInvNext ==
    ASSUME "db" \notin Env, "thread" \notin Env
    PROVE  TypeOK /\ RowInv /\ ToldInv /\ DepsInv /\ [Next]_vars => DepsInv'
<1> SUFFICES ASSUME TypeOK, RowInv, ToldInv, DepsInv, [Next]_vars,
                    NEW u \in Workers
             PROVE  DepsAt(u)'
  BY DEF DepsInv
<1>1. Persists
  BY StepPersists
<1>2. DepsAt(u) /\ RowAt(u) /\ Deletion(u)
  BY DEF DepsInv, RowInv
<1>3. ASSUME NEW w \in Workers, Thread(w) \/ Disturb(w),
             ~ \E j \in Jobs : Fanout(w, j)
      PROVE  DepsAt(u)'
  <2>1. CASE u = w
    BY <1>1, <1>3, <2>1, ThreadDeps
  <2>2. CASE u # w
    <3>1. pc'[u] = pc[u] /\ run'[u] = run[u] /\ rows'[u] = rows[u]
      BY <1>3, <2>2, ThreadFrame, ThreadRowsFrame DEF Frame, RowsFrame
    <3>2. QED
      BY <1>1, <1>2, <3>1, DepsFrame
  <2>3. QED BY <2>1, <2>2
<1>4. ASSUME NEW w \in Workers, NEW j \in Jobs, Fanout(w, j)
      PROVE  DepsAt(u)'
  <2>1. /\ rows' = rows
        /\ \/ pc'[u] = pc[u] /\ run'[u] = run[u]
           \/ pc'[u] # "open" /\ run'[u].pre = run[u].pre
    BY <1>4, FanoutEffect
  <2>2. QED
    BY <1>1, <1>2, <2>1, DepsFrame
<1>5. ASSUME NEW w \in Workers, NEW j \in Jobs,
             CronFire(w, j) \/ TriggerNow(w, j) \/ TriggerFails(w, j)
      PROVE  DepsAt(u)'
  <2>1. CASE u # w
    <3>1. pc'[u] = pc[u] /\ run'[u] = run[u] /\ rows'[u] = rows[u]
      BY <1>5, <2>1, StartEffect
    <3>2. QED
      BY <1>1, <1>2, <3>1, DepsFrame
  <2>2. CASE u = w
    <3>1. /\ pc[u] = "unused" /\ pc'[u] # "open"
          /\ rows' = rows \/ run'[u].pre
      BY <1>5, <2>2, StartEffect
    <3>2. rows[u].job = None
      BY <1>2, <3>1 DEF RowAt, Deletion
    <3>3. QED
      BY <3>1, <3>2 DEF DepsAt
  <2>3. QED BY <2>1, <2>2
<1>6. ASSUME NEW j \in Jobs, DeleteJob(j)
      PROVE  DepsAt(u)'
  <2>1. pc' = pc /\ run' = run /\ rows'[u].job = rows[u].job
    BY <1>6, DeleteEffect
  <2>2. QED
    BY <1>1, <1>2, <2>1, DepsFrame
<1>7. CASE \/ \E j \in Jobs : ToggleJob(j)
           \/ \E w \in Workers : CancelTracked(w) \/ CancelLookup(w)
           \/ CancelKill
           \/ \E w \in Workers : ProcExit(w) \/ CloseOut(w)
           \/ Crash
           \/ UNCHANGED vars
  <2>1. run' = run /\ rows' = rows /\ pc'[u] \in {pc[u], "dead"}
    BY <1>7, OtherEffect
  <2>2. QED
    BY <1>1, <1>2, <2>1, DepsFrame
<1>8. QED
  BY <1>3, <1>4, <1>5, <1>6, <1>7 DEF Next, Api, System

\* Whoever started it, a run nobody triggered by hand gets its row only after
\* each of its dependencies had a success: between the check and the insert no
\* other thread can undo one, but by deleting the job.
THEOREM DependentsHold ==
    ASSUME "db" \notin Env, "thread" \notin Env
    PROVE  Spec => []DependentsAfterSuccess
<1>1. Init => TypeOK /\ RowInv /\ ToldInv /\ DepsInv
  BY InitType, RowInvInit, ToldInvInit, DepsInvInit
<1>2. (TypeOK /\ RowInv /\ ToldInv /\ DepsInv) /\ [Next]_vars
          => (TypeOK /\ RowInv /\ ToldInv /\ DepsInv)'
  BY NextType, RowInvNext, ToldInvNext, DepsInvNext
<1>3. DepsInv => DependentsAfterSuccess
  BY DEF DepsInv, DepsAt, DependentsAfterSuccess
<1>4. QED
  BY <1>1, <1>2, <1>3, PTL DEF Spec
=============================================================================

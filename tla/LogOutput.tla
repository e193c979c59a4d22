------------------------------ MODULE LogOutput ------------------------------
(***************************************************************************)
(* What is kept of the output of a run: the lines the run printed, and the *)
(* log _build_log_output and the timeout of _execute_job make of them      *)
(* (app/services/scheduler_service.py).  A line is the number of the read  *)
(* that brought it; wording and the layout of the notice are left out.     *)
(***************************************************************************)
EXTENDS Integers, Sequences

CONSTANTS
    MaxLines,    \* bound on lines read
    HeadLines,   \* values of LOG_HEAD_LINES
    TailLines,   \* values of LOG_TAIL_LINES
    TimeoutKeeps \* reads a run that times out keeps, 100 in the code

ASSUME LogAssumption ==
    /\ MaxLines \in Nat
    /\ HeadLines \subseteq Nat /\ TailLines \subseteq Nat
    /\ TimeoutKeeps \in Nat \ {0}

VARIABLES
    allLines,  \* all_lines, each read cut where splitlines will cut it
    reads,     \* reads so far
    keep,      \* the two limits of this server
    end,       \* whether the run has ended, or was killed at its timeout
    log        \* the log that was saved

logVars == <<allLines, reads, keep, end, log>>

Line == [read : 1..MaxLines, part : 1..2, blank : BOOLEAN]
Log == [head : Seq(Line), omitted : Nat, tail : Seq(Line)]
NoLog == [head |-> <<>>, omitted |-> 0, tail |-> <<>>]

LogTypeOK ==
    /\ allLines \in Seq(Line)
    /\ reads \in 0..MaxLines
    /\ keep \in [head : HeadLines, tail : TailLines]
    /\ end \in {"none", "ended", "killed"}
    /\ log \in Log

LogInit ==
    /\ allLines = <<>>
    /\ reads = 0
    /\ keep \in [head : HeadLines, tail : TailLines]
    /\ end = "none"
    /\ log = NoLog

-----------------------------------------------------------------------------
\* for line in process.stdout: blank, text, or text with a form feed, which
\* ends a line for splitlines and not for the pipe.
ReadLine(kind) ==
    LET piece(n) == [read |-> reads + 1, part |-> n, blank |-> kind = "blank"]
    IN  /\ end = "none"
        /\ reads < MaxLines
        /\ reads' = reads + 1
        /\ allLines' = allLines \o (IF kind = "fed" THEN <<piece(1), piece(2)>>
                                    ELSE <<piece(1)>>)
        /\ UNCHANGED <<keep, end, log>>

\* "\n".join(...).splitlines(): an empty line at the very end is not one.
SplitLines(text) ==
    IF text # <<>> /\ text[Len(text)].blank
    THEN SubSeq(text, 1, Len(text) - 1) ELSE text

\* lines[-n:], where -0 is 0 and a slice longer than the list is the list.
FromEnd(lines, n) ==
    IF n = 0 \/ n >= Len(lines)
    THEN lines ELSE SubSeq(lines, Len(lines) - n + 1, Len(lines))

\* Seeded bug for LogKeepsEnds: the lines left out are not counted.
Build_Silent(text) ==
    LET lines == SplitLines(text)
        total == Len(lines)
    IN  IF \A i \in DOMAIN text : text[i].blank THEN NoLog
        ELSE IF total <= keep.head + keep.tail
        THEN [NoLog EXCEPT !.head = lines]
        ELSE [NoLog EXCEPT !.head = SubSeq(lines, 1, keep.head),
                           !.tail = FromEnd(lines, keep.tail)]

Build(text) ==
    LET lines == SplitLines(text)
        total == Len(lines)
    IN  IF \A i \in DOMAIN text : text[i].blank THEN NoLog
        ELSE IF total <= keep.head + keep.tail
        THEN [NoLog EXCEPT !.head = lines]
        ELSE [head |-> SubSeq(lines, 1, keep.head),
              omitted |-> total - keep.head - keep.tail,
              tail |-> FromEnd(lines, keep.tail)]

\* The process has ended by itself, or has been cancelled.
SaveLog ==
    /\ end = "none"
    /\ end' = "ended"
    /\ log' = Build(allLines)
    /\ UNCHANGED <<allLines, reads, keep>>

\* It has been killed: "\n".join(all_lines[-100:]).
SaveTimedOut ==
    /\ end = "none"
    /\ end' = "killed"
    /\ \E n \in 0..Len(allLines) :
          /\ \A i \in DOMAIN allLines :
                i > n <=> allLines[i].read > reads - TimeoutKeeps
          /\ log' = [NoLog EXCEPT !.head = SubSeq(allLines, n + 1, Len(allLines))]
    /\ UNCHANGED <<allLines, reads, keep>>

LogNext ==
    \/ \E kind \in {"text", "blank", "fed"} : ReadLine(kind)
    \/ SaveLog \/ SaveTimedOut

LogSpec == LogInit /\ [][LogNext]_logVars

-----------------------------------------------------------------------------
(* Properties *)

\* The lines of the output: an empty one at the very end is not one.
Printed ==
    IF allLines # <<>> /\ allLines[Len(allLines)].blank
    THEN Len(allLines) - 1 ELSE Len(allLines)

\* A run that ended keeps nothing of a blank output.  Otherwise its log is the
\* first lines and the last ones, no more than the limits allow and with none in
\* both, and says how many lines are missing: 0 when there are none, and lines
\* are missing only when both parts are as long as they may be.  With
\* LOG_TAIL_LINES=0 the notice counts lines that are then all shown, since
\* lines[-0:] is the whole list.
KeptOfEnded ==
    LET h == Len(log.head)
        t == Len(log.tail)
    IN  IF \A i \in DOMAIN allLines : allLines[i].blank THEN log = NoLog
        ELSE /\ log.head = SubSeq(allLines, 1, h)
             /\ log.tail = SubSeq(allLines, Printed - t + 1, Printed)
             /\ IF keep.tail = 0 /\ Printed > keep.head
                THEN h = keep.head /\ log.omitted = Printed - h /\ t = Printed
                ELSE /\ h + log.omitted + t = Printed
                     /\ h + t <= keep.head + keep.tail
                     /\ log.omitted > 0 => h = keep.head /\ t = keep.tail

\* A run that was killed keeps all it printed in its last TimeoutKeeps reads,
\* whatever the limits, and no notice of what came before.
KeptOfKilled ==
    /\ log.omitted = 0 /\ log.tail = <<>>
    /\ log.head = SubSeq(allLines, Len(allLines) - Len(log.head) + 1, Len(allLines))
    /\ log.head # <<>> => log.head[1].part = 1
    /\ {log.head[i].read : i \in DOMAIN log.head} =
          {r \in 1..reads : r > reads - TimeoutKeeps}

\* What a stored log has of the output, line for line: the end, where a failing
\* script says why, is never lost, and what is left out is counted, except of a
\* run that was killed (_build_log_output; all_lines[-100:]).
LogKeepsEnds ==
    /\ end = "ended" => KeptOfEnded
    /\ end = "killed" => KeptOfKilled

=============================================================================

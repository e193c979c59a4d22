--------------------------------- MODULE Cron ---------------------------------
(***************************************************************************)
(* The days a cron expression stands for: those get_next_runs shows before *)
(* (app/services/job_service.py, by croniter) and those the trigger of     *)
(* _parse_cron fires on (app/services/scheduler_service.py, by             *)
(* APScheduler).  The fields day and day_of_week are kept, the others are  *)
(* taken to be right.                                                      *)
(***************************************************************************)
EXTENDS Naturals, FiniteSets

CONSTANTS
    LastDay,    \* bound on the days: 0 is a Monday, the first of a month
    Shown,      \* how many next runs are shown
    Every,      \* the field *
    DayFields,  \* fields day: Every or a set of days of the month, from 1
    WeekFields  \* fields day_of_week: Every or a set of numbers from 0 to 7

VARIABLES
    expression,  \* the expression of the job, or none yet
    today,       \* the day it is
    promised,    \* the days shown when the job was saved
    fired        \* the days it has run since

cronVars == <<expression, today, promised, fired>>

Expressions == [day : DayFields, week : WeekFields]

CronInit ==
    /\ expression = {}
    /\ today = 0
    /\ promised = {}
    /\ fired = {}

-----------------------------------------------------------------------------
Monday0(d) == d % 7
Sunday0(d) == (d + 1) % 7

\* APScheduler: Monday is 0, 7 is out of range, and both fields must match.
Fires(e, d) ==
    /\ e.day = Every \/ d + 1 \in e.day
    /\ e.week = Every \/ Monday0(d) \in e.week

\* croniter: Sunday is 0 and 7, and one of two given fields is enough.
Next1(e, d) ==
    LET day == e.day # Every /\ d + 1 \in e.day
        week == e.week # Every /\ {x % 7 : x \in e.week} \cap {Sunday0(d)} # {}
    IN  (e.day = Every /\ e.week = Every) \/ day \/ week

\* cron.get_next, count times, from the day after d.
NextRuns(e, d) ==
    LET later == {x \in (d + 1)..LastDay : Next1(e, x)}
    IN  {x \in later : Cardinality({y \in later : y < x}) < Shown}

\* The job is saved: its page shows its next runs, and it is registered, if
\* APScheduler takes the expression.
Save(e) ==
    /\ expression = {}
    /\ expression' = IF e.week # Every /\ 7 \in e.week THEN {} ELSE {e}
    /\ promised' = NextRuns(e, today)
    /\ UNCHANGED <<today, fired>>

\* The next day comes, and the trigger fires on it or not.
NextDay ==
    /\ promised # {}
    /\ today < LastDay
    /\ today' = today + 1
    /\ fired' = fired \union {d \in {today + 1} :
                                 \E e \in expression : Fires(e, d)}
    /\ UNCHANGED <<expression, promised>>

CronNext == (\E e \in Expressions : Save(e)) \/ NextDay

CronSpec == CronInit /\ [][CronNext]_cronVars

-----------------------------------------------------------------------------
(* Properties *)

\* The job runs on the days its page has shown: no shown day has passed without
\* a run, and no run came before the last of them that was not shown.
RunsWhenShown ==
    /\ {d \in promised : d <= today} \subseteq fired
    /\ \A d \in fired : d \in promised \/ \A x \in promised : x < d

=============================================================================

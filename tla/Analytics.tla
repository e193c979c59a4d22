------------------------------ MODULE Analytics ------------------------------
(***************************************************************************)
(* The reports of app/services/analytics_service.py over a history of runs *)
(* that goes on while they are made.  The counts of a report come from one *)
(* query; the timeline reads the clock again for each day it lists.        *)
(* Ratios and averages are left unrounded, as numerator and denominator,   *)
(* and the numbers of jobs and of active jobs are left out.                *)
(***************************************************************************)
EXTENDS Integers, Sequences, FiniteSets, FiniteSetsExt, Functions

CONSTANTS
    MyJobs,      \* the jobs of the user who asks
    OtherJobs,   \* those of others
    Day,         \* length of a day on the clock
    Spans,       \* values of days
    MaxHistory,  \* bound on runs
    MaxTime      \* bound on time

ASSUME AnalyticsAssumption ==
    /\ MyJobs \cap OtherJobs = {} /\ IsFiniteSet(MyJobs)
    /\ Day \in Nat \ {0} /\ Spans \subseteq Nat
    /\ MaxHistory \in Nat /\ MaxTime \in Nat

VARIABLES
    time,      \* the clock
    existing,  \* jobs that exist
    history,   \* runs by the order of their start
    report     \* the timeline being made

analyticsVars == <<time, existing, history, report>>

AllJobs == MyJobs \union OtherJobs
Statuses == {"running", "success", "failure", "cancelled"}
Shown == Statuses \ {"cancelled"}
NoTime == -1
Execution == [job : AllJobs, at : 0..MaxTime, status : Statuses,
              duration : 0..MaxTime \union {NoTime}]
\* The day of func.date, in the time zone of the session, and of the listed
\* days, in UTC: the zone is taken to be UTC, else the two are shifted.
DayOf(t) == t \div Day

\* A timeline: the runs its query saw, by day and status, and the days listed.
NoReport == [at |-> "idle", days |-> 0, left |-> 0, asked |-> 0,
             list |-> <<>>, seen |-> {}]

AnalyticsTypeOK ==
    /\ time \in 0..MaxTime
    /\ existing \subseteq AllJobs
    /\ history \in Seq(Execution) /\ Len(history) <= MaxHistory
    /\ DOMAIN report = DOMAIN NoReport
    /\ report.seen \subseteq (1..MaxHistory) \X Execution

AnalyticsInit ==
    /\ time = 0
    /\ existing = AllJobs
    /\ history = <<>>
    /\ report = NoReport

-----------------------------------------------------------------------------
(* Queries *)

\* Rows of job_executions: a deleted job takes its own.
RowIds(jobs) == {i \in DOMAIN history : history[i].job \in jobs \cap existing}
With(ids, status) == {i \in ids : history[i].status = status}
Timed(ids) == {i \in ids : history[i].duration # NoTime}
Durations(ids) == SumFunction([i \in Timed(ids) |-> history[i].duration])
Rate(ids) ==
    <<Cardinality(With(ids, "success")),
      Cardinality(With(ids, "success") \union With(ids, "failure"))>>

\* Seeded bug for ReportsAgree: the subquery of the user's jobs is left out.
Overview_AllUsers ==
    LET ids == RowIds(AllJobs)
    IN  [total |-> Cardinality(ids),
         count |-> [s \in Shown |-> Cardinality(With(ids, s))],
         success_rate |-> Rate(ids),
         avg |-> <<Durations(ids), Cardinality(Timed(ids))>>]

Overview ==
    LET ids == RowIds(MyJobs)
    IN  [total |-> Cardinality(ids),
         count |-> [s \in Shown |-> Cardinality(With(ids, s))],
         success_rate |-> Rate(ids),
         avg |-> <<Durations(ids), Cardinality(Timed(ids))>>]

\* One entry for each job with a run; the order is left out.
Breakdown ==
    [j \in {history[i].job : i \in RowIds(MyJobs)} |->
        [total |-> Cardinality(RowIds({j})),
         count |-> [s \in Shown |-> Cardinality(With(RowIds({j}), s))]]]

\* Runs by the hour and the day of the week of their start.
Heatmap(days) ==
    LET ids == {i \in RowIds(MyJobs) : history[i].at >= time - days * Day}
        bucket(i) == <<history[i].at % Day, DayOf(history[i].at) % 7>>
    IN  [b \in {bucket(i) : i \in ids} |->
            Cardinality({i \in ids : bucket(i) = b})]

JobStats(j) ==
    LET ids == RowIds({j})
        timed == {history[i].duration : i \in Timed(ids)}
    IN  [total |-> Cardinality(ids),
         success |-> Cardinality(With(ids, "success")),
         failure |-> Cardinality(With(ids, "failure")),
         success_rate |-> Rate(ids),
         avg |-> <<Durations(ids), Cardinality(Timed(ids))>>,
         max |-> IF timed = {} THEN 0 ELSE Max(timed),
         min |-> IF timed = {} THEN 0 ELSE Min(timed),
         last |-> IF ids = {} THEN 0 ELSE Max(ids)]

\* The last runs that have a duration, oldest first.
Trend(j, limit) ==
    LET timed == Timed(RowIds({j}))
    IN  {i \in timed : Cardinality({k \in timed : k > i}) < limit}

-----------------------------------------------------------------------------
(* What happens to the table, and the clock.  A timeline reads the table in  *)
(* one query: what happens to it until the answer is of no account.         *)

Between == report.at = "idle"

RunStarts(j) ==
    /\ Between
    /\ j \in existing
    /\ Len(history) < MaxHistory
    /\ history' = Append(history, [job |-> j, at |-> time,
                                   status |-> "running", duration |-> NoTime])
    /\ UNCHANGED <<time, existing, report>>

RunEndsAs(i, status) ==
    /\ Between
    /\ history[i].status = "running"
    /\ history' = [history EXCEPT ![i].status = status,
                                  ![i].duration = time - history[i].at]
    /\ UNCHANGED <<time, existing, report>>

JobDeleted(j) ==
    /\ Between
    /\ j \in existing
    /\ existing' = existing \ {j}
    /\ UNCHANGED <<time, history, report>>

TimePasses ==
    /\ time < MaxTime
    /\ time' = time + 1
    /\ UNCHANGED <<existing, history, report>>

(* GET /analytics/timeline, /analytics/jobs/{id}/timeline *)

\* Seeded bug for CountedOnce: the query goes back a day further than the list.
TimelineQuery_Wider(jobs, days) ==
    /\ report.at = "idle"
    /\ report' = [at |-> "days", days |-> days, left |-> days, asked |-> time,
                  list |-> <<>>,
                  seen |-> {<<i, history[i]>> : i \in
                     {i \in RowIds(jobs) :
                         history[i].at >= time - (days + 1) * Day}}]
    /\ UNCHANGED <<time, existing, history>>

TimelineQuery(jobs, days) ==
    /\ report.at = "idle"
    /\ report' = [at |-> "days", days |-> days, left |-> days, asked |-> time,
                  list |-> <<>>,
                  seen |-> {<<i, history[i]>> : i \in
                     {i \in RowIds(jobs) : history[i].at >= time - days * Day}}]
    /\ UNCHANGED <<time, existing, history>>

\* Seeded bug for DaysListed: range(days, 0, -1).
LastOffset_Yesterday == 1

\* The last i of range(days, -1, -1).
LastOffset == 0

\* The next day: counted back from the clock as it is now.
TimelineDay ==
    /\ report.at = "days"
    /\ LET d == DayOf(time - report.left * Day)
           counts == [s \in Shown |-> Cardinality({r \in report.seen :
                        DayOf(r[2].at) = d /\ r[2].status = s})]
       IN  report' = [report EXCEPT
             !.list = Append(@, [date |-> d, count |-> counts]),
             !.left = IF @ = 0 THEN 0 ELSE @ - 1,
             !.at = IF report.left = LastOffset THEN "done" ELSE @]
    /\ UNCHANGED <<time, existing, history>>

TimelineAnswer ==
    /\ report.at = "done"
    /\ report' = NoReport
    /\ UNCHANGED <<time, existing, history>>

AnalyticsNext ==
    \/ \E j \in AllJobs : RunStarts(j) \/ JobDeleted(j)
    \/ \E i \in DOMAIN history, s \in Statuses \ {"running"} : RunEndsAs(i, s)
    \/ \E days \in Spans :
          \/ TimelineQuery(MyJobs, days)
          \/ \E j \in MyJobs \cap existing : TimelineQuery({j}, days)
    \/ TimelineDay \/ TimelineAnswer
    \/ TimePasses

AnalyticsSpec == AnalyticsInit /\ [][AnalyticsNext]_analyticsVars
-----------------------------------------------------------------------------
(* Properties *)

\* The reports tell one story of the same table, though each has a query of its
\* own: the header is the sum of the breakdown and of the jobs' own pages, for
\* each count and for both terms of the success rate; the heatmap has no run
\* the header has not; a job's average lies between its extremes, and its trend
\* ends with its last run, if that has ended.
ReportsAgree == history # <<>> =>
    LET o == Overview
        b == Breakdown
        my == MyJobs \cap existing
        stats == [j \in my |-> JobStats(j)]
    IN  /\ o.total = SumFunction([j \in DOMAIN b |-> b[j].total])
        /\ o.total = SumFunction([j \in my |-> stats[j].total])
        /\ \A s \in Shown :
              o.count[s] = SumFunction([j \in DOMAIN b |-> b[j].count[s]])
        /\ \A n \in 1..2 :
              o.success_rate[n] =
                 SumFunction([j \in my |-> stats[j].success_rate[n]])
        /\ \A days \in Spans : SumFunction(Heatmap(days)) <= o.total
        /\ \A j \in my : LET t == stats[j] IN
              /\ t.avg[1] >= t.min * t.avg[2] /\ t.avg[1] <= t.max * t.avg[2]
              /\ (t.last # 0 /\ history[t.last].status # "running") =>
                    Trend(j, 1) = {t.last}

\* A timeline lists as many days as were asked for and one, each once and in
\* order, the last of them today; they follow one another unless midnight
\* passes while the list is made, when the days it passes over are missing.
DaysListed ==
    report.at = "done" =>
        LET date(k) == report.list[k].date
            n == Len(report.list)
        IN  /\ n = report.days + 1
            /\ \A k \in 1..(n - 1) : date(k) < date(k + 1)
            /\ date(n) \in DayOf(report.asked)..DayOf(time)
            /\ DayOf(time) = DayOf(report.asked) =>
                  \A k \in 1..(n - 1) : date(k + 1) = date(k) + 1

\* Every run the query returned, but for the cancelled ones, is counted on one
\* listed day, and no other is, unless midnight passes meanwhile.
CountedOnce ==
    report.at = "done" =>
        LET shown == {r \in report.seen : r[2].status \in Shown}
            sum == SumFunction([k \in DOMAIN report.list |->
                                   SumFunction(report.list[k].count)])
        IN  /\ sum <= Cardinality(shown)
            /\ DayOf(time) = DayOf(report.asked) => sum = Cardinality(shown)

=============================================================================

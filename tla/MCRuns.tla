-------------------------------- MODULE MCRuns --------------------------------
(* One small instance of each account of runs: which script they execute,    *)
(* which runs start others, what is kept of their output and what is         *)
(* reported of them.  A behaviour takes one part, and the variables of the   *)
(* others stay as they were at the start.                                    *)
EXTENDS ScriptRuns, Dag, LogOutput, Analytics, TLC

CONSTANTS j1, j2, j3, h1, x1, x2, python, bash, daily

Parts == {"scripts", "dag", "log", "analytics"}

VARIABLE part

-----------------------------------------------------------------------------
MCNewRows ==
    {[script |-> x1, kind |-> python, cron |-> daily, active |-> TRUE]}
MCPatches ==
    {[NoPatch EXCEPT !.script = s] : s \in {x1, x2}} \union
    {[NoPatch EXCEPT !.kind = bash], [NoPatch EXCEPT !.active = FALSE]}
MCCalls == {"create", "update", "restore", "delete"}

MCNeeds == [j \in {j1, j2, j3} |-> IF j = j3 THEN {j1, j2} ELSE {}]

MCSymmetry == Permutations({j1, j2})

-----------------------------------------------------------------------------
Init ==
    /\ part \in Parts
    /\ ScriptsInit
    /\ DagInit
    /\ LogInit
    /\ part # "log" => keep = [head |-> 1, tail |-> 1]
    /\ AnalyticsInit

ScriptsPart ==
    /\ part = "scripts" /\ ScriptsNext
    /\ UNCHANGED <<part, dagVars, logVars, analyticsVars>>
DagPart ==
    /\ part = "dag" /\ DagNext
    /\ UNCHANGED <<part, scriptVars, logVars, analyticsVars>>
LogPart ==
    /\ part = "log" /\ LogNext
    /\ UNCHANGED <<part, scriptVars, dagVars, analyticsVars>>
AnalyticsPart ==
    /\ part = "analytics" /\ AnalyticsNext
    /\ UNCHANGED <<part, scriptVars, dagVars, logVars>>

Next == ScriptsPart \/ DagPart \/ LogPart \/ AnalyticsPart

Spec == Init /\ [][Next]_<<part, scriptVars, dagVars, logVars, analyticsVars>>

-----------------------------------------------------------------------------
\* The variables of each part keep their types.
RunsTypeOK ==
    /\ RequestsTypeOK /\ ScriptsTypeOK
    /\ DagTypeOK
    /\ LogTypeOK
    /\ AnalyticsTypeOK

=============================================================================

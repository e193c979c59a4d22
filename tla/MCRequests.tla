------------------------------ MODULE MCRequests ------------------------------
(* One small instance of each service that answers requests out of a store   *)
(* of its own: a behaviour takes one part, and the variables of the others   *)
(* stay as they were at the start.                                           *)
EXTENDS JobRequests, EnvVars, Tokens, RateLimiter, Preferences, Requirements,
        TLC

CONSTANTS t1, t2, j1, j2, x1, x2, daily, odd, python, auth, login

Parts == {"jobs", "env", "tokens", "limiter", "preferences", "requirements"}

VARIABLE part

-----------------------------------------------------------------------------
MCNewRows == {row \in Row : row.script = x1}
MCPatches ==
    {[NoPatch EXCEPT !.script = s] : s \in {x1, x2}}
    \union {[NoPatch EXCEPT !.active = b] : b \in BOOLEAN}
    \union {[NoPatch EXCEPT !.cron = c] : c \in {daily, odd}}
MCCalls == AllCalls

MCLimit == [k \in {auth, login} |-> IF k = auth THEN 2 ELSE 1]

Keep == [f \in {"telegram", "chat", "email", "on"} |-> Unset]
MCBodies == {[Keep EXCEPT !.telegram = TRUE, !.chat = TRUE],
             [Keep EXCEPT !.email = TRUE, !.on = "always"],
             [Keep EXCEPT !.on = "never"],
             [Keep EXCEPT !.telegram = FALSE]}

MCSymmetry == Permutations({t1, t2})

-----------------------------------------------------------------------------
Init ==
    /\ part \in Parts
    /\ RequestsInit
    /\ EnvInit
    /\ TokensInit
    /\ LimiterInit
    /\ PreferencesInit
    /\ ReqInit

JobsPart ==
    /\ part = "jobs" /\ RequestsNext
    /\ UNCHANGED <<part, envVars, authVars, limiterVars, prefVars, reqVars>>
EnvPart ==
    /\ part = "env" /\ EnvNext
    /\ UNCHANGED <<part, requestVars, authVars, limiterVars, prefVars, reqVars>>
TokensPart ==
    /\ part = "tokens" /\ TokensNext
    /\ UNCHANGED <<part, requestVars, envVars, limiterVars, prefVars, reqVars>>
LimiterPart ==
    /\ part = "limiter" /\ LimiterNext
    /\ UNCHANGED <<part, requestVars, envVars, authVars, prefVars, reqVars>>
PreferencesPart ==
    /\ part = "preferences" /\ PreferencesNext
    /\ UNCHANGED <<part, requestVars, envVars, authVars, limiterVars, reqVars>>
RequirementsPart ==
    /\ part = "requirements" /\ ReqNext
    /\ UNCHANGED <<part, requestVars, envVars, authVars, limiterVars, prefVars>>

Next == \/ JobsPart \/ EnvPart \/ TokensPart \/ LimiterPart
        \/ PreferencesPart \/ RequirementsPart

Spec == Init /\ [][Next]_<<part, requestVars, envVars, authVars, limiterVars,
                           prefVars, reqVars>>

-----------------------------------------------------------------------------
\* The variables of each service keep their types.
ServicesTypeOK ==
    /\ RequestsTypeOK
    /\ EnvTypeOK
    /\ TokensTypeOK
    /\ LimiterTypeOK
    /\ PreferencesTypeOK
    /\ ReqTypeOK

=============================================================================

------------------------------- MODULE EnvVars -------------------------------
(***************************************************************************)
(* The environment variables of jobs: the table job_env_vars, unique by    *)
(* job and name, under the requests /jobs/{id}/env of                      *)
(* app/api/job_routes.py, which read before they write, and its encrypted  *)
(* values under restarts with another SECRET_KEY                           *)
(* (app/services/crypto_service.py).  A DELETE statement locks the rows it *)
(* finds until its request commits, and what needs them waits.             *)
(***************************************************************************)
EXTENDS Naturals

CONSTANTS
    EnvJobs,      \* job ids
    FirstJob,     \* the one there from the start
    EnvKeys,      \* names of variables
    EnvValues,    \* their values
    EnvThreads,   \* threads that serve requests
    SecretKeys,   \* values of SECRET_KEY the server is started with
    MaxEnvCalls,  \* bound on requests and restarts
    NoRow         \* a name without a variable

VARIABLES
    envTable,  \* the row of each job and name
    envLive,   \* jobs that exist
    envFresh,  \* ids uuid4 has still to draw: no id comes twice
    envCall,   \* what each thread is doing
    envCalls,  \* requests and restarts so far
    secret     \* the SECRET_KEY of the process

envVars == <<envTable, envLive, envFresh, envCall, envCalls, secret>>

\* A row: the request that inserted it, and a Fernet token, which the key it
\* was made with opens.
EnvRow == [id : Nat, plain : EnvValues, under : SecretKeys]

ASSUME EnvAssumption ==
    /\ FirstJob \in EnvJobs
    /\ MaxEnvCalls \in Nat
    /\ SecretKeys # {}
    /\ NoRow \notin EnvValues \union EnvRow

EnvRequest ==
    [at : {"idle", "write", "lock", "replace"},
     id : Nat,
     job : EnvJobs,
     sets : [EnvKeys -> EnvValues \union {NoRow}],  \* the body
     twice : BOOLEAN,                    \* the body has one name twice
     found : SUBSET (EnvKeys \X Nat),    \* rows it read, or deletes
     alone : BOOLEAN]                    \* history: it met no other request

Nothing == [k \in EnvKeys |-> NoRow]
Resting == [at |-> "idle", id |-> 0, job |-> FirstJob, sets |-> Nothing,
            twice |-> FALSE, found |-> {}, alone |-> TRUE]

EnvTypeOK ==
    /\ envTable \in [EnvJobs \X EnvKeys -> EnvRow \union {NoRow}]
    /\ envLive \subseteq EnvJobs
    /\ envFresh \subseteq EnvJobs
    /\ envCall \in [EnvThreads -> EnvRequest]
    /\ envCalls \in 0..MaxEnvCalls
    /\ secret \in SecretKeys

EnvInit ==
    /\ envTable = [r \in EnvJobs \X EnvKeys |-> NoRow]
    /\ envLive = {FirstJob}
    /\ envFresh = EnvJobs \ {FirstJob}
    /\ envCall = [t \in EnvThreads |-> Resting]
    /\ envCalls = 0
    /\ secret = CHOOSE s \in SecretKeys : TRUE

-----------------------------------------------------------------------------
NamesIn(sets) == {k \in EnvKeys : sets[k] # NoRow}
RowsOf(j) ==
    {<<k, envTable[<<j, k>>].id>> :
       k \in {k \in EnvKeys : envTable[<<j, k>>] # NoRow}}

\* Rows some other request has deleted and not committed.
LockedFor(t, j) ==
    UNION {envCall[u].found :
       u \in {u \in EnvThreads \ {t} :
                 envCall[u].at = "replace" /\ envCall[u].job = j}}

Encrypt(value, id) == [id |-> id, plain |-> value, under |-> secret]

\* Restarts, deletions and duplicates take effect in one step, under number n.
Instant(n) ==
    /\ envCalls < MaxEnvCalls
    /\ n = envCalls + 1
    /\ envCalls' = n

EnvBegin(t, call) ==
    /\ envCall[t].at = "idle"
    /\ call.job \in envLive
    /\ Instant(call.id)
    /\ LET met == {u \in EnvThreads \ {t} :
                      envCall[u].at # "idle" /\ envCall[u].job = call.job}
       IN  envCall' = [u \in EnvThreads |->
              IF u = t THEN [call EXCEPT !.alone = (met = {})]
              ELSE [envCall[u] EXCEPT !.alone = @ /\ u \notin met]]
    /\ UNCHANGED <<envTable, envLive, envFresh, secret>>

\* The answer of t, which has left the table as it is or as it shows.
EnvAnswer(t) ==
    /\ envCall' = [envCall EXCEPT ![t] = Resting]
    /\ UNCHANGED <<envLive, envFresh, envCalls, secret>>

\* POST: the row of that name is looked up ...
SetLoad(t, j, k, value) ==
    EnvBegin(t, [Resting EXCEPT !.at = "write", !.id = envCalls + 1, !.job = j,
                    !.sets[k] = value,
                    !.found = {r \in RowsOf(j) : r[1] = k}])

\* ... and updated by its id, or inserted: an error when it has gone or come.
SetWrite(t) ==
    LET c == envCall[t]
        k == CHOOSE k \in EnvKeys : c.sets[k] # NoRow
        now == {r \in RowsOf(c.job) : r[1] = k}
        old == CHOOSE r \in c.found : TRUE
        id == IF c.found = {} THEN c.id ELSE old[2]
    IN  /\ c.at = "write"
        /\ now \cap LockedFor(t, c.job) = {}
        /\ envTable' = IF now = c.found /\ c.job \in envLive
                       THEN [envTable EXCEPT ![<<c.job, k>>] =
                                Encrypt(c.sets[k], id)]
                       ELSE envTable
        /\ EnvAnswer(t)

\* Seeded bug for BulkIsWhole: only the names of the body are deleted.
BulkDelete_Upsert(t, j, sets, twice) ==
    /\ twice => sets # Nothing
    /\ EnvBegin(t, [Resting EXCEPT !.at = "lock", !.id = envCalls + 1, !.job = j,
                      !.sets = sets, !.twice = twice,
                      !.found = {r \in RowsOf(j) : r[1] \in NamesIn(sets)}])

\* PUT: DELETE ... WHERE job_id = j sees the rows of this moment ...
BulkDelete(t, j, sets, twice) ==
    /\ twice => sets # Nothing
    /\ EnvBegin(t, [Resting EXCEPT !.at = "lock", !.id = envCalls + 1, !.job = j,
                      !.sets = sets, !.twice = twice, !.found = RowsOf(j)])

\* Seeded bug for ReplacedAtOnce: the deletion is committed on its own.
BulkLock_Commits(t) ==
    LET c == envCall[t] IN
    /\ c.at = "lock"
    /\ c.found \cap LockedFor(t, c.job) = {}
    /\ envCall' = [envCall EXCEPT ![t].at = "replace", ![t].found = {}]
    /\ envTable' = [r \in DOMAIN envTable |->
          IF r[1] = c.job /\ envTable[r] # NoRow /\
             <<r[2], envTable[r].id>> \in c.found
          THEN NoRow ELSE envTable[r]]
    /\ UNCHANGED <<envLive, envFresh, envCalls, secret>>

\* ... waits for those that another has locked, and locks what is left ...
BulkLock(t) ==
    LET c == envCall[t] IN
    /\ c.at = "lock"
    /\ c.found \cap LockedFor(t, c.job) = {}
    /\ envCall' = [envCall EXCEPT ![t].at = "replace",
                                  ![t].found = @ \cap RowsOf(c.job)]
    /\ UNCHANGED <<envTable, envLive, envFresh, envCalls, secret>>

\* ... and the commit inserts the body, or nothing at all: the index refuses a
\* name that came since, or twice.
BulkCommit(t) ==
    LET c == envCall[t]
        names == NamesIn(c.sets)
        kept == RowsOf(c.job) \ c.found
        clash == c.twice \/ \E r \in kept : r[1] \in names
    IN  /\ c.at = "replace"
        /\ \A r \in LockedFor(t, c.job) : r[1] \notin names
        /\ envTable' = IF clash \/ c.job \notin envLive THEN envTable
             ELSE [r \in DOMAIN envTable |->
                IF r[1] # c.job \/ \E x \in kept : x[1] = r[2]
                THEN envTable[r]
                ELSE IF r[2] \in names THEN Encrypt(c.sets[r[2]], c.id)
                ELSE NoRow]
        /\ EnvAnswer(t)

\* DELETE /jobs/{id}/env/{key}, in one statement and its commit.
DeleteVar(j, k) ==
    /\ Instant(envCalls + 1)
    /\ envTable[<<j, k>>] # NoRow
    /\ \A t \in EnvThreads : <<k, envTable[<<j, k>>].id>> \notin LockedFor(t, j)
    /\ envTable' = [envTable EXCEPT ![<<j, k>>] = NoRow]
    /\ UNCHANGED <<envLive, envFresh, envCall, secret>>

\* Deleting the job takes its variables, duplicating it copies their tokens.
DeleteOwner(j) ==
    /\ Instant(envCalls + 1)
    /\ j \in envLive
    /\ \A t \in EnvThreads : LockedFor(t, j) = {}
    /\ envLive' = envLive \ {j}
    /\ envTable' = [r \in DOMAIN envTable |->
                       IF r[1] = j THEN NoRow ELSE envTable[r]]
    /\ UNCHANGED <<envFresh, envCall, secret>>

CopyVars(j, copy) ==
    /\ Instant(envCalls + 1)
    /\ j \in envLive /\ copy \in envFresh
    /\ envFresh' = envFresh \ {copy}
    /\ envLive' = envLive \union {copy}
    /\ envTable' = [r \in DOMAIN envTable |->
          IF r[1] # copy \/ envTable[<<j, r[2]>>] = NoRow THEN envTable[r]
          ELSE [envTable[<<j, r[2]>>] EXCEPT !.id = envCalls + 1]]
    /\ UNCHANGED <<envCall, secret>>

\* The server is started anew, under one key or another.
EnvRestart(key) ==
    /\ Instant(envCalls + 1)
    /\ secret' = key
    /\ envCall' = [t \in EnvThreads |-> Resting]
    /\ UNCHANGED <<envTable, envLive, envFresh>>

EnvNext ==
    \/ \E t \in EnvThreads :
          \/ \E j \in EnvJobs :
                \/ \E k \in EnvKeys, v \in EnvValues : SetLoad(t, j, k, v)
                \/ \E sets \in [EnvKeys -> EnvValues \union {NoRow}],
                      twice \in BOOLEAN : BulkDelete(t, j, sets, twice)
          \/ SetWrite(t) \/ BulkLock(t) \/ BulkCommit(t)
    \/ \E j \in EnvJobs :
          \/ \E k \in EnvKeys : DeleteVar(j, k)
          \/ \E copy \in EnvJobs : CopyVars(j, copy)
          \/ DeleteOwner(j)
    \/ \E key \in SecretKeys : EnvRestart(key)

EnvSpec == EnvInit /\ [][EnvNext]_envVars

-----------------------------------------------------------------------------
(* Properties *)

\* The names get_env_vars reads for a job, and what a run gets for one: its
\* value, or NoRow for the text <decryption_failed>.
Names(j) == {k \in EnvKeys : envTable[<<j, k>>] # NoRow}
Environment(j) ==
    [k \in Names(j) |-> IF envTable[<<j, k>>].under = secret
                        THEN envTable[<<j, k>>].plain ELSE NoRow]

Without(j, k) == [n \in Names(j) \ {k} |-> Environment(j)[n]]

\* The request of t is answered, and its body is there, whole, beside what the
\* job had under other names.
BodyAppears(j, t) ==
    LET body == envCall[t].sets IN
    /\ envCall[t].at # "idle" /\ envCall'[t].at = "idle"
    /\ envCall[t].job = j
    /\ NamesIn(body) \subseteq Names(j)'
    /\ \A k \in Names(j)' :
          Environment(j)'[k] = IF k \in NamesIn(body) THEN body[k]
                               ELSE Environment(j)[k]
    /\ Names(j)' \subseteq Names(j) \union NamesIn(body)

\* Whenever the environment a run would get changes, it is the whole body of
\* one request that appears, beside variables that stay as they were, or one
\* name that goes, or the key of the server that changes: a run that starts
\* while the variables are being replaced never gets none of them, or half.
ChangesAtOnce(j) ==
    \/ Environment(j)' = Environment(j)
    \/ secret' # secret /\ envTable' = envTable
    \/ \E k \in Names(j) : Environment(j)' = Without(j, k)
    \/ \E t \in EnvThreads : BodyAppears(j, t)
ReplacedAtOnce == [][\A j \in envLive \cap envLive' : ChangesAtOnce(j)]_envVars

\* A bulk request that met no other leaves the job exactly the variables of
\* its body, or those it had if the body is refused (two bulk requests that
\* overlap may leave a mixture of both bodies).
LeavesItsBody(t, j) ==
    LET c == envCall[t] IN
    (BulkCommit(t) /\ c.alone /\ c.job = j) =>
        Names(j)' = IF c.twice THEN Names(j) ELSE NamesIn(c.sets)
BulkIsWhole ==
    [][\A t \in EnvThreads, j \in envLive : LeavesItsBody(t, j)]_envVars

=============================================================================

----------------------------- MODULE JobRequests -----------------------------
(***************************************************************************)
(* The requests of the jobs API (app/api/job_routes.py over                *)
(* app/services/job_service.py) and the two stores they must keep in step: *)
(* the database, with the tables jobs and job_script_versions, and         *)
(* APScheduler's table of triggers in the server's memory.                 *)
(*                                                                         *)
(* A handler is a thread of the API's pool.  Each value of at names its    *)
(* next database statement or scheduler call.  Statements see the last     *)
(* commit (READ COMMITTED); a commit flushes the pending rows, so it is    *)
(* where the unique index and the foreign keys speak.  Attributes of a     *)
(* loaded row stay as they were read until the handler's own commit, and   *)
(* only those set to a different value are written.                        *)
(***************************************************************************)
EXTENDS Naturals, FiniteSets

CONSTANTS
    Jobs,         \* the ids uuid4 will draw for jobs
    Handlers,     \* threads that serve requests
    Scripts,      \* script contents
    Kinds,        \* script types
    Crons,        \* cron expressions croniter.is_valid accepts
    Odd,          \* those of them that have not exactly five fields
    NewRows,      \* the jobs POST /jobs creates
    Patches,      \* bodies of PATCH /jobs/{id} that are sent
    Calls,        \* the requests this instance lets happen
    MaxRequests,  \* bound on requests
    MaxRestarts,  \* bound on restarts of the server
    None          \* no row, no trigger, a field that is not provided

AllCalls == {"create", "update", "restore", "delete", "duplicate"}

Version == [script : Scripts, kind : Kinds]
Row == [script : Scripts, kind : Kinds, cron : Crons, active : BOOLEAN]
Patch == [script : Scripts \union {None}, kind : Kinds \union {None},
          cron : Crons \union {None}, active : BOOLEAN \union {None}]

ASSUME RequestsAssumption ==
    /\ Odd \subseteq Crons
    /\ NewRows \subseteq Row
    /\ Patches \subseteq Patch
    /\ Calls \subseteq AllCalls
    /\ MaxRequests \in Nat
    /\ MaxRestarts \in Nat
    /\ None \notin Jobs \union Scripts \union Kinds \union Crons
    /\ None \notin Row /\ None \notin BOOLEAN

VARIABLES
    jobs,      \* the table jobs: a row or None for each id
    fresh,     \* the ids not yet drawn
    versions,  \* the table job_script_versions: a set of rows
    sched,     \* APScheduler's table: the registered expression of each id
    req,       \* the request each handler is serving
    served,    \* requests taken so far
    restarts,  \* restarts of the server so far
    adrift,    \* history: ids whose registration no request vouches for
    rewound    \* history: ids restored while another request was at work

dbVars == <<jobs, fresh, versions>>
countVars == <<served, restarts>>
requestVars == <<jobs, fresh, versions, sched, req, served, restarts, adrift,
                 rewound>>

-----------------------------------------------------------------------------
(* Types *)

Places == {"idle", "target", "latest", "commit", "refresh", "register",
           "unregister", "remove", "copy"}

Request == [at : Places,
            call : AllCalls \union {"none"},
            job : Jobs \union {None},   \* the job it may change
            seen : Row \union {None},   \* the job row as it was last read
            patch : Patch,              \* the attributes set on it
            bump : BOOLEAN,             \* whether it will insert a version
            latest : Nat,               \* the highest version number read
            own : BOOLEAN,              \* the job belongs to the caller
            alone : BOOLEAN]            \* history: no other request met it

VersionRow == [job : Jobs, number : Nat, is : Version]

NoPatch == [script |-> None, kind |-> None, cron |-> None, active |-> None]
Idle == [at |-> "idle", call |-> "none", job |-> None, seen |-> None,
         patch |-> NoPatch, bump |-> FALSE, latest |-> 0, own |-> TRUE,
         alone |-> TRUE]

RequestsTypeOK ==
    /\ jobs \in [Jobs -> Row \union {None}]
    /\ fresh \subseteq Jobs
    /\ versions \subseteq VersionRow
    /\ sched \in [Jobs -> Crons \union {None}]
    /\ req \in [Handlers -> Request]
    /\ served \in 0..MaxRequests
    /\ restarts \in 0..MaxRestarts
    /\ adrift \subseteq Jobs
    /\ rewound \subseteq Jobs

RequestsInit ==
    /\ jobs = [j \in Jobs |-> None]
    /\ fresh = Jobs
    /\ versions = {}
    /\ sched = [j \in Jobs |-> None]
    /\ req = [h \in Handlers |-> Idle]
    /\ served = 0
    /\ restarts = 0
    /\ adrift = {}
    /\ rewound = {}

-----------------------------------------------------------------------------
(* Helpers *)

Exists(j) == jobs[j] # None

VersionsOf(j) == {v \in versions : v.job = j}
Numbers(j) == {v.number : v \in VersionsOf(j)}

\* Seeded bug for VersionsContiguous: the query does not filter by job.
Highest_AnyJob(j) ==
    LET ns == {v.number : v \in versions}
    IN  IF ns = {} THEN 0 ELSE CHOOSE n \in ns : \A m \in ns : m <= n

\* SELECT max(version) for the job, or 0.
Highest(j) ==
    IF Numbers(j) = {} THEN 0
    ELSE CHOOSE n \in Numbers(j) : \A m \in Numbers(j) : m <= n

\* The expression as _parse_cron and add_job leave it in the scheduler: one
\* without five fields raises, and the error is only logged.
Parsed(cron) == IF cron \in Odd THEN None ELSE cron

\* What startup() registers for a row, and what the scheduler should hold.
Due(row) == IF row # None /\ row.active THEN Parsed(row.cron) ELSE None

\* Seeded bug for the type invariant: a field the body left out is written.
Sets_Nulls(r, f) == r.patch[f] # r.seen[f]

\* An attribute is written if it was set to something else than what was read.
Sets(r, f) == r.patch[f] # None /\ r.patch[f] # r.seen[f]

\* The row after the UPDATE of a request.
Written(old, r) ==
    LET value(f) == IF Sets(r, f) THEN r.patch[f] ELSE old[f]
    IN  [script |-> value("script"), kind |-> value("kind"),
         cron |-> value("cron"), active |-> value("active")]

\* The version a request inserts: the new script under the type the row will
\* have as far as this request knows.
Snapshot(r) ==
    [script |-> r.patch.script,
     kind |-> IF r.patch.kind # None THEN r.patch.kind ELSE r.seen.kind]

Paused(row) == [row EXCEPT !.active = FALSE]
First(j, row) ==
    [job |-> j, number |-> 1, is |-> [script |-> row.script, kind |-> row.kind]]

-----------------------------------------------------------------------------
(* A request takes a free thread, and it ends. *)

Others(h, j) == {g \in Handlers \ {h} : req[g].job = j}

\* Handler h begins to serve r, possibly amid other requests for the job.
Serve(h, r) ==
    /\ req[h].at = "idle"
    /\ r.call \in Calls
    /\ served < MaxRequests
    /\ served' = served + 1
    /\ LET crowd == IF r.job = None THEN {} ELSE Others(h, r.job)
       IN  /\ req' = [g \in Handlers |->
                IF g = h THEN [r EXCEPT !.alone = crowd = {}]
                ELSE [req[g] EXCEPT !.alone = @ /\ g \notin crowd]]
           /\ adrift' = IF crowd = {} THEN adrift ELSE adrift \union {r.job}
    /\ UNCHANGED restarts

Finish(h) == req' = [req EXCEPT ![h] = Idle]
Go(h, place) == req' = [req EXCEPT ![h].at = place]

\* The answer is an error and the session is rolled back.
Fail(h) == /\ Finish(h)
           /\ UNCHANGED <<dbVars, sched, adrift, rewound>>

-----------------------------------------------------------------------------
(* POST /jobs: the job and its version 1 in one commit. *)

Create(h, j, row) ==
    /\ j \in fresh
    /\ Serve(h, [Idle EXCEPT !.at = "refresh", !.call = "create", !.job = j,
                             !.seen = row])
    /\ fresh' = fresh \ {j}
    /\ jobs' = [jobs EXCEPT ![j] = row]
    /\ versions' = versions \union {First(j, row)}
    /\ UNCHANGED <<sched, rewound>>

\* Seeded bug for HeadIsContent: a new script does not make a version.
UpdateLoad_NoVersion(h, j, patch) ==
    /\ Exists(j)
    /\ Serve(h, [Idle EXCEPT !.at = "commit", !.call = "update", !.job = j,
                             !.seen = jobs[j], !.patch = patch])
    /\ UNCHANGED <<dbVars, sched, rewound>>

(* PATCH /jobs/{id}: the row is read and compared with the body. *)
UpdateLoad(h, j, patch) ==
    /\ Exists(j)
    /\ LET changed == patch.script # None /\ patch.script # jobs[j].script
       IN  Serve(h, [Idle EXCEPT !.at = IF changed THEN "latest" ELSE "commit",
                                 !.call = "update", !.job = j,
                                 !.seen = jobs[j], !.patch = patch,
                                 !.bump = changed])
    /\ UNCHANGED <<dbVars, sched, rewound>>

(* POST /jobs/{id}/versions/{n}/restore: the row, then the version. *)
RestoreLoad(h, j) ==
    /\ Exists(j)
    /\ Serve(h, [Idle EXCEPT !.at = "target", !.call = "restore", !.job = j,
                             !.seen = jobs[j], !.bump = TRUE])
    /\ UNCHANGED <<dbVars, sched, rewound>>

RestoreTarget(h) ==
    /\ req[h].at = "target"
    /\ LET r == req[h] IN
       \/ \E v \in VersionsOf(r.job) :
             req' = [req EXCEPT ![h].at = "latest",
                                ![h].patch.script = v.is.script,
                                ![h].patch.kind = v.is.kind]
       \/ VersionsOf(r.job) = {} /\ Finish(h)
    /\ UNCHANGED <<dbVars, sched, countVars, adrift, rewound>>

\* SELECT max(version), before the row and the version are written.
MaxQuery(h) ==
    /\ req[h].at = "latest"
    /\ req' = [req EXCEPT ![h].at = "commit",
                          ![h].latest = Highest(req[h].job)]
    /\ UNCHANGED <<dbVars, sched, countVars, adrift, rewound>>

\* What the commit of h needs: the row it updates is there (else StaleDataError
\* or a foreign key), and no one has taken the number of its version.
Commits(h) ==
    LET r == req[h]
    IN  Exists(r.job) /\ (r.bump => r.latest + 1 \notin Numbers(r.job))

\* Seeded bug for HistoryImplemented: a taken number replaces its row.
Stored_Overwrite(r) ==
    IF ~r.bump THEN versions
    ELSE {v \in versions : v.job # r.job \/ v.number # r.latest}
         \union {[job |-> r.job, number |-> r.latest, is |-> Snapshot(r)]}

Stored(r) ==
    IF ~r.bump THEN versions
    ELSE versions \union
         {[job |-> r.job, number |-> r.latest + 1, is |-> Snapshot(r)]}

\* db.commit() of an update or a restore.
Commit(h) ==
    /\ req[h].at = "commit"
    /\ LET r == req[h] IN
       \/ /\ Commits(h)
          /\ jobs' = [jobs EXCEPT ![r.job] = Written(@, r)]
          /\ versions' = Stored(r)
          /\ rewound' = IF r.call = "restore" /\ ~r.alone
                        THEN rewound \union {r.job} ELSE rewound
          /\ Go(h, "refresh")
          /\ UNCHANGED <<fresh, sched, adrift>>
       \/ ~Commits(h) /\ Fail(h)
    /\ UNCHANGED countVars

\* db.refresh(job): the answer, and the registration, follow this reading.
Refresh(h) ==
    /\ req[h].at = "refresh"
    /\ LET r == req[h]
           now == jobs[r.job]
           next == IF now.active THEN "register"
                   ELSE IF r.call = "update" THEN "unregister" ELSE "idle"
       IN  \/ /\ Exists(r.job) /\ next # "idle"
              /\ req' = [req EXCEPT ![h].at = next, ![h].seen = now]
              /\ UNCHANGED <<dbVars, sched, adrift, rewound>>
           \/ (Exists(r.job) => next = "idle") /\ Fail(h)
    /\ UNCHANGED countVars

\* Once a request that met no other has registered what it read, the
\* registration is vouched for again.
Vouch(r) == adrift' = IF r.alone THEN adrift \ {r.job} ELSE adrift

\* register_job: remove_job, then add_job with what was parsed.
Register(h) ==
    /\ req[h].at = "register"
    /\ sched' = [sched EXCEPT ![req[h].job] = Parsed(req[h].seen.cron)]
    /\ Finish(h)
    /\ Vouch(req[h])
    /\ UNCHANGED <<dbVars, countVars, rewound>>

\* Seeded bug for RegistrationAgrees: remove_job's errors were all the same.
Unregister_Skip(h) ==
    /\ req[h].at = "unregister"
    /\ Finish(h)
    /\ Vouch(req[h])
    /\ UNCHANGED <<dbVars, sched, countVars, rewound>>

Unregister(h) ==
    /\ req[h].at = "unregister"
    /\ sched' = [sched EXCEPT ![req[h].job] = None]
    /\ Finish(h)
    /\ Vouch(req[h])
    /\ UNCHANGED <<dbVars, countVars, rewound>>

(* DELETE /jobs/{id}: unregistered first, whoever asks.  own is FALSE for a *)
(* caller who is not the owner.                                            *)
DeleteStart(h, j, own) ==
    /\ j \notin fresh
    /\ Serve(h, [Idle EXCEPT !.at = "remove", !.call = "delete", !.job = j,
                             !.own = own])
    /\ sched' = [sched EXCEPT ![j] = None]
    /\ UNCHANGED <<dbVars, rewound>>

\* The row goes, and its versions by the cascade; or 404, and what was
\* unregistered stays so.
DeleteRemove(h) ==
    /\ req[h].at = "remove"
    /\ LET r == req[h] IN
       \/ /\ r.own /\ Exists(r.job)
          /\ jobs' = [jobs EXCEPT ![r.job] = None]
          /\ versions' = versions \ VersionsOf(r.job)
          /\ Vouch(r)
       \/ /\ ~(r.own /\ Exists(r.job))
          /\ adrift' = IF Exists(r.job) THEN adrift \union {r.job} ELSE adrift
          /\ UNCHANGED <<jobs, versions>>
    /\ Finish(h)
    /\ UNCHANGED <<fresh, sched, countVars, rewound>>

(* POST /jobs/{id}/duplicate: the original is read, and a paused copy with *)
(* its own version 1 committed.                                            *)
DuplicateLoad(h, j) ==
    /\ Exists(j)
    /\ Serve(h, [Idle EXCEPT !.at = "copy", !.call = "duplicate",
                             !.seen = jobs[j]])
    /\ UNCHANGED <<dbVars, sched, rewound>>

DuplicateCopy(h, j) ==
    /\ req[h].at = "copy"
    /\ j \in fresh
    /\ fresh' = fresh \ {j}
    /\ LET row == Paused(req[h].seen)
       IN  /\ jobs' = [jobs EXCEPT ![j] = row]
           /\ versions' = versions \union {First(j, row)}
    /\ Finish(h)
    /\ UNCHANGED <<sched, countVars, adrift, rewound>>

-----------------------------------------------------------------------------
(* The process dies and comes back: the requests are lost, the database    *)
(* stays, and startup() registers every active job.                        *)
Restart ==
    /\ restarts < MaxRestarts
    /\ restarts' = restarts + 1
    /\ req' = [h \in Handlers |-> Idle]
    /\ sched' = [j \in Jobs |-> Due(jobs[j])]
    /\ adrift' = {}
    /\ UNCHANGED <<dbVars, served, rewound>>

RequestsNext ==
    \/ \E h \in Handlers, j \in Jobs :
          \/ \E row \in NewRows : Create(h, j, row)
          \/ \E patch \in Patches : UpdateLoad(h, j, patch)
          \/ RestoreLoad(h, j)
          \/ \E own \in BOOLEAN : DeleteStart(h, j, own)
          \/ DuplicateLoad(h, j)
          \/ DuplicateCopy(h, j)
    \/ \E h \in Handlers :
          \/ RestoreTarget(h) \/ MaxQuery(h) \/ Commit(h) \/ Refresh(h)
          \/ Register(h) \/ Unregister(h) \/ DeleteRemove(h)
    \/ Restart

RequestsSpec == RequestsInit /\ [][RequestsNext]_requestVars

-----------------------------------------------------------------------------
(* Properties *)

\* The scheduler holds exactly what the database says, for each job whose last
\* request met no other and was not refused: the trigger of an active job
\* under its expression, and none of a paused or deleted one.  It is the
\* agreement that update_job, create_job, delete_job and startup() keep by
\* hand, with no transaction over both.
RegistrationAgrees ==
    \A j \in Jobs :
        (j \notin adrift /\ \A h \in Handlers : req[h].job # j)
        => sched[j] = Due(jobs[j])

\* The versions of a job are numbered 1, 2, 3 ... with no gap and no number
\* twice, however many updates and restores compute max(version) + 1 at once;
\* a job always has one, and a deleted job none.
VersionsContiguous ==
    \A j \in Jobs :
        LET n == Cardinality(VersionsOf(j))
        IN  Numbers(j) = 1..n /\ (n > 0 <=> Exists(j))

\* The saved versions of a job in the order of their numbers.
History(j) ==
    [n \in Numbers(j) |-> (CHOOSE v \in VersionsOf(j) : v.number = n).is]

Promised == INSTANCE VersionHistory
    WITH Contents <- Version, saved <- [j \in Jobs |-> History(j)],
         drawn <- Jobs \ fresh

\* The requests implement the promise: no interleaving of creations, updates,
\* restores, copies and deletes, and no restart, changes a saved version, takes
\* one away while its job is there, adds one anywhere but at the end, or lets a
\* deleted job's history come back.
HistoryImplemented == Promised!Spec

\* The highest version is the script the job now has, except for jobs restored
\* while another request was at work on them (restore writes only what differs
\* from the row it read at its start).
HeadIsContent ==
    \A j \in Jobs \ rewound : Exists(j) =>
        \E v \in VersionsOf(j) :
            v.number = Highest(j) /\ v.is.script = jobs[j].script

=============================================================================

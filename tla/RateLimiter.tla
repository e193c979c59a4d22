----------------------------- MODULE RateLimiter -----------------------------
(***************************************************************************)
(* The sliding-window limiter of app/api/rate_limit.py.  A request reads   *)
(* the clock before it waits for the lock, the window is cut by the clock  *)
(* as it is under the lock, and the first reading is what is stored.       *)
(***************************************************************************)
EXTENDS Integers, FiniteSets

CONSTANTS
    Clients,      \* threads with a request to one of the endpoints
    Keys,         \* auth:{ip} and login:{ip}
    Limit,        \* max_requests for each key
    Window,       \* window_seconds
    MaxWait,      \* longest wait for the lock
    MaxClock,     \* bound on time
    MaxAttempts   \* bound on requests

ASSUME LimiterAssumption ==
    /\ Limit \in [Keys -> Nat \ {0}]
    /\ Window \in Nat /\ MaxClock \in Nat /\ MaxAttempts \in Nat
    /\ MaxWait \in 0..Window

VARIABLES
    clock,     \* time.monotonic()
    attempts,  \* requests so far
    waiting,   \* the request of each client that waits for the lock, or none
    store,     \* _requests
    accepted   \* history: the requests let through, and when

limiterVars == <<clock, attempts, waiting, store, accepted>>

Attempt == [id : 1..MaxAttempts, key : Keys, stamp : 0..MaxClock]
Accepted == [id : 1..MaxAttempts, key : Keys, at : 0..MaxClock]

LimiterTypeOK ==
    /\ clock \in 0..MaxClock
    /\ attempts \in 0..MaxAttempts
    /\ waiting \in [Clients -> SUBSET Attempt]
    /\ store \subseteq Attempt
    /\ accepted \subseteq Accepted

LimiterInit ==
    /\ clock = 0
    /\ attempts = 0
    /\ waiting = [c \in Clients |-> {}]
    /\ store = {}
    /\ accepted = {}

\* now = time.monotonic(), outside the lock.
Arrive(c, key) ==
    /\ waiting[c] = {}
    /\ attempts < MaxAttempts
    /\ attempts' = attempts + 1
    /\ waiting' = [waiting EXCEPT ![c] =
                     {[id |-> attempts + 1, key |-> key, stamp |-> clock]}]
    /\ UNCHANGED <<clock, store, accepted>>

\* _cleanup_window: only the timestamps of this key are looked at.
Cleaned(key) == {r \in store : r.key # key \/ r.stamp > clock - Window}
Count(key) == Cardinality({r \in Cleaned(key) : r.key = key})

\* Seeded bug for RateBound: one more than the limit passes.
Decide_OffByOne(c, r) ==
    /\ r \in waiting[c]
    /\ waiting' = [waiting EXCEPT ![c] = {}]
    /\ IF Count(r.key) > Limit[r.key]
       THEN store' = Cleaned(r.key) /\ UNCHANGED accepted
       ELSE /\ store' = Cleaned(r.key) \union {r}
            /\ accepted' = accepted \union
                  {[id |-> r.id, key |-> r.key, at |-> clock]}
    /\ UNCHANGED <<clock, attempts>>

\* Under the lock: the answer is 429, or the timestamp is stored.
Decide(c, r) ==
    /\ r \in waiting[c]
    /\ waiting' = [waiting EXCEPT ![c] = {}]
    /\ IF Count(r.key) >= Limit[r.key]
       THEN store' = Cleaned(r.key) /\ UNCHANGED accepted
       ELSE /\ store' = Cleaned(r.key) \union {r}
            /\ accepted' = accepted \union
                  {[id |-> r.id, key |-> r.key, at |-> clock]}
    /\ UNCHANGED <<clock, attempts>>

\* Time passes, no one waits for the lock longer than MaxWait.
LimiterTick ==
    /\ clock < MaxClock
    /\ \A c \in Clients : \A r \in waiting[c] : clock - r.stamp < MaxWait
    /\ clock' = clock + 1
    /\ UNCHANGED <<attempts, waiting, store, accepted>>

LimiterNext ==
    \/ \E c \in Clients, key \in Keys : Arrive(c, key)
    \/ \E c \in Clients : \E r \in waiting[c] : Decide(c, r)
    \/ LimiterTick

LimiterSpec == LimiterInit /\ [][LimiterNext]_limiterVars

\* However requests wait for the lock and whichever order they get it in, no
\* more than Limit of a key are let through in any Window shortened by the
\* longest wait (a timestamp older than its decision leaves the window that
\* much earlier), and the store never holds more than Limit timestamps of it.
RateBound ==
    \A key \in Keys :
        /\ Cardinality({r \in store : r.key = key}) <= Limit[key]
        /\ \A end \in 0..clock :
              Cardinality({a \in accepted :
                  /\ a.key = key
                  /\ a.at \in (end - (Window - MaxWait) + 1)..end}) <= Limit[key]

=============================================================================

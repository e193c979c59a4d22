-------------------------- MODULE JobRequestsProofs --------------------------
(***************************************************************************)
(* That the scheduler and the database agree, and that the version history *)
(* is whole, for any number of jobs, handlers, requests and restarts.      *)
(*                                                                         *)
(* Two requests for one job may interleave in any way; what saves the      *)
(* agreement is that a request that meets no other is alone from its first *)
(* statement to its last (Apart), so what it has read is still so          *)
(* (Steady).  The history needs no such thing: the index refuses a number  *)
(* that is taken, and the numbers of a job that exists only grow (Latest). *)
(***************************************************************************)
EXTENDS JobRequests, Sequences, FiniteSetTheorems, FunctionTheorems, TLAPS

\* An id uuid4 has still to draw is in no table and with no request.
FreshIds ==
    \A j \in fresh : /\ jobs[j] = None /\ sched[j] = None
                     /\ VersionsOf(j) = {}
                     /\ \A h \in Handlers : req[h].job # j

\* The versions of a job, without their count.
Whole(j) ==
    /\ \A v, w \in VersionsOf(j) : v.number = w.number => v = w
    /\ \E n \in Nat : Numbers(j) = 1..n /\ (n > 0 <=> Exists(j))

Histories == \A j \in Jobs : Whole(j)

\* What a request carries at each of its statements.
Local(r) ==
    /\ r.job = None <=> r.at \in {"idle", "copy"}
    /\ r.at \in {"target", "latest", "commit", "copy", "register"} =>
          r.seen \in Row
    /\ r.at \in {"target", "latest", "commit"} => r.call \in {"update", "restore"}
    /\ r.at = "target" => r.call = "restore"
    /\ r.at \in {"target", "latest"} => r.bump
    /\ r.at \in {"latest", "commit"} =>
          /\ r.bump => r.patch.script \in Scripts
          /\ (r.call = "update" /\ r.bump) => r.patch.script # r.seen.script
          /\ ~r.bump => r.call = "update" /\ r.patch.script \in {None, r.seen.script}
    /\ (r.at \in {"target", "latest", "commit"} /\ r.call = "restore") =>
          r.patch.cron = None /\ r.patch.active = None

Locals == \A h \in Handlers : Local(req[h])

Latest ==
    \A h \in Handlers : LET r == req[h] IN
        (r.at = "commit" /\ r.bump /\ jobs[r.job] # None) =>
            \E v \in versions : v.job = r.job /\ v.number = r.latest

Apart ==
    \A g, h \in Handlers :
        (req[h].alone /\ req[h].job # None /\ req[g].job = req[h].job) => g = h

Vouched ==
    \A h \in Handlers :
        (req[h].job # None /\ req[h].job \notin adrift) => req[h].alone

\* What holds for a request r that is alone: row and trigger are those of its
\* job, and vouched says that the registration is.
SteadyFor(r, row, trigger, vouched) ==
    /\ r.at \in {"target", "latest", "commit"} => row = r.seen
    /\ r.at \in {"refresh", "unregister"} => row # None
    /\ r.at = "register" => row = r.seen /\ r.seen.active
    /\ r.at = "unregister" => ~row.active
    /\ r.at = "remove" => trigger = None
    /\ vouched =>
          /\ r.at \in {"target", "latest", "commit"} => trigger = Due(row)
          /\ (r.at = "refresh" /\ r.call # "update" /\ ~row.active) =>
                trigger = None

\* The newest version of a job is its script.
HeadRight(j) ==
    \E v \in VersionsOf(j) :
        Numbers(j) = 1..v.number /\ v.is.script = jobs[j].script

Heads == \A j \in Jobs \ rewound : Exists(j) => HeadRight(j)

Steady ==
    \A h \in Handlers : LET r == req[h] IN
        (r.job # None /\ r.alone) =>
            SteadyFor(r, jobs[r.job], sched[r.job], r.job \notin adrift)

IInv ==
    /\ RequestsTypeOK
    /\ FreshIds
    /\ Histories
    /\ Locals
    /\ Latest
    /\ Apart
    /\ Vouched
    /\ Steady
    /\ RegistrationAgrees
    /\ Heads

-----------------------------------------------------------------------------
(* Basic facts *)

LEMMA IdleRequest ==
    /\ Idle \in Request /\ Local(Idle)
    /\ NoPatch \in Patch
    /\ Idle.at = "idle" /\ Idle.job = None
BY RequestsAssumption
   DEF Idle, NoPatch, Request, Patch, Places, AllCalls, Local

LEMMA WithoutJob ==
    ASSUME Locals, NEW h \in Handlers, req[h].at = "idle"
    PROVE  req[h].job = None
BY DEF Locals, Local

\* The newest number of a whole history is its length.
LEMMA HighestIs ==
    ASSUME NEW j \in Jobs, NEW n \in Nat, Numbers(j) = 1..n
    PROVE  Highest(j) = n
<1>1. CASE n = 0
  BY <1>1 DEF Highest
<1>2. CASE n # 0
  <2>1. n \in Numbers(j) /\ \A m \in Numbers(j) : m <= n
    BY <1>2
  <2>2. \A k \in Numbers(j) : (\A m \in Numbers(j) : m <= k) => k = n
    BY <2>1
  <2>3. QED
    BY <2>1, <2>2 DEF Highest
<1>3. QED
  BY <1>1, <1>2

\* What Serve does to the requests and to the jobs nobody vouches for.
LEMMA ServeEffect ==
    ASSUME RequestsTypeOK, Locals, NEW h \in Handlers, NEW r \in Request,
           r.job # None, Serve(h, r)
    PROVE  /\ req' \in [Handlers -> Request]
           /\ served' \in 0..MaxRequests /\ restarts' = restarts
           /\ adrift' \subseteq Jobs
           /\ req[h].at = "idle" /\ req[h].job = None
           /\ req'[h] = [r EXCEPT !.alone = req'[h].alone]
           /\ req'[h].alone =>
                 /\ \A g \in Handlers : req[g].job # r.job
                 /\ adrift' = adrift
           /\ ~req'[h].alone => r.job \in adrift'
           /\ \A j \in Jobs : j # r.job => (j \in adrift' <=> j \in adrift)
           /\ \A g \in Handlers \ {h} :
                 /\ req'[g] = [req[g] EXCEPT !.alone = req'[g].alone]
                 /\ req'[g].alone => req[g].alone /\ req[g].job # r.job
                 /\ req[g].alone /\ req[g].job # r.job => req'[g].alone
           /\ adrift \subseteq adrift'
<1> DEFINE crowd == Others(h, r.job)
<1>1. /\ req[h].at = "idle" /\ served < MaxRequests
      /\ served' = served + 1 /\ restarts' = restarts
      /\ req' = [g \in Handlers |->
             IF g = h THEN [r EXCEPT !.alone = crowd = {}]
             ELSE [req[g] EXCEPT !.alone = @ /\ g \notin crowd]]
      /\ adrift' = IF crowd = {} THEN adrift ELSE adrift \union {r.job}
  BY DEF Serve
<1>2. req[h].job = None
  BY <1>1, WithoutJob
<1>3. \A g \in Handlers : g \in crowd <=> g # h /\ req[g].job = r.job
  BY DEF Others
<1>4. \A q \in Request, b \in BOOLEAN :
          /\ [q EXCEPT !.alone = b] \in Request
          /\ [q EXCEPT !.alone = b].alone = b
  BY DEF Request
<1>5. r.job \in Jobs
  BY DEF Request
<1> HIDE DEF crowd
<1>6. \A g \in Handlers : req[g] \in Request /\ req[g].alone \in BOOLEAN
  BY DEF RequestsTypeOK, Request
<1>7. req' \in [Handlers -> Request]
  BY <1>1, <1>4, <1>6
<1>8. req'[h].alone = (crowd = {}) /\ req'[h] = [r EXCEPT !.alone = crowd = {}]
  BY <1>1, <1>4
<1>9. ASSUME NEW g \in Handlers \ {h}
      PROVE  /\ req'[g] = [req[g] EXCEPT !.alone = req'[g].alone]
             /\ req'[g].alone <=> req[g].alone /\ req[g].job # r.job
  <2> DEFINE b == req[g].alone /\ g \notin crowd
  <2>1. req'[g] = [req[g] EXCEPT !.alone = b]
    BY <1>1
  <2>2. b \in BOOLEAN
    BY <1>6
  <2>3. req'[g].alone = b
    BY <2>1, <2>2, <1>4, <1>6
  <2>4. b <=> req[g].alone /\ req[g].job # r.job
    BY <1>3, <1>6
  <2> HIDE DEF b
  <2>5. QED
    BY <2>1, <2>3, <2>4
<1>10. served' \in 0..MaxRequests /\ adrift' \subseteq Jobs
  BY <1>1, <1>5, RequestsAssumption DEF RequestsTypeOK
<1>11. req'[h].alone => adrift' = adrift /\ \A g \in Handlers : req[g].job # r.job
  BY <1>1, <1>2, <1>3, <1>8
<1>12. ~req'[h].alone => r.job \in adrift'
  BY <1>1, <1>8
<1>13. /\ adrift \subseteq adrift'
       /\ \A j \in Jobs : j # r.job => (j \in adrift' <=> j \in adrift)
  BY <1>1
<1>14. QED
  BY <1>1, <1>2, <1>7, <1>8, <1>9, <1>10, <1>11, <1>12, <1>13

LEMMA SameButAlone ==
    ASSUME NEW r \in Request, NEW b, NEW q, q = [r EXCEPT !.alone = b]
    PROVE  /\ q.at = r.at /\ q.call = r.call /\ q.job = r.job
           /\ q.seen = r.seen /\ q.patch = r.patch /\ q.bump = r.bump
           /\ q.latest = r.latest
           /\ Local(q) <=> Local(r)
<1>1. /\ q.at = r.at /\ q.call = r.call /\ q.job = r.job
      /\ q.seen = r.seen /\ q.patch = r.patch /\ q.bump = r.bump
      /\ q.latest = r.latest
  BY DEF Request
<1>2. QED
  BY <1>1 DEF Local

\* A request that starts: the parts of the invariant that are only about the
\* requests.  Steadiness of the others survives as long as no other job's
\* row, trigger or versions change.
LEMMA ServeRequests ==
    ASSUME IInv, NEW h \in Handlers, NEW r \in Request, r.job # None,
           Local(r), Serve(h, r), r.at # "commit" \/ ~r.bump,
           \A j \in Jobs : j # r.job =>
              jobs'[j] = jobs[j] /\ sched'[j] = sched[j],
           versions \subseteq versions',
           \A v \in versions' : v \in versions \/ v.job = r.job,
           fresh' \subseteq fresh, r.job \notin fresh',
           jobs'[r.job] # None =>
              jobs[r.job] # None \/ \A g \in Handlers : req[g].job # r.job,
           req'[h].alone =>
              SteadyFor(req'[h], jobs'[r.job], sched'[r.job], r.job \notin adrift')
    PROVE  /\ Locals' /\ Latest' /\ Apart' /\ Vouched' /\ Steady'
           /\ FreshIds' /\ RegistrationAgrees'
<1> USE DEF IInv
<1> DEFINE other(g) == /\ req'[g] = [req[g] EXCEPT !.alone = req'[g].alone]
                       /\ req'[g].alone => req[g].alone /\ req[g].job # r.job
                       /\ req[g].alone /\ req[g].job # r.job => req'[g].alone
<1>1. /\ req' \in [Handlers -> Request]
      /\ req[h].job = None
      /\ req'[h] = [r EXCEPT !.alone = req'[h].alone]
      /\ req'[h].alone => \A g \in Handlers : req[g].job # r.job
      /\ ~req'[h].alone => r.job \in adrift'
      /\ \A j \in Jobs : j # r.job => (j \in adrift' <=> j \in adrift)
      /\ \A g \in Handlers \ {h} : other(g)
  <2> HIDE DEF IInv
  <2>1. /\ RequestsTypeOK /\ Locals /\ h \in Handlers /\ r \in Request
        /\ r.job # None /\ Serve(h, r)
    BY DEF IInv
  <2>2. QED
    BY ONLY <2>1, ServeEffect
<1>2. \A g \in Handlers : req[g] \in Request /\ req'[g] \in Request
  BY <1>1 DEF RequestsTypeOK
<1>3. /\ req'[h].at = r.at /\ req'[h].job = r.job /\ req'[h].bump = r.bump
      /\ Local(req'[h])
  <2>1. r \in Request /\ req'[h] = [r EXCEPT !.alone = req'[h].alone] /\ Local(r)
    BY <1>1
  <2>2. QED
    BY ONLY <2>1, SameButAlone
<1>4. ASSUME NEW g \in Handlers \ {h}
      PROVE  /\ req'[g].at = req[g].at /\ req'[g].call = req[g].call
             /\ req'[g].job = req[g].job /\ req'[g].seen = req[g].seen
             /\ req'[g].bump = req[g].bump /\ req'[g].latest = req[g].latest
             /\ Local(req'[g])
             /\ req'[g].alone => req[g].alone /\ req[g].job # r.job
             /\ req[g].alone /\ req[g].job # r.job => req'[g].alone
  <2>1. /\ req[g] \in Request /\ Local(req[g])
        /\ req'[g] = [req[g] EXCEPT !.alone = req'[g].alone]
        /\ req'[g].alone => req[g].alone /\ req[g].job # r.job
        /\ req[g].alone /\ req[g].job # r.job => req'[g].alone
    BY <1>1, <1>2 DEF Locals
  <2>2. QED
    BY ONLY <2>1, SameButAlone
<1> HIDE DEF other
<1>5. Locals'
  BY <1>3, <1>4 DEF Locals
<1>6. Latest'
  <2> SUFFICES ASSUME NEW g \in Handlers, req'[g].at = "commit", req'[g].bump,
                      jobs'[req'[g].job] # None
               PROVE  \E v \in versions' :
                         v.job = req'[g].job /\ v.number = req'[g].latest
    BY DEF Latest
  <2>1. g # h
    BY <1>3
  <2>2. req[g].job \in Jobs
    BY <1>2, <2>1, <1>4 DEF Locals, Local, Request
  <2>3. jobs[req[g].job] # None
    BY <2>1, <2>2, <1>4
  <2>4. QED
    BY <2>1, <2>3, <1>4 DEF Latest
<1>7. Apart'
  <2> SUFFICES ASSUME NEW g \in Handlers, NEW k \in Handlers, req'[k].alone,
                      req'[k].job # None, req'[g].job = req'[k].job
               PROVE  g = k
    BY DEF Apart
  <2>1. CASE g = h \/ k = h
    BY <2>1, <1>1, <1>3, <1>4
  <2>2. CASE g # h /\ k # h
    BY <2>2, <1>4 DEF Apart
  <2>3. QED
    BY <2>1, <2>2
<1>8. Vouched'
  <2> SUFFICES ASSUME NEW g \in Handlers, req'[g].job # None,
                      req'[g].job \notin adrift'
               PROVE  req'[g].alone
    BY DEF Vouched
  <2>1. CASE g = h
    BY <2>1, <1>1, <1>3
  <2>2. CASE g # h
    <3>1. req[g].job \in Jobs
      BY <2>2, <1>2, <1>4 DEF Request
    <3>2. CASE req[g].job = r.job
      <4>1. r.job \notin adrift'
        BY <2>2, <3>2, <1>4
      <4>2. req'[h].alone
        BY <4>1, <1>1
      <4>3. QED
        BY <4>2, <3>2, <1>1
    <3>3. CASE req[g].job # r.job
      BY <2>2, <3>1, <3>3, <1>1, <1>4 DEF Vouched
    <3>4. QED
      BY <3>2, <3>3
  <2>3. QED
    BY <2>1, <2>2
<1>9. Steady'
  <2> SUFFICES ASSUME NEW g \in Handlers, req'[g].job # None, req'[g].alone
               PROVE  SteadyFor(req'[g], jobs'[req'[g].job], sched'[req'[g].job],
                                req'[g].job \notin adrift')
    BY DEF Steady
  <2>1. CASE g = h
    BY <2>1, <1>3
  <2>2. CASE g # h
    <3>1. req[g].job \in Jobs /\ req[g].job # r.job /\ req[g].alone
      BY <2>2, <1>2, <1>4 DEF Request
    <3>2. SteadyFor(req[g], jobs[req[g].job], sched[req[g].job],
                    req[g].job \notin adrift)
      BY <3>1, <2>2, <1>4 DEF Steady
    <3>3. (req[g].job \in adrift') = (req[g].job \in adrift)
      BY <3>1, <1>1
    <3>4. QED
      BY <2>2, <3>1, <3>2, <3>3, <1>4 DEF SteadyFor
  <2>3. QED
    BY <2>1, <2>2
<1>10. FreshIds'
  <2> SUFFICES ASSUME NEW j \in fresh'
               PROVE  /\ jobs'[j] = None /\ sched'[j] = None
                      /\ VersionsOf(j)' = {}
                      /\ \A g \in Handlers : req'[g].job # j
    BY DEF FreshIds
  <2>1. j \in fresh /\ j \in Jobs /\ j # r.job
    BY DEF RequestsTypeOK
  <2>2. /\ jobs[j] = None /\ sched[j] = None /\ VersionsOf(j) = {}
        /\ \A g \in Handlers : req[g].job # j
    BY <2>1 DEF FreshIds
  <2>3. VersionsOf(j)' = {}
    BY <2>1, <2>2 DEF VersionsOf
  <2>4. QED
    BY <2>1, <2>2, <2>3, <1>3, <1>4
<1>11. RegistrationAgrees'
  <2> SUFFICES ASSUME NEW j \in Jobs, j \notin adrift',
                      \A g \in Handlers : req'[g].job # j
               PROVE  sched'[j] = Due(jobs'[j])
    BY DEF RegistrationAgrees, Due
  <2>1. j # r.job
    BY <1>3
  <2>2. \A g \in Handlers : req[g].job # j
    BY <1>1, <1>4, RequestsAssumption
  <2>3. QED
    BY <2>1, <2>2, <1>1 DEF RegistrationAgrees
<1>12. QED
  BY <1>5, <1>6, <1>7, <1>8, <1>9, <1>10, <1>11

\* A request that goes on to q, or ends.  Only the job x changes: its own, or
\* one that no request has.
LEMMA MoveRequests ==
    ASSUME IInv, NEW h \in Handlers, NEW q \in Request, NEW x \in Jobs \union {None},
           req' = [req EXCEPT ![h] = q], Local(q),
           \/ q.job = None
           \/ q.job = req[h].job /\ q.alone = req[h].alone,
           \/ x = req[h].job
           \/ req[h].job = None /\ \A g \in Handlers : req[g].job # x,
           \A j \in Jobs : j # x =>
              /\ jobs'[j] = jobs[j] /\ sched'[j] = sched[j]
              /\ j \in adrift' <=> j \in adrift,
           (x = req[h].job /\ (~req[h].alone \/ q.job = x)) =>
              (x \in adrift => x \in adrift'),
           \A v \in versions : v \in versions' \/ jobs'[v.job] = None,
           \A v \in versions' : v \in versions \/ v.job = x,
           fresh' \subseteq fresh, x \notin fresh',
           (x \in Jobs /\ x = req[h].job /\ jobs'[x] # None) => jobs[x] # None,
           (q.at = "commit" /\ q.bump /\ jobs'[q.job] # None) =>
              \E v \in versions' : v.job = q.job /\ v.number = q.latest,
           (q.job # None /\ q.alone) =>
              SteadyFor(q, jobs'[q.job], sched'[q.job], q.job \notin adrift'),
           (x \in Jobs /\ q.job # x /\ x \notin adrift' /\
               \A g \in Handlers \ {h} : req[g].job # x) =>
              sched'[x] = Due(jobs'[x])
    PROVE  /\ Locals' /\ Latest' /\ Apart' /\ Vouched' /\ Steady'
           /\ FreshIds' /\ RegistrationAgrees'
<1>1. /\ RequestsTypeOK /\ Locals /\ Latest /\ Apart /\ Vouched /\ Steady
      /\ FreshIds /\ RegistrationAgrees
  BY DEF IInv
<1>2. req'[h] = q /\ \A g \in Handlers \ {h} : req'[g] = req[g]
  BY <1>1 DEF RequestsTypeOK
<1>3. \A g \in Handlers : req[g] \in Request /\ req[g].job \in Jobs \union {None}
  BY <1>1 DEF RequestsTypeOK, Request
\* Another request for x is not alone.
<1>4. \A g \in Handlers \ {h} :
         (req[g].job = x /\ x # None) => ~req[g].alone /\ ~req[h].alone
  BY <1>1 DEF Apart
<1>5. Locals'
  BY <1>1, <1>2 DEF Locals
<1>6. Latest'
  <2> SUFFICES ASSUME NEW g \in Handlers, req'[g].at = "commit", req'[g].bump,
                      jobs'[req'[g].job] # None
               PROVE  \E v \in versions' :
                         v.job = req'[g].job /\ v.number = req'[g].latest
    BY DEF Latest
  <2>1. CASE g = h
    BY <2>1, <1>2
  <2>2. CASE g # h
    <3>1. req[g].job \in Jobs
      BY <2>2, <1>1, <1>2, <1>3 DEF Locals, Local
    <3>2. jobs[req[g].job] # None
      BY <2>2, <3>1, <1>2
    <3>3. QED
      BY <2>2, <3>2, <1>1, <1>2 DEF Latest
  <2>3. QED
    BY <2>1, <2>2
<1>7. Apart'
  <2> SUFFICES ASSUME NEW g \in Handlers, NEW k \in Handlers, req'[k].alone,
                      req'[k].job # None, req'[g].job = req'[k].job
               PROVE  g = k
    BY DEF Apart
  <2>1. \A f \in Handlers : req'[f].job # None =>
            req'[f].job = req[f].job /\ req'[f].alone = req[f].alone
    BY <1>2
  <2>2. QED
    BY <2>1, <1>1 DEF Apart
<1>8. Vouched'
  <2> SUFFICES ASSUME NEW g \in Handlers, req'[g].job # None,
                      req'[g].job \notin adrift'
               PROVE  req'[g].alone
    BY DEF Vouched
  <2>1. req'[g].job = req[g].job /\ req'[g].alone = req[g].alone
    BY <1>2
  <2>2. CASE req[g].job # x
    BY <2>1, <2>2, <1>1, <1>3 DEF Vouched
  <2>3. CASE req[g].job = x /\ g = h
    BY <2>1, <2>3, <1>1, <1>2 DEF Vouched
  <2>4. CASE req[g].job = x /\ g # h
    <3>1. ~req[g].alone /\ ~req[h].alone /\ x = req[h].job
      BY <2>1, <2>4, <1>4
    <3>2. x \notin adrift
      BY <2>1, <2>4, <3>1
    <3>3. QED
      BY <3>1, <3>2, <2>1, <2>4, <1>1 DEF Vouched
  <2>5. QED
    BY <2>2, <2>3, <2>4
<1>9. Steady'
  <2> SUFFICES ASSUME NEW g \in Handlers, req'[g].job # None, req'[g].alone
               PROVE  SteadyFor(req'[g], jobs'[req'[g].job], sched'[req'[g].job],
                                req'[g].job \notin adrift')
    BY DEF Steady
  <2>1. CASE g = h
    BY <2>1, <1>2
  <2>2. CASE g # h
    <3>1. req'[g] = req[g] /\ req[g].job \in Jobs /\ req[g].job # x
      BY <2>2, <1>2, <1>3, <1>4
    <3>2. SteadyFor(req[g], jobs[req[g].job], sched[req[g].job],
                    req[g].job \notin adrift)
      BY <3>1, <1>1 DEF Steady
    <3>3. (req[g].job \in adrift') = (req[g].job \in adrift)
      BY <3>1
    <3>4. QED
      BY <3>1, <3>2, <3>3 DEF SteadyFor
  <2>3. QED
    BY <2>1, <2>2
<1>10. FreshIds'
  <2> SUFFICES ASSUME NEW j \in fresh'
               PROVE  /\ jobs'[j] = None /\ sched'[j] = None
                      /\ VersionsOf(j)' = {}
                      /\ \A g \in Handlers : req'[g].job # j
    BY DEF FreshIds
  <2>1. j \in fresh /\ j \in Jobs /\ j # x
    BY <1>1 DEF RequestsTypeOK
  <2>2. /\ jobs[j] = None /\ sched[j] = None /\ VersionsOf(j) = {}
        /\ \A g \in Handlers : req[g].job # j
    BY <2>1, <1>1 DEF FreshIds
  <2>3. VersionsOf(j)' = {}
    BY <2>1, <2>2 DEF VersionsOf
  <2>4. j # None
    BY <2>1, RequestsAssumption
  <2>5. QED
    BY <2>1, <2>2, <2>3, <2>4, <1>2
<1>11. RegistrationAgrees'
  <2> SUFFICES ASSUME NEW j \in Jobs, j \notin adrift',
                      \A g \in Handlers : req'[g].job # j
               PROVE  sched'[j] = Due(jobs'[j])
    BY DEF RegistrationAgrees, Due
  <2>1. CASE j = x
    BY <2>1, <1>2
  <2>2. CASE j # x
    <3>1. CASE req[h].job # j
      BY <2>2, <3>1, <1>1, <1>2 DEF RegistrationAgrees
    <3>2. req[h].job # j
      BY <2>2, RequestsAssumption
    <3>3. QED
      BY <3>1, <3>2
  <2>3. QED
    BY <2>1, <2>2
<1>12. QED
  BY <1>5, <1>6, <1>7, <1>8, <1>9, <1>10, <1>11

-----------------------------------------------------------------------------
(* The version history *)

\* Only the row, the versions or the excuse of job j changed.
LEMMA OneJob ==
    ASSUME Histories, Heads, NEW j \in Jobs,
           \A k \in Jobs : k # j =>
              VersionsOf(k)' = VersionsOf(k) /\ jobs'[k] = jobs[k],
           rewound \subseteq rewound', Whole(j)',
           (j \notin rewound' /\ Exists(j)') => HeadRight(j)'
    PROVE  Histories' /\ Heads'
<1>1. ASSUME NEW k \in Jobs, k # j
      PROVE  Whole(k)' /\ (k \notin rewound' /\ Exists(k)' => HeadRight(k)')
  <2>1. VersionsOf(k)' = VersionsOf(k) /\ jobs'[k] = jobs[k]
    BY <1>1
  <2>2. Numbers(k)' = Numbers(k) /\ (Exists(k)' <=> Exists(k))
    BY <2>1 DEF Numbers, Exists
  <2>3. Whole(k)'
    BY <2>1, <2>2 DEF Whole, Histories
  <2>4. k \notin rewound' /\ Exists(k)' => HeadRight(k)'
    BY <2>1, <2>2 DEF Heads, HeadRight
  <2>5. QED
    BY <2>3, <2>4
<1>2. QED
  BY <1>1 DEF Histories, Heads

LEMMA DbSame ==
    ASSUME Histories, Heads, UNCHANGED <<dbVars, rewound>>
    PROVE  Histories' /\ Heads'
BY DEF Histories, Heads, Whole, HeadRight, Numbers, VersionsOf, Exists, dbVars

\* A job appears together with its version 1.
LEMMA FirstVersion ==
    ASSUME IInv, NEW j \in fresh, NEW row \in Row,
           jobs' = [jobs EXCEPT ![j] = row],
           versions' = versions \union {First(j, row)},
           rewound' = rewound
    PROVE  Histories' /\ Heads' /\ First(j, row) \in VersionRow
<1>1. /\ jobs \in [Jobs -> Row \union {None}] /\ j \in Jobs
      /\ VersionsOf(j) = {} /\ Histories /\ Heads /\ None \notin Row
  BY RequestsAssumption DEF IInv, RequestsTypeOK, FreshIds
<1>2. /\ First(j, row).job = j /\ First(j, row).number = 1
      /\ First(j, row).is.script = row.script /\ First(j, row) \in VersionRow
  BY <1>1 DEF First, VersionRow, Version, Row
<1>3. VersionsOf(j)' = {First(j, row)}
  BY <1>1, <1>2 DEF VersionsOf
<1>4. \A k \in Jobs : k # j => VersionsOf(k)' = VersionsOf(k) /\ jobs'[k] = jobs[k]
  BY <1>1, <1>2 DEF VersionsOf
<1>5. Numbers(j)' = 1..1
  <2>1. Numbers(j)' = {1}
    BY <1>2, <1>3 DEF Numbers
  <2>2. QED
    BY <2>1
<1>6. jobs'[j] = row /\ Exists(j)'
  BY <1>1 DEF Exists
<1>7. Whole(j)'
  <2>1. 1 \in Nat /\ (1 > 0 <=> Exists(j)')
    BY <1>6
  <2>2. QED
    BY <1>3, <1>5, <2>1 DEF Whole
<1>8. HeadRight(j)'
  BY <1>2, <1>3, <1>5, <1>6 DEF HeadRight
<1>9. QED
  BY <1>1, <1>2, <1>4, <1>7, <1>8, OneJob

-----------------------------------------------------------------------------
(* The requests that begin *)

LEMMA CreateStep ==
    ASSUME IInv, NEW h \in Handlers, NEW j \in Jobs, NEW row \in NewRows,
           Create(h, j, row)
    PROVE  IInv'
<1> DEFINE r == [Idle EXCEPT !.at = "refresh", !.call = "create", !.job = j,
                             !.seen = row]
<1>1. /\ RequestsTypeOK /\ FreshIds /\ Locals /\ row \in Row /\ j # None
      /\ row # None
  BY RequestsAssumption DEF IInv
<1>2. /\ j \in fresh /\ Serve(h, r) /\ fresh' = fresh \ {j}
      /\ jobs' = [jobs EXCEPT ![j] = row]
      /\ versions' = versions \union {First(j, row)}
      /\ sched' = sched /\ rewound' = rewound
  BY DEF Create
<1>3. /\ r \in Request /\ r.job = j /\ r.at = "refresh" /\ Local(r)
  BY <1>1, IdleRequest DEF Idle, Request, Places, AllCalls, Local
<1> HIDE DEF r
<1>4. Histories' /\ Heads' /\ First(j, row) \in VersionRow
  BY <1>1, <1>2, FirstVersion
<1>5. /\ req' \in [Handlers -> Request] /\ served' \in 0..MaxRequests
      /\ restarts' = restarts /\ adrift' \subseteq Jobs
      /\ req'[h] = [r EXCEPT !.alone = req'[h].alone]
  BY <1>1, <1>2, <1>3, ServeEffect
<1>6. RequestsTypeOK'
  BY <1>1, <1>2, <1>4, <1>5 DEF RequestsTypeOK
<1>7. /\ jobs'[j] = row /\ sched'[j] = None /\ \A g \in Handlers : req[g].job # j
      /\ \A k \in Jobs : k # j => jobs'[k] = jobs[k] /\ sched'[k] = sched[k]
  BY <1>1, <1>2 DEF RequestsTypeOK, FreshIds
<1>8. SteadyFor(req'[h], jobs'[r.job], sched'[r.job], r.job \notin adrift')
  <2>1. req'[h].at = "refresh"
    BY <1>3, <1>5, SameButAlone
  <2>2. QED
    BY <2>1, <1>1, <1>3, <1>7 DEF SteadyFor
<1>9. /\ Locals' /\ Latest' /\ Apart' /\ Vouched' /\ Steady'
      /\ FreshIds' /\ RegistrationAgrees'
  <2>1. \A v \in versions' : v \in versions \/ v.job = r.job
    BY <1>2, <1>3 DEF First
  <2>2. QED
    BY <2>1, <1>1, <1>2, <1>3, <1>7, <1>8, ServeRequests
<1>10. QED
  BY <1>4, <1>6, <1>9 DEF IInv

\* An update or a restore that has read its job.
LEMMA LoadStep ==
    ASSUME IInv, NEW h \in Handlers, NEW j \in Jobs, NEW r \in Request,
           Exists(j), Serve(h, r), Local(r), r.job = j, r.seen = jobs[j],
           r.at \in {"target", "latest", "commit"}, r.at # "commit" \/ ~r.bump,
           UNCHANGED <<dbVars, sched, rewound>>
    PROVE  IInv'
<1>1. /\ RequestsTypeOK /\ FreshIds /\ Locals /\ RegistrationAgrees
      /\ Histories /\ Heads /\ j # None
  BY RequestsAssumption DEF IInv
<1>2. /\ jobs' = jobs /\ fresh' = fresh /\ versions' = versions
      /\ sched' = sched /\ rewound' = rewound
  BY DEF dbVars
<1>3. /\ req' \in [Handlers -> Request] /\ served' \in 0..MaxRequests
      /\ restarts' = restarts /\ adrift' \subseteq Jobs
      /\ req'[h] = [r EXCEPT !.alone = req'[h].alone]
      /\ req'[h].alone => /\ \A g \in Handlers : req[g].job # j
                          /\ adrift' = adrift
  BY <1>1, ServeEffect
<1>4. RequestsTypeOK'
  BY <1>1, <1>2, <1>3 DEF RequestsTypeOK
<1>5. Histories' /\ Heads'
  BY <1>1, DbSame
<1>6. j \notin fresh /\ jobs[j] # None
  BY <1>1 DEF FreshIds, Exists
<1>7. req'[h].alone =>
         SteadyFor(req'[h], jobs'[r.job], sched'[r.job], r.job \notin adrift')
  <2> SUFFICES ASSUME req'[h].alone
               PROVE  SteadyFor(req'[h], jobs[j], sched[j], j \notin adrift)
    BY <1>2, <1>3
  <2>1. req'[h].at = r.at /\ req'[h].seen = jobs[j]
    BY <1>3, SameButAlone
  <2>2. j \notin adrift => sched[j] = Due(jobs[j])
    BY <1>1, <1>3 DEF RegistrationAgrees
  <2>3. QED
    BY <2>1, <2>2 DEF SteadyFor
<1>8. /\ Locals' /\ Latest' /\ Apart' /\ Vouched' /\ Steady'
      /\ FreshIds' /\ RegistrationAgrees'
  BY <1>1, <1>2, <1>6, <1>7, ServeRequests
<1>9. QED
  BY <1>4, <1>5, <1>8 DEF IInv

LEMMA UpdateLoadStep ==
    ASSUME IInv, NEW h \in Handlers, NEW j \in Jobs, NEW patch \in Patches,
           UpdateLoad(h, j, patch)
    PROVE  IInv'
<1> DEFINE changed == patch.script # None /\ patch.script # jobs[j].script
           r == [Idle EXCEPT !.at = IF changed THEN "latest" ELSE "commit",
                             !.call = "update", !.job = j,
                             !.seen = jobs[j], !.patch = patch,
                             !.bump = changed]
<1>1. /\ Exists(j) /\ Serve(h, r) /\ UNCHANGED <<dbVars, sched, rewound>>
  BY DEF UpdateLoad
<1>2. /\ patch \in Patch /\ jobs[j] \in Row /\ j # None
  BY <1>1, RequestsAssumption DEF IInv, RequestsTypeOK, Exists
<1>3. patch.script \in Scripts \union {None}
  BY <1>2 DEF Patch
<1>4. /\ r.job = j /\ r.seen = jobs[j] /\ r.patch = patch /\ r.bump = changed
      /\ r.call = "update" /\ r.at = IF changed THEN "latest" ELSE "commit"
      /\ r \in Request
  BY <1>2, IdleRequest DEF Idle, Request, Places, AllCalls
<1>5. changed \in BOOLEAN
  OBVIOUS
<1>6. changed => patch.script \in Scripts /\ patch.script # jobs[j].script
  BY <1>3
<1>7. ~changed => patch.script \in {None, jobs[j].script}
  OBVIOUS
<1> HIDE DEF r, changed
<1>8. Local(r)
  BY <1>2, <1>4, <1>5, <1>6, <1>7 DEF Local
<1>9. QED
  BY <1>1, <1>4, <1>5, <1>8, LoadStep

LEMMA RestoreLoadStep ==
    ASSUME IInv, NEW h \in Handlers, NEW j \in Jobs, RestoreLoad(h, j)
    PROVE  IInv'
<1> DEFINE r == [Idle EXCEPT !.at = "target", !.call = "restore", !.job = j,
                             !.seen = jobs[j], !.bump = TRUE]
<1>1. /\ Exists(j) /\ Serve(h, r) /\ UNCHANGED <<dbVars, sched, rewound>>
  BY DEF RestoreLoad
<1>2. jobs[j] \in Row /\ j # None
  BY <1>1, RequestsAssumption DEF IInv, RequestsTypeOK, Exists
<1>3. /\ r.job = j /\ r.seen = jobs[j] /\ r.at = "target" /\ r \in Request
      /\ Local(r)
  BY <1>2, IdleRequest DEF Idle, NoPatch, Request, Places, AllCalls, Local
<1> HIDE DEF r
<1>4. QED
  BY <1>1, <1>3, LoadStep

LEMMA DeleteStartStep ==
    ASSUME IInv, NEW h \in Handlers, NEW j \in Jobs, NEW own \in BOOLEAN,
           DeleteStart(h, j, own)
    PROVE  IInv'
<1> DEFINE r == [Idle EXCEPT !.at = "remove", !.call = "delete", !.job = j,
                             !.own = own]
<1>1. /\ RequestsTypeOK /\ Locals /\ Histories /\ Heads /\ j # None
  BY RequestsAssumption DEF IInv
<1>2. /\ j \notin fresh /\ Serve(h, r) /\ sched' = [sched EXCEPT ![j] = None]
      /\ jobs' = jobs /\ fresh' = fresh /\ versions' = versions
      /\ rewound' = rewound
  BY DEF DeleteStart, dbVars
<1>3. r \in Request /\ r.job = j /\ r.at = "remove" /\ Local(r)
  BY <1>1, IdleRequest DEF Idle, Request, Places, AllCalls, Local
<1> HIDE DEF r
<1>4. /\ req' \in [Handlers -> Request] /\ served' \in 0..MaxRequests
      /\ restarts' = restarts /\ adrift' \subseteq Jobs
      /\ req'[h] = [r EXCEPT !.alone = req'[h].alone]
      /\ req'[h].alone => \A g \in Handlers : req[g].job # j
  BY <1>1, <1>2, <1>3, ServeEffect
<1>5. RequestsTypeOK'
  BY <1>1, <1>2, <1>4 DEF RequestsTypeOK
<1>6. Histories' /\ Heads'
  BY <1>1, <1>2, DbSame DEF dbVars
<1>7. SteadyFor(req'[h], jobs'[r.job], sched'[r.job], r.job \notin adrift')
  <2>1. req'[h].at = "remove" /\ sched'[j] = None
    BY <1>1, <1>2, <1>3, <1>4, SameButAlone DEF RequestsTypeOK
  <2>2. QED
    BY <2>1, <1>3 DEF SteadyFor
<1>8. /\ Locals' /\ Latest' /\ Apart' /\ Vouched' /\ Steady'
      /\ FreshIds' /\ RegistrationAgrees'
  <2>1. \A k \in Jobs : k # j => sched'[k] = sched[k]
    BY <1>1, <1>2 DEF RequestsTypeOK
  <2>2. QED
    BY <2>1, <1>1, <1>2, <1>3, <1>7, ServeRequests
<1>9. QED
  BY <1>5, <1>6, <1>8 DEF IInv

LEMMA DuplicateLoadStep ==
    ASSUME IInv, NEW h \in Handlers, NEW j \in Jobs, DuplicateLoad(h, j)
    PROVE  IInv'
<1> DEFINE r == [Idle EXCEPT !.at = "copy", !.call = "duplicate",
                             !.seen = jobs[j]]
<1>1. /\ RequestsTypeOK /\ Locals /\ Histories /\ Heads
  BY DEF IInv
<1>2. /\ Serve(h, r) /\ Exists(j)
      /\ jobs' = jobs /\ fresh' = fresh /\ versions' = versions
      /\ sched' = sched /\ rewound' = rewound
  BY DEF DuplicateLoad, dbVars
<1>3. jobs[j] \in Row
  BY <1>1, <1>2 DEF RequestsTypeOK, Exists
<1>4. /\ r \in Request /\ r.job = None /\ r.at = "copy" /\ r.alone = TRUE
      /\ Local(r) /\ r = [r EXCEPT !.alone = TRUE]
  BY <1>3, IdleRequest DEF Idle, Request, Places, AllCalls, Local
<1> HIDE DEF r
<1>5. /\ req[h].at = "idle" /\ served < MaxRequests /\ served' = served + 1
      /\ restarts' = restarts /\ adrift' = adrift
      /\ req' = [g \in Handlers |-> IF g = h THEN [r EXCEPT !.alone = TRUE]
                                    ELSE [req[g] EXCEPT !.alone = @]]
  <2>1. \A g \in Handlers : req[g].alone \in BOOLEAN
    BY <1>1 DEF RequestsTypeOK, Request
  <2>2. \A g \in Handlers : (req[g].alone /\ g \notin {}) = req[g].alone
    BY <2>1
  <2>3. QED
    BY <1>2, <1>4, <2>2 DEF Serve
<1>6. req' = [req EXCEPT ![h] = r]
  <2>1. \A g \in Handlers : [req[g] EXCEPT !.alone = @] = req[g]
    BY <1>1 DEF RequestsTypeOK, Request
  <2>2. QED
    BY <2>1, <1>1, <1>4, <1>5 DEF RequestsTypeOK
<1>7. RequestsTypeOK'
  <2>1. req' \in [Handlers -> Request]
    BY <1>1, <1>4, <1>6 DEF RequestsTypeOK
  <2>2. served' \in 0..MaxRequests
    BY <1>1, <1>5, RequestsAssumption DEF RequestsTypeOK
  <2>3. QED
    BY <2>1, <2>2, <1>1, <1>2, <1>5 DEF RequestsTypeOK
<1>8. Histories' /\ Heads'
  BY <1>1, <1>2, DbSame DEF dbVars
<1>9. req[h].job = None
  BY <1>1, <1>5, WithoutJob
<1>10. /\ Locals' /\ Latest' /\ Apart' /\ Vouched' /\ Steady'
       /\ FreshIds' /\ RegistrationAgrees'
  <2>1. None \in Jobs \union {None} /\ None \notin Jobs /\ None \notin fresh'
    BY <1>1, <1>2, RequestsAssumption DEF RequestsTypeOK
  <2>2. QED
    BY <2>1, <1>2, <1>4, <1>5, <1>6, <1>9, MoveRequests
<1>11. QED
  BY <1>7, <1>8, <1>10 DEF IInv


-----------------------------------------------------------------------------
(* The requests that go on, and those that end *)

\* What is known of a request that is at a statement about its job.
LEMMA RequestAtWork ==
    ASSUME IInv, NEW h \in Handlers, req[h].at \notin {"idle", "copy"}
    PROVE  /\ req[h] \in Request /\ Local(req[h])
           /\ req[h].job \in Jobs /\ req[h].job # None
           /\ jobs[req[h].job] \in Row \union {None}
           /\ req[h].job \notin fresh
           /\ req[h].alone =>
                 SteadyFor(req[h], jobs[req[h].job], sched[req[h].job],
                           req[h].job \notin adrift)
           /\ req[h].job \notin adrift => req[h].alone
<1>1. req[h] \in Request /\ Local(req[h])
  BY DEF IInv, RequestsTypeOK, Locals
<1>2. req[h].job \in Jobs /\ req[h].job # None
  BY <1>1, RequestsAssumption DEF Request, Local
<1>3. jobs[req[h].job] \in Row \union {None}
  BY <1>2 DEF IInv, RequestsTypeOK
<1>4. QED
  BY <1>1, <1>2, <1>3 DEF IInv, FreshIds, Steady, Vouched

\* A request that goes on, or ends, and leaves the database as it is.
LEMMA QuietStep ==
    ASSUME IInv, NEW h \in Handlers, NEW q \in Request,
           req[h].at \notin {"idle", "copy"},
           req' = [req EXCEPT ![h] = q], Local(q),
           q.at # "copy",
           q.job = None \/ (q.job = req[h].job /\ q.alone = req[h].alone),
           UNCHANGED <<dbVars, countVars, rewound>>,
           sched' \in [Jobs -> Crons \union {None}], adrift' \subseteq Jobs,
           \A j \in Jobs : j # req[h].job =>
              /\ sched'[j] = sched[j]
              /\ j \in adrift' <=> j \in adrift,
           (~req[h].alone \/ q.job = req[h].job) =>
              (req[h].job \in adrift => req[h].job \in adrift'),
           (q.at = "commit" /\ q.bump /\ jobs[q.job] # None) =>
              \E v \in versions : v.job = q.job /\ v.number = q.latest,
           (q.job # None /\ q.alone) =>
              SteadyFor(q, jobs[q.job], sched'[q.job], q.job \notin adrift'),
           (q.job = None /\ req[h].job \notin adrift') =>
              sched'[req[h].job] = Due(jobs[req[h].job])
    PROVE  IInv'
<1>1. /\ jobs' = jobs /\ fresh' = fresh /\ versions' = versions
      /\ served' = served /\ restarts' = restarts /\ rewound' = rewound
  BY DEF dbVars, countVars
<1>2. /\ RequestsTypeOK /\ Histories /\ Heads
      /\ req[h].job \in Jobs /\ req[h].job # None /\ req[h].job \notin fresh
  BY RequestAtWork DEF IInv
<1>3. RequestsTypeOK'
  BY <1>1, <1>2 DEF RequestsTypeOK
<1>4. Histories' /\ Heads'
  BY <1>2, DbSame
<1>5. /\ Locals' /\ Latest' /\ Apart' /\ Vouched' /\ Steady'
      /\ FreshIds' /\ RegistrationAgrees'
  <2> DEFINE x == req[h].job
  <2>1. x \in Jobs \union {None} /\ x \notin fresh' /\ x # None
    BY <1>1, <1>2
  <2>2. q.job # x => q.job = None
    OBVIOUS
  <2>3. QED
    BY <1>1, <2>1, <2>2, MoveRequests
<1>6. QED
  BY <1>3, <1>4, <1>5 DEF IInv

\* An error, or an answer after which there is nothing to register.
LEMMA FailStep ==
    ASSUME IInv, NEW h \in Handlers, req[h].at \notin {"idle", "copy"},
           Fail(h), UNCHANGED countVars,
           (req[h].alone /\ req[h].job \notin adrift) =>
              sched[req[h].job] = Due(jobs[req[h].job])
    PROVE  IInv'
<1>1. /\ Idle \in Request /\ Local(Idle) /\ Idle.at = "idle" /\ Idle.job = None
  BY IdleRequest
<1>2. /\ req' = [req EXCEPT ![h] = Idle] /\ UNCHANGED <<dbVars, rewound>>
      /\ sched' = sched /\ adrift' = adrift
  BY DEF Fail, Finish
<1>3. /\ sched \in [Jobs -> Crons \union {None}] /\ adrift \subseteq Jobs
  BY DEF IInv, RequestsTypeOK
<1>4. (req[h].job \notin adrift => req[h].alone) /\ req[h].job # None
  BY RequestAtWork
<1> HIDE DEF Idle
<1>5. QED
  BY <1>1, <1>2, <1>3, <1>4, QuietStep

LEMMA RestoreTargetStep ==
    ASSUME IInv, NEW h \in Handlers, RestoreTarget(h)
    PROVE  IInv'
<1> DEFINE r == req[h]
<1>1. /\ r.at = "target" /\ r \in Request /\ Local(r) /\ r.job \in Jobs
      /\ UNCHANGED <<dbVars, sched, countVars, adrift, rewound>>
      /\ r.alone => SteadyFor(r, jobs[r.job], sched[r.job], r.job \notin adrift)
      /\ (r.job \notin adrift => r.alone) /\ r.job # None
  BY RequestAtWork DEF RestoreTarget
<1>2. CASE /\ VersionsOf(r.job) = {}
           /\ Finish(h)
  <2>1. Fail(h) /\ UNCHANGED countVars
    BY <1>1, <1>2 DEF Fail
  <2>2. QED
    BY <1>1, <2>1, FailStep DEF SteadyFor
<1>3. ASSUME NEW v \in VersionsOf(r.job),
             req' = [req EXCEPT ![h].at = "latest",
                                ![h].patch.script = v.is.script,
                                ![h].patch.kind = v.is.kind]
      PROVE  IInv'
  <2> DEFINE p == [r.patch EXCEPT !.script = v.is.script, !.kind = v.is.kind]
             q == [r EXCEPT !.at = "latest", !.patch.script = v.is.script,
                            !.patch.kind = v.is.kind]
  <2>1. v.is.script \in Scripts /\ v.is.kind \in Kinds
    BY DEF IInv, RequestsTypeOK, VersionsOf, VersionRow, Version
  <2>2. req \in [Handlers -> Request] /\ sched \in [Jobs -> Crons \union {None}]
        /\ adrift \subseteq Jobs
    BY DEF IInv, RequestsTypeOK
  <2>3. req' = [req EXCEPT ![h] = q]
    BY <1>3, <2>2
  <2>4. /\ q.at = "latest" /\ q.job = r.job /\ q.alone = r.alone
        /\ q.call = r.call /\ q.bump = r.bump /\ q.seen = r.seen
        /\ q.patch = p /\ r.patch \in Patch
    BY <1>1 DEF Request
  <2>5. /\ q.patch.script = v.is.script /\ q.patch.cron = r.patch.cron
        /\ q.patch.active = r.patch.active /\ q.patch \in Patch
    <3>1. /\ p.script = v.is.script /\ p.cron = r.patch.cron
          /\ p.active = r.patch.active /\ p \in Patch
      BY <2>1, <2>4 DEF Patch
    <3> HIDE DEF p, q
    <3>2. QED
      BY <2>4, <3>1
  <2>6. q \in Request
    BY <1>1, <2>4, <2>5 DEF Request, Places
  <2>7. Local(q)
    BY <1>1, <2>1, <2>4, <2>5 DEF Local
  <2>8. r.alone => SteadyFor(q, jobs[r.job], sched[r.job], r.job \notin adrift)
    BY <1>1, <2>4 DEF SteadyFor
  <2> HIDE DEF q
  <2>9. QED
    BY <1>1, <2>2, <2>3, <2>4, <2>6, <2>7, <2>8, QuietStep
<1>4. QED
  BY <1>2, <1>3 DEF RestoreTarget

\* The newest number that is read is one of the job's, if the job is there.
LEMMA MaxQueryStep ==
    ASSUME IInv, NEW h \in Handlers, MaxQuery(h)
    PROVE  IInv'
<1> DEFINE r == req[h]
           top == Highest(r.job)
           q == [r EXCEPT !.at = "commit", !.latest = top]
<1>1. /\ r.at = "latest" /\ r \in Request /\ Local(r) /\ r.job \in Jobs
      /\ req' = [req EXCEPT ![h].at = "commit", ![h].latest = top]
      /\ UNCHANGED <<dbVars, sched, countVars, adrift, rewound>>
      /\ r.alone => SteadyFor(r, jobs[r.job], sched[r.job], r.job \notin adrift)
      /\ r.job # None
  BY RequestAtWork DEF MaxQuery
<1>2. PICK n \in Nat : Numbers(r.job) = 1..n /\ (n > 0 <=> Exists(r.job))
  BY <1>1 DEF IInv, Histories, Whole
<1>3. top = n
  BY <1>1, <1>2, HighestIs
<1>4. req \in [Handlers -> Request] /\ sched \in [Jobs -> Crons \union {None}]
      /\ adrift \subseteq Jobs
  BY DEF IInv, RequestsTypeOK
<1>5. req' = [req EXCEPT ![h] = q]
  BY <1>1, <1>4
<1> HIDE DEF top
<1>6. /\ q \in Request /\ q.at = "commit" /\ q.job = r.job /\ q.alone = r.alone
      /\ q.call = r.call /\ q.bump = r.bump /\ q.seen = r.seen
      /\ q.patch = r.patch /\ q.latest = n
  BY <1>1, <1>3 DEF Request, Places
<1>7. Local(q)
  BY <1>1, <1>6 DEF Local
<1>8. r.alone => SteadyFor(q, jobs[r.job], sched[r.job], r.job \notin adrift)
  BY <1>1, <1>6 DEF SteadyFor
<1>9. jobs[r.job] # None => \E v \in versions : v.job = r.job /\ v.number = n
  <2> SUFFICES ASSUME jobs[r.job] # None
               PROVE  \E v \in versions : v.job = r.job /\ v.number = n
    OBVIOUS
  <2>1. n \in Numbers(r.job)
    BY <1>2 DEF Exists
  <2>2. QED
    BY <2>1 DEF Numbers, VersionsOf
<1> HIDE DEF q
<1>10. (q.at = "commit" /\ q.bump /\ jobs[q.job] # None) =>
          \E v \in versions : v.job = q.job /\ v.number = q.latest
  BY <1>6, <1>9
<1>11. (q.job # None /\ q.alone) =>
          SteadyFor(q, jobs[q.job], sched'[q.job], q.job \notin adrift')
  BY <1>1, <1>6, <1>8
<1>12. /\ q.job = r.job /\ q.alone = r.alone /\ q.at # "copy" /\ q.job # None
       /\ r.at \notin {"idle", "copy"}
       /\ UNCHANGED <<dbVars, countVars, rewound>>
       /\ sched' = sched /\ adrift' = adrift
  BY <1>1, <1>6
<1>13. QED
  BY <1>4, <1>5, <1>6, <1>7, <1>10, <1>11, <1>12, QuietStep

LEMMA RefreshStep ==
    ASSUME IInv, NEW h \in Handlers, Refresh(h)
    PROVE  IInv'
<1> DEFINE r == req[h]
           now == jobs[r.job]
           next == IF now.active THEN "register"
                   ELSE IF r.call = "update" THEN "unregister" ELSE "idle"
<1>1. /\ r.at = "refresh" /\ r \in Request /\ Local(r) /\ r.job \in Jobs
      /\ UNCHANGED countVars /\ now \in Row \union {None}
      /\ r.alone => SteadyFor(r, jobs[r.job], sched[r.job], r.job \notin adrift)
      /\ r.job # None
  BY RequestAtWork DEF Refresh
<1>2. ASSUME Exists(r.job), next # "idle",
             req' = [req EXCEPT ![h].at = next, ![h].seen = now],
             UNCHANGED <<dbVars, sched, adrift, rewound>>
      PROVE  IInv'
  <2> DEFINE q == [r EXCEPT !.at = next, !.seen = now]
  <2>1. now \in Row /\ now.active \in BOOLEAN
    BY <1>1, <1>2 DEF Exists, Row
  <2>2. /\ next \in {"register", "unregister"}
        /\ next = "register" => now.active
        /\ next = "unregister" => ~now.active
    BY <1>2
  <2>3. req \in [Handlers -> Request] /\ sched \in [Jobs -> Crons \union {None}]
        /\ adrift \subseteq Jobs
    BY DEF IInv, RequestsTypeOK
  <2>4. req' = [req EXCEPT ![h] = q]
    BY <1>2, <2>3
  <2> HIDE DEF next
  <2>5. /\ q \in Request /\ q.at = next /\ q.job = r.job /\ q.alone = r.alone
        /\ q.seen = now
    BY <1>1, <2>1, <2>2 DEF Request, Places
  <2>6. Local(q)
    BY <1>1, <2>1, <2>2, <2>5 DEF Local
  <2>7. SteadyFor(q, jobs[r.job], sched[r.job], r.job \notin adrift)
    BY <1>2, <2>2, <2>5 DEF SteadyFor, Exists
  <2> HIDE DEF q
  <2>8. QED
    BY <1>1, <1>2, <2>2, <2>3, <2>4, <2>5, <2>6, <2>7, QuietStep
<1>3. ASSUME Exists(r.job) => next = "idle", Fail(h)
      PROVE  IInv'
  <2>1. (r.alone /\ r.job \notin adrift) => sched[r.job] = Due(jobs[r.job])
    BY <1>1, <1>3 DEF SteadyFor, Exists, Due
  <2>2. QED
    BY <1>1, <1>3, <2>1, FailStep
<1>4. QED
  BY <1>2, <1>3 DEF Refresh

\* The scheduler call with which a request ends: what it leaves is what the row
\* asks for, if the request was alone.
LEMMA RegistrationStep ==
    ASSUME IInv, NEW h \in Handlers, NEW cron \in Crons \union {None},
           req[h].at \in {"register", "unregister"},
           sched' = [sched EXCEPT ![req[h].job] = cron],
           Finish(h), Vouch(req[h]), UNCHANGED <<dbVars, countVars, rewound>>,
           req[h].alone => cron = Due(jobs[req[h].job])
    PROVE  IInv'
<1>1. /\ Idle \in Request /\ Local(Idle) /\ Idle.at = "idle" /\ Idle.job = None
  BY IdleRequest
<1>2. req' = [req EXCEPT ![h] = Idle]
  BY DEF Finish
<1>3. /\ sched \in [Jobs -> Crons \union {None}] /\ adrift \subseteq Jobs
  BY DEF IInv, RequestsTypeOK
<1>4. (req[h].job \notin adrift => req[h].alone) /\ req[h].job # None
      /\ req[h].job \in Jobs
  BY RequestAtWork
<1>5. adrift' = IF req[h].alone THEN adrift \ {req[h].job} ELSE adrift
  BY DEF Vouch
<1>6. /\ sched' \in [Jobs -> Crons \union {None}] /\ adrift' \subseteq Jobs
      /\ sched'[req[h].job] = cron
      /\ \A j \in Jobs : j # req[h].job =>
            sched'[j] = sched[j] /\ (j \in adrift' <=> j \in adrift)
  BY <1>3, <1>4, <1>5
<1>7. req[h].job \notin adrift' => req[h].alone
  BY <1>4, <1>5
<1> HIDE DEF Idle
<1>8. QED
  BY <1>1, <1>2, <1>4, <1>5, <1>6, <1>7, QuietStep

LEMMA RegisterStep ==
    ASSUME IInv, NEW h \in Handlers, Register(h)
    PROVE  IInv'
<1>1. /\ req[h].at = "register" /\ Local(req[h]) /\ req[h].seen \in Row
      /\ req[h].alone => SteadyFor(req[h], jobs[req[h].job], sched[req[h].job],
                                   req[h].job \notin adrift)
  BY RequestAtWork DEF Register, Local
<1>2. Parsed(req[h].seen.cron) \in Crons \union {None}
  BY <1>1 DEF Parsed, Row
<1>3. req[h].alone => Parsed(req[h].seen.cron) = Due(jobs[req[h].job])
  BY <1>1, RequestsAssumption DEF SteadyFor, Due
<1>4. QED
  BY <1>1, <1>2, <1>3, RegistrationStep DEF Register

LEMMA UnregisterStep ==
    ASSUME IInv, NEW h \in Handlers, Unregister(h)
    PROVE  IInv'
<1>1. /\ req[h].at = "unregister"
      /\ req[h].alone => SteadyFor(req[h], jobs[req[h].job], sched[req[h].job],
                                   req[h].job \notin adrift)
  BY RequestAtWork DEF Unregister
<1>2. req[h].alone => None = Due(jobs[req[h].job])
  BY <1>1 DEF SteadyFor, Due
<1>3. QED
  BY <1>1, <1>2, RegistrationStep DEF Unregister


-----------------------------------------------------------------------------
(* The statements that write *)

LEMMA WrittenRow ==
    ASSUME NEW row \in Row, NEW r \in Request
    PROVE  /\ Written(row, r) \in Row
           /\ Written(row, r).script =
                 IF Sets(r, "script") THEN r.patch.script ELSE row.script
           /\ Written(row, r).active =
                 IF Sets(r, "active") THEN r.patch.active ELSE row.active
<1>1. r.patch \in Patch
  BY DEF Request
<1>2. /\ r.patch.script \in Scripts \union {None}
      /\ r.patch.kind \in Kinds \union {None}
      /\ r.patch.cron \in Crons \union {None}
      /\ r.patch.active \in BOOLEAN \union {None}
      /\ row.script \in Scripts /\ row.kind \in Kinds /\ row.cron \in Crons
      /\ row.active \in BOOLEAN
  BY <1>1 DEF Patch, Row
<1>3. \A f : Sets(r, f) => r.patch[f] # None
  BY DEF Sets
<1> DEFINE s == IF Sets(r, "script") THEN r.patch.script ELSE row.script
           k == IF Sets(r, "kind") THEN r.patch.kind ELSE row.kind
           c == IF Sets(r, "cron") THEN r.patch.cron ELSE row.cron
           a == IF Sets(r, "active") THEN r.patch.active ELSE row.active
<1>4. Written(row, r) = [script |-> s, kind |-> k, cron |-> c, active |-> a]
  BY DEF Written
<1>5. s \in Scripts /\ k \in Kinds /\ c \in Crons /\ a \in BOOLEAN
  BY <1>2, <1>3
<1> HIDE DEF s, k, c, a
<1>6. Written(row, r) \in Row /\ Written(row, r).script = s
      /\ Written(row, r).active = a
  BY <1>4, <1>5 DEF Row
<1>7. QED
  BY <1>6 DEF s, a

\* A version that gets through the index is the next one.
LEMMA StoredVersion ==
    ASSUME IInv, NEW h \in Handlers, NEW j \in Jobs, req[h].job = j,
           req[h].at = "commit", req[h].bump, Commits(h),
           versions' = Stored(req[h]),
           jobs' = [jobs EXCEPT ![j] = Written(@, req[h])],
           rewound \subseteq rewound',
           j \in rewound' \/ req[h].call = "update" \/ req[h].alone
    PROVE  /\ Histories' /\ Heads' /\ versions' \subseteq VersionRow
           /\ \A v \in versions' : v \in versions \/ v.job = j
<1> DEFINE r == req[h]
           new == [job |-> j, number |-> r.latest + 1, is |-> Snapshot(r)]
<1>1. /\ r \in Request /\ Local(r) /\ jobs[j] \in Row
      /\ r.alone => SteadyFor(r, jobs[j], sched[j], j \notin adrift)
      /\ jobs \in [Jobs -> Row \union {None}] /\ versions \subseteq VersionRow
      /\ Histories /\ Heads
  BY RequestAtWork DEF IInv, RequestsTypeOK, Commits, Exists
<1>2. /\ versions' = versions \union {new}
      /\ r.latest + 1 \notin Numbers(j) /\ Exists(j)
  BY DEF Stored, Commits
<1>3. /\ r.latest \in Nat /\ r.patch \in Patch /\ r.seen \in Row
      /\ r.patch.script \in Scripts
  BY <1>1 DEF Request, Local
<1>4. Snapshot(r) \in Version /\ Snapshot(r).script = r.patch.script
  <2>1. r.patch.kind \in Kinds \union {None} /\ r.seen.kind \in Kinds
    BY <1>3 DEF Patch, Row
  <2>2. QED
    BY <1>3, <2>1 DEF Snapshot, Version
<1>5. new \in VersionRow /\ new.job = j /\ new.number = r.latest + 1
      /\ new.is.script = r.patch.script
  <2> HIDE DEF r
  <2>1. QED
    BY <1>3, <1>4 DEF VersionRow
<1>6. (jobs'[j].script = r.patch.script /\ Exists(j)') \/ j \in rewound'
  <2>1. jobs'[j] = Written(jobs[j], r)
    BY <1>1
  <2>2. /\ Written(jobs[j], r) \in Row
        /\ Written(jobs[j], r).script =
              IF Sets(r, "script") THEN r.patch.script ELSE jobs[j].script
    BY <1>1, WrittenRow
  <2>3. Sets(r, "script") <=> r.patch.script # r.seen.script
    BY <1>3, RequestsAssumption DEF Sets
  <2>4. CASE r.call = "update"
    BY <1>1, <2>1, <2>2, <2>3, <2>4, RequestsAssumption DEF Local, Exists
  <2>5. CASE r.alone
    <3>1. jobs[j] = r.seen
      BY <1>1, <2>5 DEF SteadyFor
    <3>2. QED
      BY <3>1, <2>1, <2>2, <2>3, RequestsAssumption DEF Exists
  <2>6. QED
    BY <2>4, <2>5
<1>7. Exists(j)'
  <2>1. Written(jobs[j], r) \in Row
    BY <1>1, WrittenRow
  <2>2. QED
    BY <1>1, <2>1, RequestsAssumption DEF Exists
<1> HIDE DEF new
<1>8. VersionsOf(j)' = VersionsOf(j) \union {new}
  BY <1>2, <1>5 DEF VersionsOf
<1>9. \A k \in Jobs : k # j => VersionsOf(k)' = VersionsOf(k) /\ jobs'[k] = jobs[k]
  BY <1>1, <1>2, <1>5 DEF VersionsOf
<1>10. PICK n \in Nat : Numbers(j) = 1..n /\ (n > 0 <=> Exists(j))
  BY <1>1 DEF Histories, Whole
<1>11. r.latest = n
  <2>1. r.latest \in Numbers(j)
    BY <1>2 DEF IInv, Latest, Exists, Numbers, VersionsOf
  <2>2. r.latest \in 1..n /\ r.latest + 1 \notin 1..n
    BY <1>2, <1>10, <2>1
  <2> HIDE DEF r
  <2>3. QED
    BY <1>3, <2>2
<1>12. Numbers(j)' = 1..(n + 1)
  <2>1. Numbers(j)' = Numbers(j) \union {n + 1}
    BY <1>5, <1>8, <1>11 DEF Numbers
  <2>2. QED
    BY <1>10, <2>1
<1>13. Whole(j)'
  <2>1. ASSUME NEW v \in VersionsOf(j)', NEW w \in VersionsOf(j)',
               v.number = w.number
        PROVE  v = w
    <3>1. \A u \in VersionsOf(j) : u.number # new.number
      BY <1>2, <1>5 DEF Numbers
    <3>2. \A u, z \in VersionsOf(j) : u.number = z.number => u = z
      BY <1>1 DEF Histories, Whole
    <3>3. QED
      BY <2>1, <3>1, <3>2, <1>8
  <2>2. n + 1 \in Nat /\ (n + 1 > 0 <=> Exists(j)')
    BY <1>7
  <2>3. QED
    BY <2>1, <2>2, <1>12 DEF Whole
<1>14. j \notin rewound' => HeadRight(j)'
  <2>1. new \in VersionsOf(j)' /\ new.number = n + 1
    BY <1>5, <1>8, <1>11
  <2>2. QED
    BY <2>1, <1>5, <1>6, <1>12 DEF HeadRight
<1>15. Histories' /\ Heads'
  BY <1>1, <1>9, <1>13, <1>14, OneJob
<1>16. QED
  BY <1>1, <1>2, <1>5, <1>15

\* A row written without a new version keeps its script.
LEMMA WrittenOnly ==
    ASSUME IInv, NEW h \in Handlers, NEW j \in Jobs, req[h].job = j,
           req[h].at = "commit", ~req[h].bump, Exists(j),
           versions' = versions,
           jobs' = [jobs EXCEPT ![j] = Written(@, req[h])],
           rewound' = rewound
    PROVE  Histories' /\ Heads'
<1>1. /\ req[h] \in Request /\ Local(req[h]) /\ jobs[j] \in Row
      /\ jobs \in [Jobs -> Row \union {None}] /\ Histories /\ Heads
      /\ None \notin Row
  BY RequestAtWork, RequestsAssumption DEF IInv, RequestsTypeOK, Exists
<1>2. ~Sets(req[h], "script")
  BY <1>1 DEF Local, Sets
<1>3. jobs'[j].script = jobs[j].script /\ jobs'[j] # None
  BY <1>1, <1>2, WrittenRow
<1>4. \A k \in Jobs : VersionsOf(k)' = VersionsOf(k) /\ Numbers(k)' = Numbers(k)
  BY DEF VersionsOf, Numbers
<1>5. \A k \in Jobs : k # j => jobs'[k] = jobs[k]
  BY <1>1
<1>6. Whole(j)'
  BY <1>1, <1>3, <1>4 DEF Histories, Whole, Exists
<1>7. j \notin rewound' => HeadRight(j)'
  BY <1>1, <1>3, <1>4 DEF Heads, HeadRight
<1>8. QED
  BY <1>1, <1>4, <1>5, <1>6, <1>7, OneJob

LEMMA CommitStep ==
    ASSUME IInv, NEW h \in Handlers, Commit(h)
    PROVE  IInv'
<1> DEFINE r == req[h]
<1>1. /\ r.at = "commit" /\ r \in Request /\ Local(r) /\ r.job \in Jobs
      /\ jobs[r.job] \in Row \union {None} /\ r.job \notin fresh
      /\ r.alone => SteadyFor(r, jobs[r.job], sched[r.job], r.job \notin adrift)
      /\ UNCHANGED countVars /\ RequestsTypeOK /\ r.job # None
  BY RequestAtWork DEF Commit, IInv
<1>2. CASE Fail(h)
  BY <1>1, <1>2, FailStep DEF SteadyFor
<1>3. ASSUME Commits(h), NEW j \in Jobs, j = r.job,
             jobs' = [jobs EXCEPT ![r.job] = Written(@, r)],
             versions' = Stored(r),
             rewound' = IF r.call = "restore" /\ ~r.alone
                        THEN rewound \union {r.job} ELSE rewound,
             Go(h, "refresh"), UNCHANGED <<fresh, sched, adrift>>
      PROVE  IInv'
  <2> DEFINE q == [r EXCEPT !.at = "refresh"]
  <2>1. jobs[j] \in Row /\ jobs[j] # None /\ j \notin fresh /\ None \notin Row
    BY <1>1, <1>3, RequestsAssumption DEF Commits, Exists
  <2>2. /\ Written(jobs[j], r) \in Row
        /\ Written(jobs[j], r).active =
              IF Sets(r, "active") THEN r.patch.active ELSE jobs[j].active
    BY <1>1, <2>1, WrittenRow
  <2>3. jobs' = [jobs EXCEPT ![j] = Written(@, r)]
        /\ jobs'[j] = Written(jobs[j], r)
        /\ \A k \in Jobs : k # j => jobs'[k] = jobs[k]
    BY <1>1, <1>3, <2>2 DEF RequestsTypeOK
  <2>4. /\ Histories' /\ Heads' /\ versions' \subseteq VersionRow
        /\ \A v \in versions' : v \in versions \/ v.job = j
        /\ versions \subseteq versions'
    <3>1. CASE r.bump
      <4>1. j \in rewound' \/ r.call = "update" \/ r.alone
        BY <1>1, <1>3 DEF Local
      <4>2. QED
        BY <1>1, <1>3, <2>3, <3>1, <4>1, StoredVersion DEF Stored
    <3>2. CASE ~r.bump
      <4>1. versions' = versions /\ rewound' = rewound
        BY <1>1, <1>3, <3>2 DEF Stored, Local
      <4>2. QED
        BY <1>1, <1>3, <2>1, <2>3, <3>2, <4>1, WrittenOnly
           DEF Exists, RequestsTypeOK
    <3>3. QED
      BY <3>1, <3>2
  <2>5. req' = [req EXCEPT ![h] = q]
    BY <1>3 DEF Go
  <2>6. /\ q \in Request /\ q.at = "refresh" /\ q.job = j /\ q.alone = r.alone
        /\ q.call = r.call /\ q.seen = r.seen /\ Local(q)
    BY <1>1, <1>3 DEF Request, Places, Local
  <2>7. RequestsTypeOK'
    <3>1. rewound' \subseteq Jobs
      BY <1>1, <1>3 DEF RequestsTypeOK
    <3> HIDE DEF r, q
    <3>2. req' \in [Handlers -> Request]
      BY <1>1, <2>5, <2>6 DEF RequestsTypeOK
    <3>3. /\ fresh' = fresh /\ sched' = sched /\ adrift' = adrift
          /\ served' = served /\ restarts' = restarts
      BY <1>1, <1>3 DEF countVars
    <3>4. RequestsTypeOK
      BY DEF IInv
    <3>5. versions' \subseteq VersionRow
      BY ONLY <2>4
    <3>6. jobs' \in [Jobs -> Row \union {None}]
      BY <2>2, <2>3, <3>4 DEF RequestsTypeOK
    <3>7. QED
      BY ONLY <3>1, <3>2, <3>3, <3>4, <3>5, <3>6 DEF RequestsTypeOK
  <2>8. r.alone => SteadyFor(q, jobs'[j], sched[j], j \notin adrift)
    <3> SUFFICES ASSUME r.alone, j \notin adrift, r.call # "update",
                        ~jobs'[j].active
                 PROVE  sched[j] = None
      BY <2>1, <2>2, <2>3, <2>6 DEF SteadyFor
    <3>1. r.patch.active = None /\ jobs[j] = r.seen /\ sched[j] = Due(jobs[j])
      BY <1>1, <1>3 DEF Local, SteadyFor
    <3>2. ~jobs[j].active
      BY <2>2, <2>3, <3>1 DEF Sets
    <3>3. QED
      BY <3>1, <3>2 DEF Due
  <2> HIDE DEF q
  <2>9. /\ Locals' /\ Latest' /\ Apart' /\ Vouched' /\ Steady'
        /\ FreshIds' /\ RegistrationAgrees'
    BY <1>1, <1>3, <2>1, <2>3, <2>4, <2>5, <2>6, <2>8, MoveRequests
  <2>10. QED
    BY <2>4, <2>7, <2>9 DEF IInv
<1>4. QED
  BY <1>1, <1>2, <1>3 DEF Commit

LEMMA DeleteRemoveStep ==
    ASSUME IInv, NEW h \in Handlers, DeleteRemove(h)
    PROVE  IInv'
<1> DEFINE r == req[h]
<1>1. /\ r.at = "remove" /\ r.job \in Jobs /\ r.job # None
      /\ jobs[r.job] \in Row \union {None} /\ r.job \notin fresh
      /\ r.alone => SteadyFor(r, jobs[r.job], sched[r.job], r.job \notin adrift)
      /\ (r.job \notin adrift => r.alone)
      /\ UNCHANGED <<fresh, sched, countVars, rewound>> /\ Finish(h)
      /\ RequestsTypeOK /\ Histories /\ Heads
  BY RequestAtWork DEF DeleteRemove, IInv
<1>2. /\ Idle \in Request /\ Local(Idle) /\ Idle.at = "idle" /\ Idle.job = None
      /\ req' = [req EXCEPT ![h] = Idle]
  BY <1>1, IdleRequest DEF Finish
<1> HIDE DEF Idle
<1>3. ASSUME NEW j \in Jobs, j = r.job,
             jobs' = [jobs EXCEPT ![j] = None],
             versions' = versions \ VersionsOf(j), Vouch(r)
      PROVE  IInv'
  <2>1. /\ adrift' = IF r.alone THEN adrift \ {j} ELSE adrift
        /\ jobs'[j] = None /\ \A k \in Jobs : k # j => jobs'[k] = jobs[k]
        /\ jobs' \in [Jobs -> Row \union {None}]
    BY <1>1, <1>3 DEF Vouch, RequestsTypeOK
  <2>2. RequestsTypeOK'
    BY <1>1, <1>2, <1>3, <2>1 DEF RequestsTypeOK, countVars
  <2>3. VersionsOf(j)' = {} /\ \A k \in Jobs : k # j => VersionsOf(k)' = VersionsOf(k)
    BY <1>3 DEF VersionsOf
  <2>4. Numbers(j)' = 1..0
    BY <2>3 DEF Numbers
  <2>5. Whole(j)' /\ ~Exists(j)'
    <3>1. 0 \in Nat /\ (0 > 0 <=> Exists(j)')
      BY <2>1 DEF Exists
    <3>2. QED
      BY <3>1, <2>1, <2>3, <2>4 DEF Whole, Exists
  <2>6. Histories' /\ Heads'
    BY <1>1, <2>1, <2>3, <2>5, OneJob
  <2>7. /\ \A v \in versions : v \in versions' \/ jobs'[v.job] = None
        /\ \A v \in versions' : v \in versions
    BY <1>3, <2>1 DEF VersionsOf
  <2>8. j \notin adrift' => sched'[j] = Due(jobs'[j])
    BY <1>1, <1>3, <2>1 DEF SteadyFor, Due
  <2>9. /\ Locals' /\ Latest' /\ Apart' /\ Vouched' /\ Steady'
        /\ FreshIds' /\ RegistrationAgrees'
    BY <1>1, <1>2, <1>3, <2>1, <2>7, <2>8, MoveRequests
  <2>10. QED
    BY <2>2, <2>6, <2>9 DEF IInv
<1>4. ASSUME adrift' = IF Exists(r.job) THEN adrift \union {r.job} ELSE adrift,
             UNCHANGED <<jobs, versions>>
      PROVE  IInv'
  <2>1. UNCHANGED <<dbVars, countVars, rewound>>
    BY <1>1, <1>4 DEF dbVars
  <2>2. r.job \notin adrift' => sched[r.job] = Due(jobs[r.job])
    BY <1>1, <1>4 DEF SteadyFor, Due, Exists
  <2>3. /\ adrift' \subseteq Jobs /\ sched' = sched /\ adrift \subseteq adrift'
        /\ sched \in [Jobs -> Crons \union {None}]
        /\ \A k \in Jobs : k # r.job => (k \in adrift' <=> k \in adrift)
    BY <1>1, <1>4 DEF RequestsTypeOK
  <2>4. r.at \notin {"idle", "copy"} /\ Idle.at # "copy"
    BY <1>1, <1>2
  <2>5. QED
    BY <1>1, <1>2, <2>1, <2>2, <2>3, <2>4, QuietStep
<1>5. QED
  BY <1>1, <1>3, <1>4 DEF DeleteRemove

LEMMA DuplicateCopyStep ==
    ASSUME IInv, NEW h \in Handlers, NEW j \in Jobs, DuplicateCopy(h, j)
    PROVE  IInv'
<1> DEFINE row == Paused(req[h].seen)
<1>1. /\ req[h].at = "copy" /\ j \in fresh /\ fresh' = fresh \ {j}
      /\ jobs' = [jobs EXCEPT ![j] = row]
      /\ versions' = versions \union {First(j, row)}
      /\ req' = [req EXCEPT ![h] = Idle]
      /\ UNCHANGED <<sched, countVars, adrift, rewound>>
  BY DEF DuplicateCopy, Finish
<1>2. /\ RequestsTypeOK /\ FreshIds /\ Local(req[h]) /\ req[h].job = None
      /\ req[h].seen \in Row /\ j # None
  BY <1>1, RequestsAssumption DEF IInv, Locals, Local
<1>3. row \in Row /\ ~row.active
  BY <1>2 DEF Paused, Row
<1> HIDE DEF row
<1>4. Histories' /\ Heads' /\ First(j, row) \in VersionRow
  BY <1>1, <1>3, FirstVersion
<1>5. /\ Idle \in Request /\ Local(Idle) /\ Idle.at = "idle" /\ Idle.job = None
  BY IdleRequest
<1> HIDE DEF Idle
<1>6. RequestsTypeOK'
  BY <1>1, <1>2, <1>3, <1>4, <1>5 DEF RequestsTypeOK, countVars
<1>7. /\ \A g \in Handlers : req[g].job # j
      /\ sched'[j] = None /\ jobs'[j] = row
      /\ \A k \in Jobs : k # j => jobs'[k] = jobs[k]
  BY <1>1, <1>2 DEF FreshIds, RequestsTypeOK
<1>8. /\ Due(jobs'[j]) = None
      /\ \A v \in versions' : v \in versions \/ v.job = j
  BY <1>1, <1>3, <1>7 DEF Due, First
<1>9. /\ Locals' /\ Latest' /\ Apart' /\ Vouched' /\ Steady'
      /\ FreshIds' /\ RegistrationAgrees'
  BY <1>1, <1>2, <1>5, <1>7, <1>8, MoveRequests
<1>10. QED
  BY <1>4, <1>6, <1>9 DEF IInv

-----------------------------------------------------------------------------
(* Restart: no request survives, and startup() registers what is due. *)

LEMMA RestartStep ==
    ASSUME IInv, Restart
    PROVE  IInv'
<1>1. /\ RequestsTypeOK /\ FreshIds /\ Histories /\ Heads
      /\ restarts < MaxRestarts /\ restarts' = restarts + 1
      /\ req' = [h \in Handlers |-> Idle]
      /\ sched' = [j \in Jobs |-> Due(jobs[j])] /\ adrift' = {}
      /\ jobs' = jobs /\ fresh' = fresh /\ versions' = versions
      /\ served' = served /\ rewound' = rewound
  BY DEF IInv, Restart, dbVars
<1>2. /\ Idle \in Request /\ Local(Idle) /\ Idle.at = "idle" /\ Idle.job = None
      /\ \A h \in Handlers : req'[h] = Idle
  BY <1>1, IdleRequest
<1> HIDE DEF Idle
<1>3. \A j \in Jobs : Due(jobs[j]) \in Crons \union {None}
  BY <1>1 DEF RequestsTypeOK, Due, Parsed, Row
<1>4. restarts' \in 0..MaxRestarts
  BY <1>1, RequestsAssumption DEF RequestsTypeOK
<1>5. RequestsTypeOK'
  BY <1>1, <1>2, <1>3, <1>4 DEF RequestsTypeOK
<1>6. Histories' /\ Heads'
  BY <1>1, DbSame DEF dbVars
<1>7. \A j \in Jobs : sched'[j] = Due(jobs'[j])
  BY <1>1
<1>8. RegistrationAgrees'
  BY <1>7 DEF RegistrationAgrees, Due
<1>9. Locals' /\ Latest' /\ Apart' /\ Vouched' /\ Steady'
  BY <1>2 DEF Locals, Latest, Apart, Vouched, Steady
<1>10. FreshIds'
  <2> SUFFICES ASSUME NEW j \in fresh'
               PROVE  /\ jobs'[j] = None /\ sched'[j] = None
                      /\ VersionsOf(j)' = {}
                      /\ \A h \in Handlers : req'[h].job # j
    BY DEF FreshIds
  <2>1. j \in fresh /\ j \in Jobs /\ j # None
    BY <1>1, RequestsAssumption DEF RequestsTypeOK
  <2>2. jobs[j] = None /\ VersionsOf(j) = {}
    BY <1>1, <2>1 DEF FreshIds
  <2>3. VersionsOf(j)' = {}
    BY <1>1, <2>2 DEF VersionsOf
  <2>4. QED
    BY <1>1, <1>2, <2>1, <2>2, <2>3 DEF Due
<1>11. QED
  BY <1>5, <1>6, <1>8, <1>9, <1>10 DEF IInv


-----------------------------------------------------------------------------
(* The theorems *)

LEMMA InitHolds == RequestsInit => IInv
<1> SUFFICES ASSUME RequestsInit
             PROVE  IInv
  OBVIOUS
<1> USE DEF RequestsInit
<1>1. /\ Idle \in Request /\ Local(Idle) /\ Idle.at = "idle" /\ Idle.job = None
      /\ \A h \in Handlers : req[h] = Idle
  BY IdleRequest
<1>2. None \notin Jobs
  BY RequestsAssumption
<1> HIDE DEF Idle
<1>3. RequestsTypeOK
  BY <1>1, RequestsAssumption DEF RequestsTypeOK
<1>4. \A j \in Jobs : jobs[j] = None /\ sched[j] = None /\ VersionsOf(j) = {}
                      /\ Numbers(j) = {}
  BY DEF VersionsOf, Numbers
<1>5. FreshIds
  BY <1>1, <1>2, <1>4 DEF FreshIds
<1>6. Histories
  <2>1. 1..0 = {} /\ ~(0 > 0) /\ 0 \in Nat
    OBVIOUS
  <2>2. QED
    BY <1>4, <2>1 DEF Histories, Whole, Exists
<1>7. Locals /\ Latest /\ Apart /\ Vouched /\ Steady
  BY <1>1 DEF Locals, Latest, Apart, Vouched, Steady
<1>8. RegistrationAgrees /\ Heads
  BY <1>4 DEF RegistrationAgrees, Due, Heads, Exists
<1>9. QED
  BY <1>3, <1>5, <1>6, <1>7, <1>8 DEF IInv

LEMMA NextKeeps == IInv /\ [RequestsNext]_requestVars => IInv'
<1> SUFFICES ASSUME IInv, [RequestsNext]_requestVars
             PROVE  IInv'
  OBVIOUS
<1>1. ASSUME NEW h \in Handlers, NEW j \in Jobs, NEW row \in NewRows,
             Create(h, j, row)
      PROVE  IInv'
  BY <1>1, CreateStep
<1>2. ASSUME NEW h \in Handlers, NEW j \in Jobs, NEW patch \in Patches,
             UpdateLoad(h, j, patch)
      PROVE  IInv'
  BY <1>2, UpdateLoadStep
<1>3. ASSUME NEW h \in Handlers, NEW j \in Jobs,
             \/ RestoreLoad(h, j)
             \/ \E own \in BOOLEAN : DeleteStart(h, j, own)
             \/ DuplicateLoad(h, j)
             \/ DuplicateCopy(h, j)
      PROVE  IInv'
  BY <1>3, RestoreLoadStep, DeleteStartStep, DuplicateLoadStep,
     DuplicateCopyStep
<1>4. ASSUME NEW h \in Handlers,
             \/ RestoreTarget(h) \/ MaxQuery(h) \/ Commit(h) \/ Refresh(h)
             \/ Register(h) \/ Unregister(h) \/ DeleteRemove(h)
      PROVE  IInv'
  BY <1>4, RestoreTargetStep, MaxQueryStep, CommitStep, RefreshStep,
     RegisterStep, UnregisterStep, DeleteRemoveStep
<1>5. CASE Restart
  BY <1>5, RestartStep
<1>6. CASE UNCHANGED requestVars
  <2>1. UNCHANGED <<jobs, fresh, versions, sched, req, served, restarts, adrift,
                    rewound>>
    BY <1>6 DEF requestVars
  <2>2. Histories' /\ Heads'
    BY <2>1, DbSame DEF IInv, dbVars
  <2>3. RequestsTypeOK'
    BY <2>1 DEF IInv, RequestsTypeOK
  <2>4. /\ Locals' /\ Latest' /\ Apart' /\ Vouched' /\ Steady'
        /\ RegistrationAgrees'
    BY <2>1 DEF IInv, Locals, Latest, Apart, Vouched, Steady, RegistrationAgrees,
       Due
  <2>5. FreshIds'
    BY <2>1 DEF IInv, FreshIds, VersionsOf
  <2>6. QED
    BY <2>2, <2>3, <2>4, <2>5 DEF IInv
<1>7. QED
  BY <1>1, <1>2, <1>3, <1>4, <1>5, <1>6 DEF RequestsNext

\* The strengthening of the properties below is inductive.
THEOREM Invariance == RequestsSpec => []IInv
BY InitHolds, NextKeeps, PTL DEF RequestsSpec

\* The requests keep the types of the tables and of what they carry.
THEOREM RequestTypes == RequestsSpec => []RequestsTypeOK
<1>1. IInv => RequestsTypeOK
  BY DEF IInv
<1>2. QED
  BY Invariance, <1>1, PTL

\* The scheduler holds what the database says for every job whose last request
\* met no other and was not refused (update_job, delete_job, startup).
THEOREM Registration == RequestsSpec => []RegistrationAgrees
<1>1. IInv => RegistrationAgrees
  BY DEF IInv
<1>2. QED
  BY Invariance, <1>1, PTL

\* The newest version of a job is the script it has (the update and the restore
\* that insert one), unless it was restored amid other requests.
THEOREM HeadVersion == RequestsSpec => []HeadIsContent
<1>1. IInv => HeadIsContent
  <2> SUFFICES ASSUME IInv, NEW j \in Jobs \ rewound, Exists(j)
               PROVE  \E v \in VersionsOf(j) :
                         v.number = Highest(j) /\ v.is.script = jobs[j].script
    BY DEF HeadIsContent
  <2>1. PICK v \in VersionsOf(j) :
               Numbers(j) = 1..v.number /\ v.is.script = jobs[j].script
    BY DEF IInv, Heads, HeadRight
  <2>2. v.number \in Nat
    BY DEF IInv, RequestsTypeOK, VersionsOf, VersionRow
  <2>3. QED
    BY <2>1, <2>2, HighestIs
<1>2. QED
  BY Invariance, <1>1, PTL

\* A history whose numbers are 1..n, each once, has n versions.
LEMMA CountOf ==
    ASSUME NEW j \in Jobs, NEW n \in Nat, Numbers(j) = 1..n,
           \A v, w \in VersionsOf(j) : v.number = w.number => v = w
    PROVE  Cardinality(VersionsOf(j)) = n
<1> DEFINE f == [k \in 1..n |-> CHOOSE v \in VersionsOf(j) : v.number = k]
<1>1. \A k \in 1..n : f[k] \in VersionsOf(j) /\ f[k].number = k
  BY DEF Numbers
<1>2. \A v \in VersionsOf(j) : v.number \in 1..n /\ f[v.number] = v
  <2>1. \A v \in VersionsOf(j) : v.number \in 1..n
    BY DEF Numbers
  <2> HIDE DEF f
  <2>2. QED
    BY <1>1, <2>1
<1>3. f \in [1..n -> VersionsOf(j)]
  BY <1>1
<1> HIDE DEF f
<1>4. f \in Bijection(1..n, VersionsOf(j))
  <2>1. \A k, m \in 1..n : f[k] = f[m] => k = m
    BY <1>1
  <2>2. \A v \in VersionsOf(j) : \E k \in 1..n : f[k] = v
    BY <1>2
  <2>3. QED
    BY <1>3, <2>1, <2>2, Fun_IsBij
<1>5. IsFiniteSet(1..n) /\ Cardinality(1..n) = n
  <2>1. Cardinality(1..n) = IF 1 > n THEN 0 ELSE n - 1 + 1
    BY FS_Interval
  <2>2. QED
    BY <2>1, FS_Interval
<1>6. QED
  BY <1>4, <1>5, FS_Bijection DEF ExistsBijection

\* The versions of a job are numbered without gap or repetition, and exactly the
\* jobs that exist have any (max(version) + 1, the unique index, the cascade).
THEOREM Contiguous == RequestsSpec => []VersionsContiguous
<1>1. IInv => VersionsContiguous
  <2> SUFFICES ASSUME IInv, NEW j \in Jobs
               PROVE  LET n == Cardinality(VersionsOf(j))
                      IN  Numbers(j) = 1..n /\ (n > 0 <=> Exists(j))
    BY DEF VersionsContiguous
  <2>1. PICK n \in Nat : Numbers(j) = 1..n /\ (n > 0 <=> Exists(j))
    BY DEF IInv, Histories, Whole
  <2>2. Cardinality(VersionsOf(j)) = n
    BY <2>1, CountOf DEF IInv, Histories, Whole
  <2>3. QED
    BY <2>1, <2>2
<1>2. QED
  BY Invariance, <1>1, PTL

\* No request changes or drops a saved version of a job that stays.
LEMMA VersionsKept ==
    ASSUME IInv, [RequestsNext]_requestVars
    PROVE  \A v \in versions : jobs'[v.job] # None => v \in versions'
<1> SUFFICES ASSUME NEW v \in versions, jobs'[v.job] # None
             PROVE  v \in versions'
  OBVIOUS
<1>1. v.job \in Jobs /\ jobs \in [Jobs -> Row \union {None}]
  BY DEF IInv, RequestsTypeOK, VersionRow
<1>2. ASSUME NEW h \in Handlers, Commit(h)
      PROVE  v \in versions'
  BY <1>2 DEF Commit, Stored, Fail, dbVars
<1>3. ASSUME NEW h \in Handlers, DeleteRemove(h)
      PROVE  v \in versions'
  <2>1. CASE versions' = versions
    BY <2>1
  <2>2. CASE /\ jobs' = [jobs EXCEPT ![req[h].job] = None]
             /\ versions' = versions \ VersionsOf(req[h].job)
    <3>1. v.job # req[h].job
      BY <1>1, <2>2
    <3>2. QED
      BY <2>2, <3>1 DEF VersionsOf
  <2>3. QED
    BY <1>3, <2>1, <2>2 DEF DeleteRemove
<1>4. ASSUME NEW h \in Handlers,
             RestoreTarget(h) \/ MaxQuery(h) \/ Refresh(h) \/ Register(h)
             \/ Unregister(h)
      PROVE  v \in versions'
  BY <1>4 DEF RestoreTarget, MaxQuery, Refresh, Register, Unregister, Fail,
     dbVars
<1>5. ASSUME NEW h \in Handlers, NEW j \in Jobs,
             \/ \E row \in NewRows : Create(h, j, row)
             \/ \E patch \in Patches : UpdateLoad(h, j, patch)
             \/ RestoreLoad(h, j)
             \/ \E own \in BOOLEAN : DeleteStart(h, j, own)
             \/ DuplicateLoad(h, j)
             \/ DuplicateCopy(h, j)
      PROVE  v \in versions'
  BY <1>5 DEF Create, UpdateLoad, RestoreLoad, DeleteStart, DuplicateLoad,
     DuplicateCopy, dbVars
<1>6. CASE Restart \/ UNCHANGED requestVars
  BY <1>6 DEF Restart, dbVars, requestVars
<1>7. QED
  BY <1>2, <1>3, <1>4, <1>5, <1>6 DEF RequestsNext

-----------------------------------------------------------------------------
(* The promise about histories *)

\* A history is a sequence, as long as its highest number.
HistoryRight(j) ==
    \E n \in Nat :
        /\ Numbers(j) = 1..n
        /\ History(j) \in Seq(Version) /\ Len(History(j)) = n
        /\ \A v \in VersionsOf(j) : History(j)[v.number] = v.is

HistoriesRight == \A j \in Jobs : HistoryRight(j)

LEMMA HistoryInOrder == IInv => HistoriesRight
<1> SUFFICES ASSUME IInv, NEW j \in Jobs
             PROVE  HistoryRight(j)
  BY DEF HistoriesRight
<1>1. PICK n \in Nat : Numbers(j) = 1..n
  BY DEF IInv, Histories, Whole
<1> DEFINE at(k) == CHOOSE v \in VersionsOf(j) : v.number = k
<1>2. \A k \in 1..n : at(k) \in VersionsOf(j) /\ at(k).number = k
  BY <1>1 DEF Numbers
<1>3. History(j) = [k \in 1..n |-> at(k).is]
  BY <1>1 DEF History
<1> HIDE DEF at
<1>4. \A k \in 1..n : at(k).is \in Version
  BY <1>2 DEF IInv, RequestsTypeOK, VersionsOf, VersionRow
<1>5. History(j) \in Seq(Version) /\ Len(History(j)) = n
  BY <1>3, <1>4
<1>6. ASSUME NEW v \in VersionsOf(j)
      PROVE  History(j)[v.number] = v.is
  <2>1. v.number \in 1..n
    BY <1>1 DEF Numbers
  <2>2. at(v.number) = v
    BY <1>2, <2>1 DEF IInv, Histories, Whole
  <2>. QED BY <1>3, <2>1, <2>2
<1>. QED BY <1>1, <1>5, <1>6 DEF HistoryRight

\* The history of a job whose versions stay is the same.
LEMMA HistoryStays ==
    ASSUME NEW j \in Jobs, VersionsOf(j)' = VersionsOf(j)
    PROVE  History(j)' = History(j)
BY DEF History, Numbers

\* A number that is added to 1..n and leaves no gap is the next one.
LEMMA NextNumber ==
    ASSUME NEW n \in Nat, NEW m \in Nat, NEW k \in Nat,
           k \notin 1..n, 1..m = (1..n) \union {k}
    PROVE  m = n + 1 /\ k = n + 1
<1>1. k \in 1..m
  OBVIOUS
<1>2. k > n /\ k <= m
  BY <1>1
<1>3. n + 1 \in 1..m /\ n + 1 \notin 1..n
  BY <1>2
<1>4. k = n + 1
  <2>1. n + 1 \in (1..n) \union {k}
    BY ONLY <1>3, 1..m = (1..n) \union {k}
  <2>. QED BY ONLY <1>3, <2>1
<1>5. m \in 1..m
  BY <1>2
<1>6. m \in 1..n \/ m = k
  BY ONLY <1>5, 1..m = (1..n) \union {k}
<1>. QED BY ONLY <1>2, <1>4, <1>6, n \in Nat, m \in Nat

\* A version added under a number of its own is the last.
LEMMA HistoryGrowsBy ==
    ASSUME IInv, IInv', NEW j \in Jobs, NEW new,
           VersionsOf(j)' = VersionsOf(j) \union {new},
           new.number \in Nat, new.number \notin Numbers(j)
    PROVE  History(j)' = Append(History(j), new.is)
<1>1. PICK n \in Nat :
         /\ Numbers(j) = 1..n
         /\ History(j) \in Seq(Version) /\ Len(History(j)) = n
         /\ \A v \in VersionsOf(j) : History(j)[v.number] = v.is
  BY HistoryInOrder DEF HistoriesRight, HistoryRight
<1>2. PICK m \in Nat :
         /\ Numbers(j)' = 1..m
         /\ History(j)' \in Seq(Version) /\ Len(History(j)') = m
         /\ \A v \in VersionsOf(j)' : History(j)'[v.number] = v.is
  <2>1. HistoriesRight'
    BY HistoryInOrder, PTL
  <2>. QED BY <2>1 DEF HistoriesRight, HistoryRight
<1>3. Numbers(j)' = Numbers(j) \union {new.number}
  BY DEF Numbers
<1>4. m = n + 1 /\ new.number = n + 1
  BY <1>1, <1>2, <1>3, NextNumber
<1>5. History(j)'[n + 1] = new.is
  BY <1>2, <1>4
<1>6. ASSUME NEW k \in 1..n
      PROVE  History(j)'[k] = History(j)[k]
  <2>1. PICK v \in VersionsOf(j) : v.number = k
    BY <1>1 DEF Numbers
  <2>. QED BY <1>1, <1>2, <2>1
<1>. QED BY <1>1, <1>2, <1>4, <1>5, <1>6


\* A job that appears has a history of one version.
LEMMA HistoryBegins ==
    ASSUME IInv, IInv', NEW j \in fresh, NEW row \in Row,
           fresh' = fresh \ {j},
           versions' = versions \union {First(j, row)}
    PROVE  Promised!Next
<1>1. j \in Jobs /\ VersionsOf(j) = {} /\ fresh \subseteq Jobs
  BY DEF IInv, RequestsTypeOK, FreshIds
<1>2. /\ First(j, row).job = j /\ First(j, row).number = 1
      /\ First(j, row).is \in Version
  BY DEF First, Version, Row
<1>3. VersionsOf(j)' = VersionsOf(j) \union {First(j, row)}
  BY <1>1, <1>2 DEF VersionsOf
<1>4. Numbers(j) = {}
  BY <1>1 DEF Numbers
<1>5. History(j)' = Append(History(j), First(j, row).is)
  BY <1>1, <1>2, <1>3, <1>4, HistoryGrowsBy
<1>6. History(j) = <<>>
  BY <1>4 DEF History
<1>7. \A k \in Jobs : k # j => VersionsOf(k)' = VersionsOf(k)
  BY <1>2 DEF VersionsOf
<1>8. \A k \in Jobs : k # j => History(k)' = History(k)
  BY <1>7, HistoryStays
<1>9. Promised!Begin(j, First(j, row).is)
  <2>1. Append(<<>>, First(j, row).is) = <<First(j, row).is>>
    OBVIOUS
  <2>2. j \notin Jobs \ fresh /\ Jobs \ fresh' = (Jobs \ fresh) \union {j}
    BY <1>1
  <2>. QED BY <1>1, <1>5, <1>6, <1>8, <2>1, <2>2 DEF Promised!Begin
<1>. QED BY <1>1, <1>2, <1>9 DEF Promised!Next

\* Where no version and no id changes, nothing of the promise does.
LEMMA HistoriesStay ==
    ASSUME UNCHANGED <<versions, fresh>>
    PROVE  UNCHANGED Promised!historyVars
<1>1. \A j \in Jobs : VersionsOf(j)' = VersionsOf(j)
  BY DEF VersionsOf
<1>2. \A j \in Jobs : History(j)' = History(j)
  BY <1>1, HistoryStays
<1>. QED BY <1>2 DEF Promised!historyVars

\* A job that exists has a history.
LEMMA EmptyHistory ==
    ASSUME IInv, NEW j \in Jobs, Exists(j)
    PROVE  History(j) # <<>>
<1>1. PICK n \in Nat : Numbers(j) = 1..n /\ n > 0
  BY DEF IInv, Histories, Whole
<1>2. PICK m \in Nat : Numbers(j) = 1..m /\ Len(History(j)) = m
  BY HistoryInOrder DEF HistoriesRight, HistoryRight
<1>3. 1 \in 1..m
  BY <1>1, <1>2
<1>. QED BY <1>2, <1>3

\* A version added under a number of its own extends the history of its job.
LEMMA HistoryExtended ==
    ASSUME IInv, IInv', NEW j \in Jobs, NEW new, Exists(j),
           new.job = j, new.number \in Nat, new.number \notin Numbers(j),
           versions' = versions \union {new}, fresh' = fresh
    PROVE  Promised!Next
<1>1. VersionsOf(j)' = VersionsOf(j) \union {new}
  BY DEF VersionsOf
<1>2. History(j)' = Append(History(j), new.is)
  BY <1>1, HistoryGrowsBy
<1>3. \A k \in Jobs : k # j => VersionsOf(k)' = VersionsOf(k)
  BY DEF VersionsOf
<1>4. \A k \in Jobs : k # j => History(k)' = History(k)
  BY <1>3, HistoryStays
<1>5. History(j) # <<>>
  BY EmptyHistory
<1>6. new.is \in Version
  <2>1. new \in versions'
    OBVIOUS
  <2>. QED BY <2>1 DEF IInv, RequestsTypeOK, VersionRow
<1>7. Promised!Extend(j, new.is)
  BY <1>2, <1>4, <1>5 DEF Promised!Extend
<1>. QED BY <1>6, <1>7 DEF Promised!Next

\* A commit adds the version after the last, or none.
LEMMA CommitPromised ==
    ASSUME IInv, IInv', NEW h \in Handlers, Commit(h)
    PROVE  [Promised!Next]_(Promised!historyVars)
<1>1. CASE UNCHANGED <<versions, fresh>>
  BY <1>1, HistoriesStay
<1>2. ASSUME Commits(h), req[h].bump, versions' = Stored(req[h]),
             fresh' = fresh
      PROVE  Promised!Next
  <2> DEFINE new == [job |-> req[h].job, number |-> req[h].latest + 1,
                     is |-> Snapshot(req[h])]
  <2>1. req[h].job \in Jobs /\ req[h].latest + 1 \in Nat
    BY RequestAtWork DEF IInv, Commit, Request
  <2>2. req[h].latest + 1 \notin Numbers(req[h].job) /\ Exists(req[h].job)
    BY <1>2 DEF Commits
  <2>3. versions' = versions \union {new}
    BY <1>2 DEF Stored
  <2>4. new.job = req[h].job /\ new.number = req[h].latest + 1
    OBVIOUS
  <2> HIDE DEF new
  <2>. QED BY <1>2, <2>1, <2>2, <2>3, <2>4, HistoryExtended
<1>. QED BY <1>1, <1>2 DEF Commit, Stored, Fail, dbVars

\* A delete takes the whole history, or nothing.
LEMMA DeletePromised ==
    ASSUME IInv, NEW h \in Handlers, DeleteRemove(h)
    PROVE  [Promised!Next]_(Promised!historyVars)
<1>1. CASE UNCHANGED <<versions, fresh>>
  BY <1>1, HistoriesStay
<1>2. ASSUME NEW j \in Jobs, Exists(j), versions' = versions \ VersionsOf(j),
             fresh' = fresh
      PROVE  Promised!Next
  <2>1. History(j) # <<>>
    BY <1>2, EmptyHistory
  <2>2. /\ VersionsOf(j)' = {}
        /\ \A k \in Jobs : k # j => VersionsOf(k)' = VersionsOf(k)
    BY <1>2 DEF VersionsOf
  <2>3. \A k \in Jobs : k # j => History(k)' = History(k)
    BY <2>2, HistoryStays
  <2>4. Numbers(j)' = {}
    BY <2>2 DEF Numbers
  <2>5. History(j)' = <<>>
    BY <2>4 DEF History
  <2>6. Promised!Discard(j)
    BY <1>2, <2>1, <2>3, <2>5 DEF Promised!Discard
  <2>. QED BY <2>6 DEF Promised!Next
<1>3. req[h].at = "remove"
  BY DEF DeleteRemove
<1>4. req[h].job \in Jobs
  BY <1>3, RequestAtWork
<1>. QED BY <1>1, <1>2, <1>4 DEF DeleteRemove

\* Every step of the requests is one the promise allows, or none.
LEMMA StepPromised ==
    ASSUME IInv, IInv', [RequestsNext]_requestVars
    PROVE  [Promised!Next]_(Promised!historyVars)
<1>1. ASSUME NEW h \in Handlers, NEW j \in Jobs, NEW row \in NewRows,
             Create(h, j, row)
      PROVE  Promised!Next
  BY <1>1, HistoryBegins, RequestsAssumption DEF Create
<1>2. ASSUME NEW h \in Handlers, NEW j \in Jobs, DuplicateCopy(h, j)
      PROVE  Promised!Next
  <2>1. Paused(req[h].seen) \in Row
    BY <1>2 DEF DuplicateCopy, IInv, Locals, Local, Paused, Row
  <2>. QED BY <1>2, <2>1, HistoryBegins DEF DuplicateCopy
<1>3. ASSUME NEW h \in Handlers, Commit(h)
      PROVE  [Promised!Next]_(Promised!historyVars)
  BY <1>3, CommitPromised
<1>4. ASSUME NEW h \in Handlers, DeleteRemove(h)
      PROVE  [Promised!Next]_(Promised!historyVars)
  BY <1>4, DeletePromised
<1>5. ASSUME NEW h \in Handlers, NEW j \in Jobs,
             \/ \E patch \in Patches : UpdateLoad(h, j, patch)
             \/ RestoreLoad(h, j)
             \/ \E own \in BOOLEAN : DeleteStart(h, j, own)
             \/ DuplicateLoad(h, j)
      PROVE  UNCHANGED <<versions, fresh>>
  BY <1>5 DEF UpdateLoad, RestoreLoad, DeleteStart, DuplicateLoad, dbVars
<1>6. ASSUME NEW h \in Handlers,
             RestoreTarget(h) \/ MaxQuery(h) \/ Refresh(h) \/ Register(h)
             \/ Unregister(h)
      PROVE  UNCHANGED <<versions, fresh>>
  BY <1>6 DEF RestoreTarget, MaxQuery, Refresh, Register, Unregister, Fail,
     dbVars
<1>7. CASE Restart \/ UNCHANGED requestVars
  <2>1. UNCHANGED <<versions, fresh>>
    BY <1>7 DEF Restart, dbVars, requestVars
  <2>. QED BY <2>1, HistoriesStay
<1>. QED BY <1>1, <1>2, <1>3, <1>4, <1>5, <1>6, <1>7, HistoriesStay
         DEF RequestsNext

\* The requests implement VersionHistory: whatever overlaps, saved versions are
\* only ever added one by one at the end, or go with their job (update_job,
\* restore_script_version, create_job, duplicate_job and delete_job, with the unique
\* index and the cascade).
THEOREM HistoryRefined == RequestsSpec => HistoryImplemented
<1>1. RequestsInit => Promised!Init
  <2> SUFFICES ASSUME RequestsInit
               PROVE  Promised!Init
    OBVIOUS
  <2>1. \A j \in Jobs : Numbers(j) = {}
    BY DEF RequestsInit, Numbers, VersionsOf
  <2>2. \A j \in Jobs : History(j) = <<>>
    BY <2>1 DEF History
  <2>. QED BY <2>2 DEF Promised!Init, RequestsInit
<1>2. IInv /\ IInv' /\ [RequestsNext]_requestVars
      => [Promised!Next]_(Promised!historyVars)
  BY StepPromised
<1>. QED BY <1>1, <1>2, Invariance, PTL
         DEF RequestsSpec, HistoryImplemented, Promised!Spec

=============================================================================

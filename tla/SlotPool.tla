------------------------------ MODULE SlotPool ------------------------------
(***************************************************************************)
(* What the concurrency cap promises (scheduler_service.py, module         *)
(* docstring, point 2): at most Capacity runs are between the acquire and  *)
(* the release of the semaphore, a run enters only when there is room, and *)
(* runs leave one at a time, or all at once when the server process dies.  *)
(***************************************************************************)
EXTENDS Naturals, FiniteSets

CONSTANTS
    Runs,          \* the runs that may ever ask for a slot
    Capacity       \* MAX_CONCURRENT_JOBS

VARIABLE inside    \* the runs that hold a slot

TypeOK == inside \subseteq Runs

Init == inside = {}

Enter(r) ==
    /\ r \in Runs \ inside
    /\ Cardinality(inside) < Capacity
    /\ inside' = inside \union {r}

Leave(r) ==
    /\ r \in inside
    /\ inside' = inside \ {r}

Die == inside' = {}

Next == (\E r \in Runs : Enter(r) \/ Leave(r)) \/ Die

Spec == Init /\ [][Next]_inside
=============================================================================

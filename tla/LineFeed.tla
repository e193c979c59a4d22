------------------------------ MODULE LineFeed ------------------------------
(***************************************************************************)
(* What live log streaming promises a client (ws_routes.py 99-110): the    *)
(* lines of the run in the order they were printed, none of them twice,    *)
(* each only after it was printed, and "done" only when the run is over.   *)
(* Lines may be missing: a late client starts at the oldest line still     *)
(* buffered, and a slow one misses what its queue had no room for.         *)
(***************************************************************************)
EXTENDS Naturals

CONSTANTS Clients, MaxLines

VARIABLES
    printed,    \* lines 1..printed have been printed
    over,       \* the run has closed its channel
    next,       \* next[c]: no line below this one will reach c any more
    told        \* the clients that were told "done"

vars == <<printed, over, next, told>>

Init ==
    /\ printed = 0
    /\ over = FALSE
    /\ next = [c \in Clients |-> 1]
    /\ told = {}

PrintLine ==
    /\ ~over
    /\ printed < MaxLines
    /\ printed' = printed + 1
    /\ UNCHANGED <<over, next, told>>

Finish ==
    /\ over' = TRUE
    /\ UNCHANGED <<printed, next, told>>

Deliver(c) ==
    /\ c \notin told
    /\ \E n \in next[c]..printed : next' = [next EXCEPT ![c] = n + 1]
    /\ UNCHANGED <<printed, over, told>>

Tell(c) ==
    /\ over
    /\ c \notin told
    /\ told' = told \union {c}
    /\ UNCHANGED <<printed, over, next>>

Next == PrintLine \/ Finish \/ \E c \in Clients : Deliver(c) \/ Tell(c)

Spec == Init /\ [][Next]_vars
=============================================================================

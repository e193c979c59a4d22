--------------------------- MODULE VersionHistory ---------------------------
(***************************************************************************)
(* What a job's saved scripts promise to those who restore or replay them  *)
(* (models.py, JobScriptVersion), whatever requests overlap and whenever   *)
(* the server dies: a history begins when its job does, gets longer by one *)
(* version at its end and never otherwise, and goes as a whole; an id that *)
(* had one gets no other.                                                  *)
(***************************************************************************)
EXTENDS Sequences

CONSTANTS
    Jobs,       \* the ids of jobs
    Contents    \* what a version may hold

VARIABLES
    saved,      \* the versions of each job, the oldest first
    drawn       \* the ids given to a job so far

historyVars == <<saved, drawn>>

Init ==
    /\ saved = [j \in Jobs |-> <<>>]
    /\ drawn = {}

Begin(j, content) ==
    /\ j \notin drawn
    /\ drawn' = drawn \union {j}
    /\ saved' = [saved EXCEPT ![j] = <<content>>]

Extend(j, content) ==
    /\ saved[j] # <<>>
    /\ saved' = [saved EXCEPT ![j] = Append(@, content)]
    /\ UNCHANGED drawn

Discard(j) ==
    /\ saved[j] # <<>>
    /\ saved' = [saved EXCEPT ![j] = <<>>]
    /\ UNCHANGED drawn

Next == \E j \in Jobs :
           \/ \E content \in Contents : Begin(j, content) \/ Extend(j, content)
           \/ Discard(j)

Spec == Init /\ [][Next]_historyVars
=============================================================================

----------------------------- MODULE MCExecutor -----------------------------
(* Instances of Executor for TLC. *)
EXTENDS Executor, TLC

CONSTANTS a, b  \* job ids

\* Independent jobs.
NoDeps == [j \in Jobs |-> {}]

\* b runs after a.
Chain == [j \in Jobs |-> IF j = b THEN {a} ELSE {}]

Symmetric == Permutations(Workers) \union Permutations(Pids)
=============================================================================

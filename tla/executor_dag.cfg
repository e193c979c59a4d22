\* A chain of two jobs and three runs.
CONSTANTS
    a = a
    b = b
    None = None
    Workers = {w1, w2, w3}
    Jobs = {a, b}
    DependsOn <- Chain
    MaxConcurrent = 1
    Pids = {p1, p2, p3}
    Env = {}
    MaxCrashes = 0
SPECIFICATION Spec
SYMMETRY Symmetric
INVARIANTS DependentsAfterSuccess SlotsReturned
CHECK_DEADLOCK FALSE

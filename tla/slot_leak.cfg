\* A job is deleted while its script runs.
CONSTANTS
    a = a
    b = b
    None = None
    Workers = {w1, w2}
    Jobs = {a}
    DependsOn <- NoDeps
    MaxConcurrent = 1
    Pids = {p1, p2}
    Env = {"delete"}
    MaxCrashes = 0
SPECIFICATION Spec
INVARIANTS SlotsReturned
CHECK_DEADLOCK FALSE

\* A cancel goes by the pid of a row after the server died.
CONSTANTS
    a = a
    b = b
    None = None
    Workers = {w1, w2}
    Jobs = {a}
    DependsOn <- NoDeps
    MaxConcurrent = 1
    Pids = {p1, p2}
    Env = {"cancel", "reuse"}
    MaxCrashes = 1
SPECIFICATION Spec
INVARIANTS CancelledWasAsked
CHECK_DEADLOCK FALSE

\* Two runs of a chain of two jobs, with failing statements and thread starts.
CONSTANTS
    a = a
    b = b
    None = None
    Workers = {w1, w2}
    Jobs = {a, b}
    DependsOn <- Chain
    MaxConcurrent = 1
    Pids = {p1, p2}
    Env = {"thread", "db"}
    MaxCrashes = 0
SPECIFICATION Spec
SYMMETRY Symmetric
INVARIANTS SlotsAccounted
PROPERTIES PoolImplemented
CHECK_DEADLOCK FALSE

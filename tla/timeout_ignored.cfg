\* A script that never closes its stdout.
CONSTANTS
    a = a
    b = b
    None = None
    Workers = {w1, w2}
    Jobs = {a}
    DependsOn <- NoDeps
    MaxConcurrent = 1
    Pids = {p1, p2}
    Env = {}
    MaxCrashes = 0
SPECIFICATION ThreadSpec
PROPERTIES ScriptsStop
CHECK_DEADLOCK FALSE

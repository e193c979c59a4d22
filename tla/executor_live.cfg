\* Two runs of one job for one slot; nothing is deleted, nothing dies.
CONSTANTS
    a = a
    b = b
    None = None
    Workers = {w1, w2}
    Jobs = {a}
    DependsOn <- NoDeps
    MaxConcurrent = 1
    Pids = {p1, p2}
    Env = {"spawn", "decode"}
    MaxCrashes = 0
SPECIFICATION FairSpec
PROPERTIES RunsEnd RowsSettle
CHECK_DEADLOCK FALSE

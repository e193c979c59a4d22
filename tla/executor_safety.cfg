\* Two runs of one job for one slot, with every call of the API beside them and
\* one death of the server.
CONSTANTS
    a = a
    b = b
    None = None
    Workers = {w1, w2}
    Jobs = {a}
    DependsOn <- NoDeps
    MaxConcurrent = 1
    Pids = {p1, p2}
    Env = {"toggle", "delete", "cancel", "spawn", "decode"}
    MaxCrashes = 1
SPECIFICATION Spec
SYMMETRY Symmetric
INVARIANTS TypeOK CapRespected TableIsLive RowsSettled NotifiedAsRecorded CancelledWasAsked
PROPERTIES RowsFinal
CHECK_DEADLOCK FALSE

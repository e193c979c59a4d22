\* One client whose queue is full when the run ends.
CONSTANTS
    Clients = {c1}
    MaxLines = 3
    BufferMax = 1
    QueueMax = 2
    MaxCloses = 2
SPECIFICATION FairSpec
PROPERTIES SentinelArrives
CHECK_DEADLOCK FALSE

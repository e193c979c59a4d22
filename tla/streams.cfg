\* Two clients of a run of three lines; the queues can overflow.
CONSTANTS
    Clients = {c1, c2}
    MaxLines = 3
    BufferMax = 1
    QueueMax = 2
    MaxCloses = 2
SPECIFICATION FairSpec
INVARIANTS TypeOK NoGap
PROPERTIES FeedImplemented HandlersEnd
CHECK_DEADLOCK FALSE

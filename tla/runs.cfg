CONSTANTS
    j1 = j1
    j2 = j2
    j3 = j3
    h1 = h1
    x1 = x1
    x2 = x2
    python = python
    bash = bash
    daily = daily
    None = None
    Jobs = {j3}
    Handlers = {h1}
    Scripts = {x1, x2}
    Kinds = {python, bash}
    Crons = {daily}
    Odd = {}
    NewRows <- MCNewRows
    Patches <- MCPatches
    Calls <- MCCalls
    MaxRequests = 3
    MaxRestarts = 0
    MaxRuns = 2
    AtOnce = {python}
    Empty = Empty
    Garbled = Garbled
    DagJobs = {j1, j2, j3}
    Needs <- MCNeeds
    Slots = 2
    MaxDagRuns = 4
    MaxLines = 5
    HeadLines = {0, 1, 2}
    TailLines = {0, 1, 2}
    TimeoutKeeps = 3
    MyJobs = {j1, j2}
    OtherJobs = {j3}
    Day = 2
    Spans = {1}
    MaxHistory = 2
    MaxTime = 4
SPECIFICATION Spec
SYMMETRY MCSymmetry
INVARIANTS
    RunsTypeOK
    RunsASavedVersion
    RunsWhatItRead
    ReplayIsExact
    JoinTriggers
    StartsAreOwed
    LogKeepsEnds
    ReportsAgree
    DaysListed
    CountedOnce
CHECK_DEADLOCK FALSE

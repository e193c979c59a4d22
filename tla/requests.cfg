CONSTANTS
    t1 = t1
    t2 = t2
    j1 = j1
    j2 = j2
    x1 = x1
    x2 = x2
    daily = daily
    odd = odd
    python = python
    auth = auth
    login = login
    None = None
    Jobs = {j1, j2}
    Handlers = {t1, t2}
    Scripts = {x1, x2}
    Kinds = {python}
    Crons = {daily, odd}
    Odd = {odd}
    NewRows <- MCNewRows
    Patches <- MCPatches
    Calls <- MCCalls
    MaxRequests = 4
    MaxRestarts = 1
    EnvJobs = {j1, j2}
    FirstJob = j1
    EnvKeys = {x1, x2}
    EnvValues = {daily}
    EnvThreads = {t1, t2}
    SecretKeys = {auth, login}
    MaxEnvCalls = 4
    NoRow = NoRow
    Usernames = {daily}
    AuthThreads = {t1, t2}
    MaxAuthCalls = 5
    Clients = {t1, t2}
    Keys = {auth, login}
    Limit <- MCLimit
    Window = 3
    MaxWait = 1
    MaxClock = 5
    MaxAttempts = 4
    PutThreads = {t1, t2}
    Notes = {x1}
    PutBodies <- MCBodies
    MaxPrefCalls = 4
    Unset = Unset
    ReqThreads = {t1, t2}
    ReqTexts = {x1, x2}
    MaxReqCalls = 4
    NoText = NoText
    EmptyText = EmptyText
    MixedText = MixedText
SPECIFICATION Spec
SYMMETRY MCSymmetry
INVARIANTS
    ServicesTypeOK
    RegistrationAgrees
    VersionsContiguous
    HeadIsContent
    OneTokenPerLogin
    LogoutIsFinal
    RateBound
    OneRow
    SentAsAsked
    AnsweredIsInstalled
PROPERTIES
    HistoryImplemented
    ReplacedAtOnce
    BulkIsWhole
CHECK_DEADLOCK FALSE

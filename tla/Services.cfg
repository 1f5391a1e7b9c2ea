CONSTANTS
    Callers = {ta, tb}
    MaxCalls = 3
    CallKeys = {k1}
    DailyCap = 1
    ReseedEvery = 2
    BucketSize = 1
    CallBudget = 2
    RoundTripMax = 1
    MaxBackoff = 1
    LastDay = 0
    RailTurns = {t1, t2}
    Streams = {s1}
    QueueMax = 2
    MaxBeats = 1
    LastFrame = 2
    McpUsers = {u1, u2}
    Connections = {c1, c2, c3}
    CallsPerUser = 1
    Browsers = {b1, b2}
    PerMinute = 2
    RateWindow = 1
    SweepInterval = 1
    LastTick = 2
    Sessions = {p1, p2}
    Keep = 1
    MaxStamp = 3
    Importers = {web, runner}
    ResultFiles = {f1}
    MaxVersion = 2
    Requests = {r1, r2}
    MaxTries = 2
SPECIFICATION ServicesSpec
INVARIANTS
    SpansTellTheCalls
    RailShowsTheTurn
    CatalogAndConnectionAgree
    LimiterIsASlidingWindow
    RetentionKeepsTheRecord
    VouchedForIsStored
    ShutdownSettlesTurns
PROPERTIES
    CapOvershootIsTheUnflushed
    EveryStreamEnds
    DiscoverAnswers
CHECK_DEADLOCK FALSE

SPECIFICATION SensorsSpec
CONSTANTS
    v1 = v1
    v2 = v2
    aj = aj
    ah = ah
    bj = bj
    aj2 = aj2
    Unreadable = Unreadable
    Pids = {l1, l2}
    NoPid = NoPid
    BackoffInitial = 1
    BackoffMax = 4
    HttpRestartLimit = 2
    MaxLaunchFailures = 1
    StaleAfter = 2
    LongestTick = 2
    MaxToggles = 1
    MaxFailures = 1
    Interactive = {1, 2}
    NoSession = NoSession
    Threshold = 2
    Wrap = 4
    Signals = {gpu}
    Guarded = {gpu}
    Grace = 2
    Period = 1
    Cap0 = 2
    Cap1 = 3
    Cap2 = 3
    Agg1 = 2
    Agg2 = 2
    Raw = 2
    Middle = 5
    Day = 8
    Detail = 2
    MaxTime = 9
    MaxReloads = 1
    MaxConsecutive = 2
    Persistent = 2
    CheckInterval = 1
    Drivers <- TwoDrivers
    Catalog <- GpuSensors
    Tolerance = 1
    Listings <- AllOrders
    Histories <- TwoSamples
    MaxInstalls = 2
    MaxGaps = 1
    BudgetN = 1
    Window = 3
    UptimeFloor = 2
    SlowestTick = 2
    MaxStale = 3
    RespawnBackoff = 2
    StartupTimeout = 3
    DiscoverySamples = 2
    ReaderDelay = 1
    MaxSpawnFailures = 1
CHECK_DEADLOCK FALSE
INVARIANTS
    RestartsBounded
    ServedIsFresh
    ReadyIsTrue
    NoDieReadingAsVram
    PresenceIsTrue
    BlindIsListed
    HistoryIsExact
PROPERTIES
    ImplementsRestartBudget
    NoRestartForATransient
    CardComesBack
    StopLeavesNothing

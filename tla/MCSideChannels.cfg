SPECIFICATION SideSpec
CONSTANTS
    hot = hot
    warm = warm
    Sessions = {s1}
    Jobs = {j1}
    Rules = {hot}
    AnyRule = AnyRule
    Period = 1
    JobGone = 3
    CheckInterval = 1
    Snoozes = {2}
    MaxPrefs = 2
    MaxFaults = 1
    Urls = {hub, log}
    NewestUrl = hub
    QueueMax = 2
    SpoolMax = 2
    RetryMin = 1
    RetryMax = 2
    MaxReports = 2
    MaxOutages = 1
    MaxBreakdowns = 1
    KeepArchives = 2
    MaxLines = 1
    MaxTicks = 5
    MaxFailures = 2
    Handlers = {h1, h2}
    Requests <- Clients
    Default <- DefaultText
    OnDisk <- HandWritten
    MaxRequests = 2
    MaxWriteFailures = 1
CHECK_DEADLOCK FALSE
INVARIANTS
    NothingVanishes
    DeliveredOnce
    NothingSlips
    KillsAreTold
    MuteHolds
    LoadedFollowsFile
PROPERTIES
    SpoolDrains
    EditsAreLocal

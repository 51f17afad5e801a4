SPECIFICATION ActuatorSpec
CONSTANTS
    watchdog = watchdog
    supervisor = supervisor
    client = client
    worker = worker
    NoPid = NoPid
    OwnPid = watchdog
    Pids <- PoolPids
    Start <- Pool
    Running <- PoolPids
    Strangers <- Newcomers
    AskAfter = 2
    KillAfter = 3
    MaxRecycled = 1
    p1 = p1
    p2 = p2
    p3 = p3
    Processes <- TwoTargets
    Trees <- PairTree
    Denied = {}
    Nested = TRUE
    MaxThrottles = 3
    MaxActuators = 2
INVARIANTS
    FindsTheRoot
    ProtectedSpared
    SiblingsSpared
    SuspendedIsCovered
    ExitLeavesOnlyInFlight
PROPERTIES
    AskedBeforeKilled
    TreadmillEnds
    EverySuspendIsAnswered
CHECK_DEADLOCK FALSE

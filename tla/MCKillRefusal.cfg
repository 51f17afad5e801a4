SPECIFICATION KillSpec
CONSTANTS
    watchdog = watchdog
    supervisor = supervisor
    client = client
    worker = worker
    NoPid = NoPid
    OwnPid = watchdog
    Pids <- PoolPids
    Start <- PoolWithRefusal
    Running <- PoolPids
    Strangers <- Service
    AskAfter = 2
    KillAfter = 3
    MaxRecycled = 0
INVARIANT NeverKillHonoured

SPECIFICATION Spec
CONSTANTS
    Actions = {"kill", "throttle"}
    RecheckEvery = 3
    Cooldown = 4
    Pauses = {4, 9}
    SlowestTick = 2
    Events = {"pause"}
    FirstDisk <- ArmedWithCap
INVARIANT NothingWhilePaused

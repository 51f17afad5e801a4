SPECIFICATION FairSpec
CONSTANTS
    Actions = {"kill", "throttle"}
    RecheckEvery = 2
    Cooldown = 2
    Pauses = {3}
    SlowestTick = 2
    Events = {"pause", "patch", "editor", "restart"}
    FirstDisk <- AnyFile
INVARIANT PauseHonoured
INVARIANT PauseEnds
INVARIANT HealthTellsThePause
PROPERTY CooldownKept
PROPERTY PatchesTakeEffect
INVARIANT MalformedIsSafe

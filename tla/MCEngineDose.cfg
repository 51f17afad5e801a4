SPECIFICATION Spec
CONSTANTS
    Rules = {"dose"}
    Signals = {"cpu"}
    Config <- OneDose
    Values = {0, 2, 3}
    Slack = 0
    MinSamplesFloor = 3
    MaxSampleAge = 2
    StarvationAfter = 5
    MaxPlausibleGap = 60
    DoseMaxGap = 2
    TickHz = 1
    Scale = 10
    Gaps = {1, 3}
    PauseLengths = {}
    MaxTime = 11
    MaxPending = 1
INVARIANTS
    HeatIsPaidFor
    HeatIsNotForgiven
    KillIsAnnounced

SPECIFICATION Spec
CONSTANTS
    Rules = {"hot"}
    Signals = {"cpu"}
    Config <- TwoThirds
    Values = {0, 1}
    Slack = 0
    MinSamplesFloor = 3
    MaxSampleAge = 2
    StarvationAfter = 3
    MaxPlausibleGap = 60
    DoseMaxGap = 10
    TickHz = 2
    Scale = 10
    Gaps = {1, 2}
    PauseLengths = {4}
    MaxTime = 8
    MaxPending = 1
INVARIANTS
    StarvedIsSilence
    SustainedEvidence
    HotRuleFires
PROPERTIES
    IsActionGate

SPECIFICATION ThrottleFairSpec
CONSTANTS
    p1 = p1
    p2 = p2
    p3 = p3
    Processes <- ThreeTargets
    Trees <- ShrinkingTrees
    Denied = {}
    Nested = FALSE
    MaxThrottles = 2
    MaxActuators = 1
CHECK_DEADLOCK FALSE
PROPERTY EventuallyResumed

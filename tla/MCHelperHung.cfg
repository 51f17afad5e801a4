SPECIFICATION HelperFairSpec
CONSTANTS
    MaxStale = 3
    RespawnBackoff = 2
    StartupTimeout = 3
    DiscoverySamples = 2
    ReaderDelay = 1
    MaxSpawnFailures = 1
PROPERTY HungIsReplaced
CHECK_DEADLOCK FALSE

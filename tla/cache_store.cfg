CONSTANTS
    Names = {"dom", "sub"}
    QTypes = {"A"}
    NXType = "NX"
    ECSPrefixes = {}
    NoECS = NoECS
    Parent <- MCParent
    NoName = NoName
    FlushUsed = TRUE
    ShardCount = 2
    ShardOf <- TwoShards
    MaxEntries = 1
    WireTTLs = {2}
    MinTTL = 0
    MaxTTL = 20
    NegMaxTTL = 2
    MaxFailureTTL = 3
    DefaultFailureTTL = 1
    StaleSettings = {FALSE}
    HardenBelowNX = FALSE
    PrefetchEnabled = FALSE
    Getters = {}
    NoEntry = NoEntry
    ClockSteps <- Second
    MaxTime = 2
    MaxStores = 3
    MaxStoreDelay = 1
SPECIFICATION Spec
INVARIANTS WithinLimit
PROPERTIES RemovalIsExact

CONSTANTS
    Names = {"dom", "sub"}
    QTypes = {"A"}
    NXType = "NX"
    ECSPrefixes = {"p"}
    NoECS = NoECS
    Parent <- MCParent
    NoName = NoName
    FlushUsed = FALSE
    ShardCount = 1
    ShardOf <- OneShard
    MaxEntries = 0
    WireTTLs = {1}
    MinTTL = 1
    MaxTTL = 20
    NegMaxTTL = 2
    MaxFailureTTL = 3
    DefaultFailureTTL = 1
    StaleSettings = {TRUE, FALSE}
    HardenBelowNX = TRUE
    PrefetchEnabled = FALSE
    Getters = {"g1"}
    NoEntry = NoEntry
    ClockSteps <- Second
    MaxTime = 2
    MaxStores = 2
    MaxStoreDelay = 0
SPECIFICATION FairSpec
INVARIANTS HitAnswersQuestion
PROPERTIES ExpiredGoesAway

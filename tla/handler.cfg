CONSTANTS
    None = None
    c1 = c1  c2 = c2  c3 = c3  w1 = w1  w2 = w2
    Clients = {c1, c2}
    Keys = {}
    Unit = 1  Rate = 1  Burst = 1  Cleanup = 1  RespRate = 1  RespBurst = 1  SlipRatio = 2  MaxTime = 0
    GlobalACL <- MCGlobalACL
    ZoneACLs <- MCZoneACLs
    Workers = {w1, w2}
    Queries <- MCQueries
    Prefix <- MCPrefix
    Results <- MCResults
    Blocked = {}
    BlockingMode = "nxdomain"
    NoCacheClients = {}
    LimiterOn = FALSE  RRLOn = FALSE
    ServeStale = TRUE
    ReservedAddrs = {}
    PrivateData = {"private"}
    MaxPrefix = 2
    RRSize <- MCRRSize
    AdvertisedSize = 1232
    Glue = {}
    Configs <- MCConfigs
SPECIFICATION Spec
INVARIANTS AnswersInScope AuthenticDataIsValidated PrivateStaysOut
SYMMETRY Symmetry
CHECK_DEADLOCK FALSE

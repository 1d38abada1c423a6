SPECIFICATION FairSpec
CONSTANTS
    r1 = r1
    r2 = r2
    f1 = f1
    f2 = f2
    b1 = b1
    None = None
    Queries <- MCQueries
    LocalZones <- MCLocalZones
    SpecialUse <- MCSpecialUse
    ForwardZones <- MCForwardZones
    RootServers <- MCRootServers
    FallbackResolvers = {b1}
    Replies <- MCReplies
    RTT <- MCRTT
    UpstreamRetries = 2
    DNS64Enabled = TRUE
    DNSSECEnabled = TRUE
    MaxFails = 1
INVARIANTS  SendBound 
PROPERTIES EveryCallReturns

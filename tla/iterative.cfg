SPECIFICATION Spec
CONSTANTS
    a1 = a1
    a2 = a2
    a3 = a3
    a4 = a4
    NoAddr = NoAddr
    Questions <- MCQuestions
    Messages <- MCMessages
    RootServers <- MCRootServers
    HostAddrs <- MCHostAddrs
    MaxDepth = 3
    MaxCNAMEDepth = 1
    QMinEnabled = TRUE
    PreferIPv4 = FALSE
    Validating = TRUE
INVARIANTS StoredIsSound AnswerFollowsChain QueryBound 
PROPERTIES AllServersAsked

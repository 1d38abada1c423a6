SPECIFICATION MCSpec
CONSTANTS
    NoPid = NoPid
    Empty = Empty
    p1 = p1  p2 = p2  t1 = t1  t2 = t2  d1 = d1  h1 = h1
    Pids <- MCPids
    Conns <- MCConns
    Kind <- MCKind
    MaxUDPWorkers = 2
    MaxConns = 1
    PipelineMax = 2
    Scenarios <- MCScenarios
    maxNameLength = 6
    maxLabelLength = 2
    maxPointerDepth = 3
    PointerSpace = 16
    BufferSize = 30
    Packed <- MCPacked
    Received <- MCReceived
CHECK_DEADLOCK FALSE
INVARIANTS SlotsMatchConnections  MessagesSurvive
PROPERTIES NobodyIsLeftWaiting SigtermStops ValidatesInTheEnd

SPECIFICATION FairQueueSpec
CONSTANTS
    r1 = r1
    r2 = r2
    c1 = c1
    Requests <- TwoRequests
    Conns = {c1}
    ConnOf <- SharedConn
    Profiles <- PairProfiles
    MaxPackets = 0
    MiddlewareWorkers = 2
    ResponseWorkers = 1
    FileCreateMayFail = FALSE
    MaxPanics = 1
PROPERTY AnsweredInTurn
CHECK_DEADLOCK FALSE

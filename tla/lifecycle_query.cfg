SPECIFICATION FairSpec
CONSTANTS
    r1 = r1
    c1 = c1
    Requests <- OneRequest
    Conns = {c1}
    ConnOf <- OneConn
    Profiles <- QueryProfiles
    MaxPackets = 1
    MiddlewareWorkers = 1
    ResponseWorkers = 1
    FileCreateMayFail = FALSE
    MaxPanics = 0
PROPERTY FinishedIsAnswered
CHECK_DEADLOCK FALSE

SPECIFICATION Spec
CONSTANTS
    r1 = r1
    c1 = c1
    Requests <- OneRequest
    Conns = {c1}
    ConnOf <- OneConn
    Profiles <- GetProfiles
    MaxPackets = 1
    MiddlewareWorkers = 1
    ResponseWorkers = 1
    FileCreateMayFail = FALSE
    MaxPanics = 0
INVARIANT FinalResponseEnds
CHECK_DEADLOCK FALSE

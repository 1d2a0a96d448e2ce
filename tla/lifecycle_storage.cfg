SPECIFICATION Spec
CONSTANTS
    r1 = r1
    c1 = c1
    Requests <- OneRequest
    Conns = {c1}
    ConnOf <- OneConn
    Profiles <- FileProfiles
    MaxPackets = 2
    MiddlewareWorkers = 1
    ResponseWorkers = 1
    FileCreateMayFail = FALSE
    MaxPanics = 0
INVARIANT StorageHonoured
CHECK_DEADLOCK FALSE

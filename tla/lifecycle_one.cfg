SPECIFICATION FairSpec
CONSTANTS
    r1 = r1
    c1 = c1
    Requests <- OneRequest
    Conns = {c1}
    ConnOf <- OneConn
    Profiles <- PlainProfiles
    MaxPackets = 3
    MiddlewareWorkers = 1
    ResponseWorkers = 1
    FileCreateMayFail = TRUE
    MaxPanics = 1
INVARIANTS TypeOK DispatchSound OneFinalResponse NothingLeaks BodyDelivered
PROPERTIES FinishedIsAnswered CancelledIsForgotten ContractKept
CHECK_DEADLOCK FALSE

SPECIFICATION FairSpec
CONSTANTS
    c1 = c1
    c2 = c2
    NoLength = NoLength
    Handlers <- TwoHandlers
    MaxPackets = 3
    Declared <- Lengths
    IOMayFail = TRUE
INVARIANTS
    TypeOK
    SuccessMeansBody
    DroppedMeansFailed
    TerminalLeavesPending
PROPERTIES
    CompletedImmutable
    CallbackSettled
    FileTerminates
CHECK_DEADLOCK FALSE

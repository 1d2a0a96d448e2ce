SPECIFICATION ServerSpec
CONSTANTS
    NoBody = NoBody
    Plans <- AllPlans
    Longest = 7
    ChunkSize = 2
    Limit = 2
    MaxCapsules = 3
    Refusals = {"interim", "final", "open", "fin", "open_error"}
INVARIANTS TypeOK InOrder FinMeansWhole HeadersFirst ChannelBounded ResetForgets
PROPERTIES ResetHonoured ResponseEndsOrRefused CapsulesSent
CHECK_DEADLOCK FALSE

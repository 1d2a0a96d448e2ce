SPECIFICATION ServerSpec
CONSTANTS
    NoBody = NoBody
    Plans <- Ending
    Longest = 3
    ChunkSize = 2
    Limit = 1
    MaxCapsules = 0
    Refusals = {"interim", "final"}
PROPERTIES
    ResponseEnds
CHECK_DEADLOCK FALSE

SPECIFICATION AnswerSpec
CONSTANTS
    g1 = g1
    g2 = g2
    s1 = s1
    p1 = p1
    p2 = p2
    Paths <- MCPaths
    Methods = {"GET", "POST"}
    Globals <- MCGlobals
    RouteShapes <- MCRouteShapes
    StreamShapes <- MCStreamShapes
    MaxCalls = 3
    DataSizes = {0, 2}
    FileSizes = {0, 2}
    DirSizes = {0, 3}
    Missing = Missing
    Unset = Unset
SYMMETRY Symmetry
INVARIANTS AnswerTypeOK MiddlewaresInOrder TablesAgree LastHandlerAnswers 
CHECK_DEADLOCK FALSE

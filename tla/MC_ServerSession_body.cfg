CONSTANTS
    MaxHeaderSize = 9
    MaxBodySize = 2
    MaxRequests = 2
    Shapes <- MCBodyShapes
    Pipelining = TRUE
    ResponseLen = 3
    BadRequestLen = 1
    Statuses = {200}
    SegmentedRecv = FALSE
SPECIFICATION Spec
INVARIANT HandlerGetsOwnBody
CHECK_DEADLOCK FALSE

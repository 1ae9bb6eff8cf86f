CONSTANTS
    MaxHeaderSize = 8
    MaxBodySize = 2
    MaxRequests = 2
    Shapes <- MCBodyShapes
    Pipelining = FALSE
    ResponseLen = 3
    BadRequestLen = 1
    Statuses = {200}
    SegmentedRecv = TRUE
SPECIFICATION Spec
INVARIANT GracefulClose
CHECK_DEADLOCK FALSE

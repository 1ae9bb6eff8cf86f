CONSTANTS
    MaxHeaderSize = 8
    MaxBodySize = 2
    MaxRequests = 2
    Shapes <- MCCloseShapes
    Pipelining = FALSE
    ResponseLen = 3
    BadRequestLen = 1
    Statuses = {200}
    SegmentedRecv = FALSE
SPECIFICATION Spec
INVARIANT ConnectionCloseHonoured
CHECK_DEADLOCK FALSE

CONSTANTS
    ReqLen = 2
    RecvLen = 4
    MaxUserRequests = 2
    RespShapes <- MCShapes
    Faults <- MCNoFaults
SPECIFICATION FairSpec
PROPERTY CallbackEventually
CHECK_DEADLOCK FALSE

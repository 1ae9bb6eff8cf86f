CONSTANTS
    ReqLen = 2
    RecvLen = 4
    MaxUserRequests = 1
    RespShapes <- MCShapes
    Faults <- MCEstablishFaults
SPECIFICATION Spec
INVARIANT CallbackAtMostOnce
CHECK_DEADLOCK FALSE

CONSTANTS
    ReqLen = 3
    RecvLen = 4
    MaxUserRequests = 2
    RespShapes <- MCShapes
    Faults <- MCReportedFaults
SPECIFICATION FairSpec
INVARIANT TypeOK CallbackAtMostOnce RequestStreamIntact FailedRequestClosesConnection
PROPERTY FirstCallbackEventually
CHECK_DEADLOCK FALSE

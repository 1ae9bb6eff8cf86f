CONSTANTS
    MaxHeaderSize = 9
    MaxBodySize = 2
    MaxRequests = 2
    Shapes <- MCShapes
    Pipelining = TRUE
    ResponseLen = 3
    BadRequestLen = 1
    Statuses = {200}
    SegmentedRecv = TRUE
SPECIFICATION FairSpec
INVARIANT TypeOK ResponseStreamIntact NoReadBeforeResponseSent HandlerSeesContentLength
PROPERTY NoIOAfterClose SessionEventuallyCloses ChannelRefined
CHECK_DEADLOCK FALSE

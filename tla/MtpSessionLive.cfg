\* One request, five message ids, two disturbances, fair threads.
SPECIFICATION FairSpec
CONSTANTS
    Requests = {1}
    NoReq = NoReq
    MaxMsgId = 5
    IdsBufferSize = 1
    MaxFaults = 2
PROPERTIES
    EventuallyWithServer
CHECK_DEADLOCK FALSE

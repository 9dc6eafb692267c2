\* Two requests, three message ids, one disturbance: every interleaving of the
\* two threads' lock-level steps.
SPECIFICATION Spec
CONSTANTS
    Requests = {1, 2}
    NoReq = NoReq
    MaxMsgId = 3
    IdsBufferSize = 1
    MaxFaults = 1
INVARIANTS
    TypeOK
    NoRequestLost
    OnePlace
    AnswersReachTheirRequest
    ContainersAreValid
    NothingWaitsOnDeadConnection
    NoForgottenWakeUp
\* The ids and disturbances of a run end, and an idle session may really stop.
CHECK_DEADLOCK FALSE

\* The comment of SessionData::_toResend against Session::cancel.
SPECIFICATION Spec
CONSTANTS
    Requests = {1}
    NoReq = NoReq
    MaxMsgId = 2
    IdsBufferSize = 1
    MaxFaults = 1
INVARIANTS
    ToResendLiesInToSend
CHECK_DEADLOCK FALSE

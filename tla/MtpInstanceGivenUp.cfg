\* A request is given up after a fatal bad_msg_notification.
SPECIFICATION Spec
CONSTANTS
    Requests = {r1, r2}
    Dcs = {dc1, dc2}
    RequestOne = r1
    FirstMain = dc1
    NoDc = NoDc
    NoId = NoId
    ErrorKinds = {"fail", "temporary", "unauthorized", "giveUp", "fatal"}
    MaxErrors = 2
INVARIANT
    NoneIsDropped
CHECK_DEADLOCK FALSE

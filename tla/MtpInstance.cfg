\* Two requests, one of which may follow the other, every kind of error, four of them.
SPECIFICATION FairSpec
CONSTANTS
    Requests = {r1, r2}
    Dcs = {dc1, dc2}
    RequestOne = r1
    FirstMain = dc1
    NoDc = NoDc
    NoId = NoId
    ErrorKinds = {"fail", "authFail", "temporary", "unauthorized", "badGuest", "migrate", "notInited", "wait", "clear", "giveUp", "fatal", "importUnauthorized"}
    MaxErrors = 4
INVARIANTS
    TypeOK
    OnePlace
    MapsAgree
    WaitersAreServed
    NothingStranded
PROPERTIES
    ImplementsService
    EveryRequestEnds
\* The run ends when every request has ended.
CHECK_DEADLOCK FALSE

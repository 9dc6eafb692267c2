\* Every part in a behaviour of its own.
SPECIFICATION Spec
CONSTANTS
    \* Four messages in a chat, of which two have media at first, a viewer of three and pages of
    \* two; two changes and one failed request.
    MaxId = 4
    FirstMedia = {1, 2}
    LimitBefore = 1
    LimitAfter = 1
    PageLimit = 2
    MaxChanges = 2
    MaxFails = 1

    \* Three downloads that share one place for a request: a document saved to a file only, of two
    \* parts and a size that is no multiple of 1024, and two web files that the cache may have; one
    \* redirect and one fault.
    Loaders = {"a", "b", "c"}
    LoaderParts <- MCLoaderParts
    Short = {"a"}
    SizeKnown = {"a"}
    Web = {"b", "c"}
    LocalOnly = {"a"}
    Uncached = {"a"}
    QueriesLimit = 1
    MaxStarts = 3
    MaxRedirects = 1
    MaxLoaderFaults = 1

    \* An album of two files, one of two parts, and a file alone, two parts at a time, one fault.
    Items = {"a", "b", "c"}
    AlbumItems = {"a", "b"}
    ItemParts <- MCItemParts
    ParallelLimit = 2
    MaxSendingFaults = 1

    \* Three tasks, added one by one or two together.
    Tasks = {"a", "b", "c"}

    \* One call of the server, two of the client, one permission asked at a time and one fault.
    MaxCalls = 1
    MaxObjects = 2
    MaxAsked = 1
    MaxCallFaults = 1

    \* Two sessions of a CDN, and one disturbance.
    Sessions = {"a", "b"}
    Cdn = TRUE
    MaxRetries = 1
    MaxKeyFaults = 1

    \* Three endpoints, each better than the one before.
    Transports = {"ipv6", "http", "tcp"}
    Priority <- MCPriority

    \* Three consumers and three values, one fired in the handler of another.
    MaxConsumers = 3
    MaxFires = 3
    MaxDepth = 2

    \* Three writes, three times and two faults.
    MaxWrites = 3
    MaxTime = 2
    MaxFileFaults = 2

    None = None
    NoItem = NoItem
INVARIANTS
    TypeOK
    IdsAreRight
    LoadersAreRight
    AlbumGoesOnce
    KeyExchangeIsRight
    ConnectingIsRight
    EveryoneGetsValues
    OldOrNew
PROPERTIES
    EverythingEnds
    TasksAreDone
    KeyIsShared
    ConnectionsComeUp
\* A part may come to an end: all has been loaded, sent or done.
CHECK_DEADLOCK FALSE

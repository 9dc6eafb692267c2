\* The account and a channel in which the user acts and whose history the user reads
\* meanwhile, updates that count for two, one lost session and one refused difference.
SPECIFICATION FairSpec
CONSTANTS
    Main = main
    Channels = {channel}
    MainPts = 4
    ChannelPts = 4
    MaxCount = 2
    ActKinds = {"updates", "affected", "history"}
    MaxSwaps = 1
    MaxActs = 3
    MaxLosses = 1
    MaxFails = 1
    FailBoxes = {main}
    MaxEvents = 7
INVARIANTS
    TypeOK
    NothingSkipped
    AppliedOnceInOrder
    GapsAreWatched
PROPERTIES
    CaughtUp
\* The run ends when the server has nothing more to say.
CHECK_DEADLOCK FALSE

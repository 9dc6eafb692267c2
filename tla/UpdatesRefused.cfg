\* The difference of a channel is refused once.
SPECIFICATION FairSpec
CONSTANTS
    Main = main
    Channels = {channel}
    MainPts = 1
    ChannelPts = 3
    MaxCount = 1
    ActKinds = {"affected"}
    MaxSwaps = 0
    MaxActs = 0
    MaxLosses = 0
    MaxFails = 1
    FailBoxes = {channel}
    MaxEvents = 6
PROPERTIES
    AskedAgain
\* The run ends when the server has nothing more to say.
CHECK_DEADLOCK FALSE

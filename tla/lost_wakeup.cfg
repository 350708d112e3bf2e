SPECIFICATION FairSpec
CONSTANTS
    EventCap = 2
    CommandCap = 1
    Faults = {"open"}
    MaxPosts = 0
    MaxStarts = 1
    MaxPackets = 0
PROPERTIES
    StopReturns
CHECK_DEADLOCK FALSE

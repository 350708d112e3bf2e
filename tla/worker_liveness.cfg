SPECIFICATION FairSpec
CONSTANTS
    EventCap = 1
    CommandCap = 2
    Faults = {"open", "transmit", "other"}
    MaxPosts = 2
    MaxStarts = 1
    MaxPackets = 0
PROPERTIES
    EverySendAnswered
    StopSeen
    ImplementsSendService
CHECK_DEADLOCK FALSE

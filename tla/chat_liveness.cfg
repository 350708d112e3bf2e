SPECIFICATION ChatFairSpec
CONSTANTS
    EventCap = 12
    CommandCap = 1
    Faults = {"open", "startReceive", "transmit", "receive"}
    MaxPosts = 2
    MaxStarts = 1
    MaxPackets = 1
    EventsPerTick = 2
    HistoryLimit = 2
INVARIANT ShownOnce
PROPERTIES
    EveryMessageShown
    InitializationSettles
CHECK_DEADLOCK FALSE

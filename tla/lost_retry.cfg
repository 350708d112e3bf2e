SPECIFICATION ChatSpec
CONSTANTS
    EventCap = 8
    CommandCap = 1
    Faults = {"other"}
    MaxPosts = 1
    MaxStarts = 1
    MaxPackets = 0
    EventsPerTick = 2
    HistoryLimit = 2
INVARIANTS
    RetryNotLost
CHECK_DEADLOCK FALSE

SPECIFICATION ChatSpec
CONSTANTS
    EventCap = 4
    CommandCap = 1
    Faults = {"open", "stopReceive", "transmit", "thread", "other"}
    MaxPosts = 2
    MaxStarts = 2
    MaxPackets = 0
    EventsPerTick = 2
    HistoryLimit = 1
INVARIANTS
    ChatTypeOK
    MessagesTruthful
    PendingAccounted
    InterfaceAgrees
    EndedWorkerShown
PROPERTIES
    EveryAnswerFindsItsMessage
CHECK_DEADLOCK FALSE

SPECIFICATION Spec
CONSTANTS
    EventCap = 2
    CommandCap = 1
    Faults = {"open", "startReceive", "stopReceive", "receive", "transmit", "thread", "other"}
    MaxPosts = 2
    MaxStarts = 2
    MaxPackets = 1
INVARIANTS
    BackendReady
    ReportFaithful
    RunningMatchesThread
CHECK_DEADLOCK FALSE

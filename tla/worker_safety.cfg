SPECIFICATION Spec
CONSTANTS
    EventCap = 2
    CommandCap = 2
    Faults = {"open", "receive", "transmit", "thread", "other"}
    MaxPosts = 3
    MaxStarts = 1
    MaxPackets = 1
INVARIANTS
    TypeOK
    OneOutcome
    OutcomeTruthful
    NoneForgotten
    NoCommandStranded
CHECK_DEADLOCK FALSE

SPECIFICATION Spec
CONSTANTS
    EventCap = 3
    MaxPushes = 8
INVARIANTS
    Conservation
    Ordered
    NewestKept
PROPERTIES
    ControlOutlivesPackets
CHECK_DEADLOCK FALSE

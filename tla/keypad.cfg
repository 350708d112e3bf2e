CONSTANTS
    Devices <- MCDevices
    Builtin = "builtin"
    ByPath = "by-path"
    None = "none"
    Typewriter = {"KEY_A"}
    Fixed = {"TCA_HASH"}
    Keys <- MCKeys
    KernelCap = 3
    MaxPresses = 3
SPECIFICATION Spec
CHECK_DEADLOCK FALSE
INVARIANT TypedIsDelivered

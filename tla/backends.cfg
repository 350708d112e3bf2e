\* Both backends, two openings, two frames sent, two heard, one change of the nodes.
SPECIFICATION Spec
CONSTANTS
    SequenceBits = 2
    MaxFrames = 2
    Devices <- MCDevices
    FeatureSets <- MCFeatureSets
    Worlds <- MCWorlds
    KernelCap = 3
    MaxChanges = 1
    RxInterval = 7
    Airtimes = {3, 6}
    MaxOpens = 2
    MaxSends = 2
INVARIANTS
    DescriptorsPaired
    WholeFramesKept
    DiscoveryRight
    LastFrameLoopsBack
PROPERTIES
    OnlyFreshDelivered
    ImplementsRadioBackend
CHECK_DEADLOCK FALSE

SPECIFICATION Spec
CONSTANTS
    MaxPayload = 7
    Frames <- MCFrames
    NoiseUs <- MCNoiseUs
    MaxSends = 2
    MaxFaults = 2
INVARIANTS
    DecoderBounded
    OnlySentDecoded
    EveryFrameAccounted
PROPERTIES
    CleanFrameDecoded
CHECK_DEADLOCK FALSE

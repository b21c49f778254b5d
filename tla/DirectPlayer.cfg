SPECIFICATION Spec
CONSTANTS
    MaxFrames = 4
    MaxBytes = 8
    KeySize = 2
    DeltaSize = 1
    MaxFlowWindow = 30
    Flow = 3
    High = 2
    Low = 1
    StallTimeout = 3
    KeyPeriod = 5
    WireCap = 2
    MaxTicks = 24
    MaxFaults = 2
    MaxHangs = 1
INVARIANTS
    PictureIsFlushed
    PictureReturns
PROPERTY
    DecodesInOrder
CHECK_DEADLOCK FALSE

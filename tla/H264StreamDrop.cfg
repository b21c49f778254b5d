SPECIFICATION Spec
CONSTANTS
    v1 = v1
    v2 = v2
    Viewers <- MCViewers
    FlowOf <- MCFlowOf
    ChanCap = 2
    MaxTicks = 4
    MaxRuns = 1
    MaxFrames = 2
    MaxBytes = 4
    KeySize = 2
    DeltaSize = 1
    MaxFlowWindow = 2
PROPERTY
    ReceivesDecodable
CHECK_DEADLOCK FALSE

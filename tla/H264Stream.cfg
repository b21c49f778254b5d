SPECIFICATION Spec
CONSTANTS
    v1 = v1
    v2 = v2
    Viewers <- MCViewers
    FlowOf <- MCFlowOf
    ChanCap = 1
    MaxTicks = 3
    MaxRuns = 2
    MaxFrames = 2
    MaxBytes = 2
    KeySize = 2
    DeltaSize = 1
    MaxFlowWindow = 2
INVARIANTS
    TypeOK
    QueueBounded
    WindowRespected
    AcksExact
    NoLostWakeup
    ViewersServed
PROPERTY
    TakesDecodable
CHECK_DEADLOCK FALSE

SPECIFICATION Spec
CONSTANTS
    NStreams = 1
    StreamWindow = 2
    ConnWindow = 2
    MaxStreams = 1
    MaxFrame = 1
    ReleasedCap = 2
    MaxUp = 1
    MaxDown = 1
    HalfClosers = {1}
    MaxFaults = 1
INVARIANT
    HalfCloseFlushed
CHECK_DEADLOCK FALSE

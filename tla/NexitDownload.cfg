SPECIFICATION Spec
CONSTANTS
    NStreams = 2
    StreamWindow = 4
    ConnWindow = 4
    MaxStreams = 2
    MaxFrame = 1
    ReleasedCap = 2
    MaxUp = 0
    MaxDown = 2
    HalfClosers = {1}
    MaxFaults = 1
INVARIANT
    DownloadIntact
PROPERTY
    ConnCreditReturns
CHECK_DEADLOCK FALSE

SPECIFICATION Spec
CONSTANTS
    NStreams = 1
    StreamWindow = 4
    ConnWindow = 2
    MaxStreams = 1
    MaxFrame = 2
    ReleasedCap = 2
    MaxUp = 3
    MaxDown = 3
    HalfClosers = {1}
    MaxFaults = 2
INVARIANTS
    NoProtocolError
    StreamCreditConserved
    UploadBeforeShutdown
PROPERTIES
    DownWindow
    DownloadFinishes
CHECK_DEADLOCK FALSE

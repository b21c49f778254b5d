SPECIFICATION Spec
CONSTANTS
    MaxSockets = 3
    MaxUser = 3
    MaxFaults = 1
    MaxOthers = 1
INVARIANTS
    OwnedIsBound
    ReleaseSticks
PROPERTY
    CallersAnswered
CHECK_DEADLOCK FALSE

SPECIFICATION Spec
CONSTANTS
    Kernels = {k0, k1, k2, k3}
    Factory = k0
    Works = {k0, k1, k3}
    Big = {k3}
    Torn = torn
    None = none
    MaxInstalls = 3
    MaxFaults = 3
INVARIANTS
    SelectableIsWhole
    BricksOnlyInCommit
PROPERTY
    RollsBack
CHECK_DEADLOCK FALSE

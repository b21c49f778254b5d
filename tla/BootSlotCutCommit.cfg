SPECIFICATION Spec
CONSTANTS
    Kernels = {k0, k1}
    Factory = k0
    Works = {k0, k1}
    Big = {}
    Torn = torn
    None = none
    MaxInstalls = 1
    MaxFaults = 1
INVARIANT
    FailedCommitRollsBack
CHECK_DEADLOCK FALSE

SPECIFICATION Spec
CONSTANTS
    Kernels = {k0, k1, k2, k3}
    Factory = k0
    Works = {k0, k1, k3}
    Big = {k3}
    Torn = torn
    None = none
    MaxInstalls = 2
    MaxFaults = 1
INVARIANT
    OnlyTriedCommitted
CHECK_DEADLOCK FALSE

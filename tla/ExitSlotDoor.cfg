SPECIFICATION Spec
CONSTANTS
    c1 = c1
    c2 = c2
    h1 = h1
    h2 = h2
    Conns <- MCConns
    Hosts <- MCHosts
    HostOf <- MCHostOf
    MaxEpoch = 0
    MaxPins = 0
INVARIANT
    DoorNotUndone
CHECK_DEADLOCK FALSE

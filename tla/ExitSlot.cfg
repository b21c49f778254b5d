SPECIFICATION Spec
CONSTANTS
    c1 = c1
    c2 = c2
    h1 = h1
    h2 = h2
    Conns <- MCConns
    Hosts <- MCHosts
    HostOf <- MCHostOf
    MaxEpoch = 1
    MaxPins = 1
INVARIANTS
    ConnectingExact
    AtMostOneSession
    PinHolds
PROPERTY
    ClosedLeaves
CHECK_DEADLOCK FALSE

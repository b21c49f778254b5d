SPECIFICATION Spec
CONSTANTS
    Clients = {u1}
    Callers = {mcp, jiggler}
    Jigglers = {jiggler}
    Kinds = {"keyboard", "mouse"}
    MaxReports = 2
    MaxSwitches = 1
    MaxFaults = 1
INVARIANTS
    TypeOK
    ManualExcludesHID
    MCPOnlyInMode
    CountsExact
    ReservationsLive
    KeyDownHoldsLane
PROPERTIES
    ModeStable
CHECK_DEADLOCK FALSE

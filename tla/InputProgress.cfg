SPECIFICATION Spec
CONSTANTS
    Clients = {u1, u2}
    Callers = {mcp}
    Jigglers = {}
    Kinds = {"keyboard"}
    MaxReports = 1
    MaxSwitches = 1
    MaxFaults = 0
PROPERTIES
    SwitchEnds
    ReserveEnds
CHECK_DEADLOCK FALSE

CONSTANTS
    Cap = 34
    Reserve = 5
    HostMax = 5
    OutCap = 27
    Requests <- Split
    Callers = {"client_read"}
    Cutters = {"client_read"}
SPECIFICATION Spec
CHECK_DEADLOCK FALSE
INVARIANT OriginIsRight

CONSTANTS
    Cap = 34
    Reserve = 5
    HostMax = 5
    OutCap = 27
    Requests <- AnyRequests
    Callers = {"client_read"}
    Cutters = {}
SPECIFICATION Spec
CHECK_DEADLOCK FALSE
INVARIANT NoCallSpins

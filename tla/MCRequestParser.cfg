CONSTANTS
    Cap = 34
    Reserve = 5
    HostMax = 5
    OutCap = 27
    Requests <- AnyRequests
    Callers = {"unit_test", "client_read"}
    Cutters = {"unit_test"}
SPECIFICATION Spec
CHECK_DEADLOCK FALSE
INVARIANTS
    TypeOK
    ForwardedInOrder
    OriginIsRight
    RejectionIsRight
    DecidesInTime

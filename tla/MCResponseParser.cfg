CONSTANTS
    Cap = 48
    Reserve = 8
    OutCap = 44
    TransfCap = 4
    Responses <- AnyResponses
SPECIFICATION Spec
CHECK_DEADLOCK FALSE
INVARIANTS
    TypeOK
    ForwardedInOrder
    EndIsRight
    RejectionIsRight
    EveryCallReturns
    DecidesInTime

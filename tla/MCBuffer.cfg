CONSTANTS
    Byte = {0, 1}
    NUL = 0
    N0 = 2
    N = 5
SPECIFICATION Spec
INVARIANTS
    TypeOK
    PointerOrder
    EmptyIsReset
PROPERTIES
    PushBackIsReserved
    ImplementsQueue

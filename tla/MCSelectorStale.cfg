CONSTANTS
    ITEMS_MAX_SIZE = 4
    server_fd = 0
    PipeFds = 1
    Conn = {c1, c2}
    Server = Server
    NoData = NoData
SPECIFICATION Spec
SYMMETRY Symmetry
INVARIANT
    BlockReachesOwner

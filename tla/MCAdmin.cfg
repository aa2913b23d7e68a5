SPECIFICATION Spec
CONSTANTS
    Admin = {a, b}
    NoAdmin = NoAdmin
    NoRequest = NoRequest
    Request <- Requests
    ConfigNames = {"buffers_size", "proxy_port", "proxy_addr"}
    Defaults <- Created
    CommandLines <- Options
    MAX_CONFIG = 3
    MaxAsked = 2
    MaxConns = 1
INVARIANTS
    TypeOK
    AnswersAreWatched
    ListIsSnapshot
    AloneIsServed
    ConfigIsLatest
PROPERTY AnswersAreSent

CONSTANTS
    ITEMS_MAX_SIZE = 4
    NoData = NoData
    Cl = Cl
    Requests <- AnyRequests
    Responses <- AnyResponses
    Surroundings <- AnySurroundings
SPECIFICATION Spec
CHECK_DEADLOCK FALSE
INVARIANTS
    TypeOK
    DescriptorsMatch
    InstCountsRegistered
    InOrder
    RequestBeforeResponse
    NextStepIsWatched
    DeliveredBeforeRelease
PROPERTIES
    ReleasedIsLeftAlone
    Released

CONSTANTS
    ITEMS_MAX_SIZE = 4
    NoData = NoData
    Cl = Cl
    Requests <- PlainRequests
    Responses <- PlainResponses
    Surroundings <- SegmentsOnly
SPECIFICATION Spec
INVARIANT NoOriginMeansNone

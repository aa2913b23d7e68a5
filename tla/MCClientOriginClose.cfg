CONSTANTS
    ITEMS_MAX_SIZE = 4
    NoData = NoData
    Cl = Cl
    Requests <- PlainRequests
    Responses <- ClosingResponses
    Surroundings <- ClosingOnly
SPECIFICATION Spec
PROPERTY OriginCloseEnds

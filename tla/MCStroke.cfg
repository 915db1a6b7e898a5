SPECIFICATION FairSpec
CONSTANTS
    Coord <- MCCoord
    Reach = 4
INVARIANTS
    TypeOK
    StaysBetween
PROPERTIES
    StrokeIsConnected
    StopsShort
    EveryDragReturns

SPECIFICATION FairSpec
CONSTANTS
    NoRequest = NoRequest
    Size <- MCSize
    MaxResizes = 3
    MaxLoads = 2
CHECK_DEADLOCK FALSE
INVARIANTS
    TypeOK
    QuietWindowFits
PROPERTIES
    WindowSettles

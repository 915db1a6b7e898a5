SPECIFICATION Spec
CONSTANTS
    Coord <- MCCoord
    Reach = 3
INVARIANT
    FollowsLine

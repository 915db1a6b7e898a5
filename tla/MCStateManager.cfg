SPECIFICATION Spec
CONSTANTS
    s1 = s1
    s2 = s2
    s3 = s3
    s4 = s4
    s5 = s5
    p1 = p1
    p2 = p2
    Freed = Freed
    Snapshot <- MCSnapshot
    Picture <- MCPicture
INVARIANTS
    TypeOK
    SnapshotOwnership
    ButtonsGuardStacks
PROPERTIES
    ImplementsTimeline

SPECIFICATION Spec
CONSTANTS
    home = home
    png1 = png1
    small = small
    large = large
    s1 = s1
    s2 = s2
    s3 = s3
    p1 = p1
    p2 = p2
    b0 = b0
    b1 = b1
    b2 = b2
    NoName = NoName
    Absent = Absent
    Unreadable = Unreadable
    Corrupt = Corrupt
    Null = Null
    MaxStampImages = 1
    Freed = Freed
    Picture <- MCPicture
    Size <- MCSize
    FirstSize = small
    FirstBuffer = b0
    Buffer <- MCBuffer
    Snapshot <- MCSnapshot
    Dir <- MCDir
    StartDir = home
    PngName <- MCPng
    JpegName <- MCJpeg
    OtherName <- MCOther
CHECK_DEADLOCK FALSE
SYMMETRY Symmetry
INVARIANTS
    TypeOK
    OneCanvas
    CanvasIsRegistered
    SnapshotsFitCanvas
PROPERTIES
    UsesStateManager
    CanvasLostOnlyToBadFile

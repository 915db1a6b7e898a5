SPECIFICATION Spec
CONSTANTS
    home = home
    sub = sub
    png1 = png1
    jpg1 = jpg1
    typo = typo
    small = small
    b1 = b1
    b2 = b2
    b3 = b3
    NoName = NoName
    Absent = Absent
    Unreadable = Unreadable
    Corrupt = Corrupt
    Null = Null
    MaxStampImages = 2
    Dir <- MCOneDir
    StartDir = home
    PngName <- MCPng
    JpegName <- MCJpeg
    OtherName <- MCOther
    Size <- MCSize
    Buffer <- MCBuffer
CHECK_DEADLOCK FALSE
INVARIANT
    LoadUsesItsLabel

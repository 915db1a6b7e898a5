SPECIFICATION Spec
CONSTANTS
    One = 100
    PpmColour <- MCPpmColour
    Canvas <- MCCanvas
    Shade = {0, 100}
    StampImage <- MCStampImage
    Beginning <- MCBeginning
    Mouse <- MCMouse
    MaxClicks = 1
CHECK_DEADLOCK FALSE
INVARIANTS
    TypeOK
    BeltFollowsPanel
    BlurMissesOnlyGarbage
PROPERTIES
    ImplementsPaintedPicture

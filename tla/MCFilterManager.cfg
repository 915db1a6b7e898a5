SPECIFICATION Spec
CONSTANTS
    One = 2520
    Dimensions <- MCDimensions
    Colour <- MCColour
    Amount = {0, 1, 2}
    Level = {0, 1260}
    Factor = {0, 2}
    Bins = {2, 4}
    MaxPasses = 2
CHECK_DEADLOCK FALSE
INVARIANTS
    TypeOK
    UniformStaysUniform
PROPERTIES
    ImplementsFilteredPicture

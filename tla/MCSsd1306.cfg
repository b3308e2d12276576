SPECIFICATION Spec
CONSTANTS
    Width = 6
    Pages = 3
    Rows = 2
    U8 = 12
    Points <- MCPoints
    Radii = {0, 1, 2, 3}
    Sizes = {1, 3, 7}
    Bitmaps <- MCBitmaps
    Texts <- MCTexts
    Font <- MCFont
    Ranges <- MCRanges
    BoxPages = {1}
    Starts <- MCStarts
    MaxCost = 2
INVARIANTS
    TypeOK
    LineIsStraight
    CircleIsRound
PROPERTIES
    ImplementsCanvas
CHECK_DEADLOCK FALSE

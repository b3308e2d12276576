SPECIFICATION Spec
CONSTANTS
    Bytes <- MCBytes
    SIDE_MIN_THRESHOLD = 3000
INVARIANTS
    TypeOK
    SteepestFace
    FlipGivesOppositeFace

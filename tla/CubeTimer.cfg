SPECIFICATION Spec
CONSTANTS
    SIDE_MIN_THRESHOLD = 3000
    MaxTime = 3
    MaxSamples = 4
INVARIANTS
    TypeOK
    ElapsedIsDwell
PROPERTIES
    ElapsedDropsOnChangeOnly

SPECIFICATION Spec
CONSTANTS
    SIDE_MIN_THRESHOLD = 3000
    Poses <- MCTwoPoses
    MaxTurns = 3
    MaxFaults = 0
    MaxTime = 2
INVARIANTS
    DurationIsDwell
CHECK_DEADLOCK FALSE

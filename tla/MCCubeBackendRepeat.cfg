SPECIFICATION Spec
CONSTANTS
    c1 = c1
    c2 = c2
    stranger = stranger
    Cubes <- MCCubes
    Registered <- MCRegistered
    Sides <- MCSides
    NoSide = NoSide
    NoTime = NoTime
    Malformed = Malformed
    MaxEvents = 2
    MaxFaults = 0
    MaxSetBacks = 0
PROPERTIES
    RepeatChangesNothing
CHECK_DEADLOCK FALSE

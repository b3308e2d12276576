SPECIFICATION FairSpec
CONSTANTS
    c1 = c1
    c2 = c2
    stranger = stranger
    Cubes <- MCCubes
    Registered <- MCRegistered
    Sides <- MCSides
    NoSide = NoSide
    NoTime = NoTime
    Malformed = Malformed
    MaxEvents = 4
    MaxFaults = 1
    MaxSetBacks = 1
INVARIANTS
    TypeOK
    OpenIsLastSide
    NoOverlap
    SavedIsAnnounced
PROPERTIES
    HistoryIsKept
    ListensAgain
    ImplementsLog
CHECK_DEADLOCK FALSE

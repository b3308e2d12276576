SPECIFICATION FairSpec
CONSTANTS
    SIDE_MIN_THRESHOLD = 3000
    Poses <- MCThreePoses
    MaxTurns = 2
    MaxFaults = 1
    MaxTime = 1
INVARIANTS
    TypeOK
    AsleepSideIsCurrent
    AttemptsChain
PROPERTIES
    NoSilentChange
    ImplementsReporter
    SleepsAgain
    MotionIsSampled
    SettlesDown
CHECK_DEADLOCK FALSE

SPECIFICATION FairSpec
CONSTANTS
    Requests <- MCQueue
    MaxRequests = 2
    MaxStarts = 1
    MaxFaults = 1
    MaxWire = 2
PROPERTIES
    AtLeastOnce
    StopReturns
CHECK_DEADLOCK FALSE

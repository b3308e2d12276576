SPECIFICATION Spec
CONSTANTS
    Requests <- MCRequests
    MaxRequests = 2
    MaxStarts = 1
    MaxFaults = 1
    MaxWire = 2
INVARIANTS
    TypeOK
    Accounted
    PublishedWasReceived
    AtMostOnce
PROPERTIES
    DupWasTried
    ImplementsDelivery
CHECK_DEADLOCK FALSE

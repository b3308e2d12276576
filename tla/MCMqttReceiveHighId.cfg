SPECIFICATION Spec
CONSTANTS
    Packets <- MCHighId
    in_buffer_length = 8
    MaxSent = 3
INVARIANTS
    PacketsIntact
CHECK_DEADLOCK FALSE

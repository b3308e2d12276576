SPECIFICATION FairSpec
CONSTANTS
    Packets <- MCPackets
    in_buffer_length = 8
    MaxSent = 2
INVARIANTS
    TypeOK
    PacketsIntact
PROPERTIES
    EveryPacketHandled
CHECK_DEADLOCK FALSE

SPECIFICATION Spec
CONSTANTS
    BufferLength <- MCBufferLength
    Login <- MCLogin
    Requests <- MCRequests
    ConnectProperties <- MCConnectProperties
    PublishProperties <- MCPublishProperties
    SubscribeProperties <- MCSubscribeProperties
    UnsubscribeProperties <- MCUnsubscribeProperties
    DisconnectProperties <- MCDisconnectProperties
    Connacks <- MCConnacks
    Publishes <- MCPublishes
    Answers <- MCAnswers
    ReadSizes <- MCReadSizes
    MaxSettings = 1
    MaxCalls = 2
    MaxEvents = 3
    MaxConnects = 2
    MaxOwed = 2
INVARIANTS
    TypeOK
    PacketsSayWhatWasAsked
    ToldWhatWasMeant
    WindowIsHonest
\* When all is answered and the bounds are used up, nobody has anything to say.
CHECK_DEADLOCK FALSE

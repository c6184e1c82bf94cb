SPECIFICATION FairSpec
CONSTANTS
    Modes <- AllModes
    ConnectFrame <- LoginWithoutHeaders
    SendFrames <- SendTwo
    SubscribeFrame <- Subscription
    ConnectedFrame <- Connected
    ErrorFrame <- Error
    MessageFrames <- TwoMessages
    BrokerEnd <- ZeroOnly
    SocketSize = 4
    MaxBreaks = 2
INVARIANTS
    TypeOK
PROPERTIES
    UpIsAChannel
    DownIsAChannel
    FailsOnlyWhenBroken
    ReadReturns
    SentArrives
    MessagesArrive

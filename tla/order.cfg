SPECIFICATION FairSpec
CONSTANTS
    n1 = n1
    n2 = n2
    NoNode = NoNode
    Node <- TwoNodes
    MaxNodeList = 2
    InitialWhitelist <- BothListed
    Message <- OrderMessages
    Source <- OrderSource
    PacketId <- OrderIds
    TotalSize <- OrderSizes
    PayloadSize = 2
    QueueSize = 3
    DataBufferSize = 10
    EndOfTime = 99
    StatusDelay = 0
    NodelistCommands <- NoCommands
    ForwardsMessages = FALSE
    Faults = {"interrupt", "slow_peer"}
    MaxClock = 2
    MaxCommands = 0
    OutCapacity = 1
    MessageFields = 2
INVARIANTS
    RelaysInOrder
    EveryArrivalCounted
PROPERTIES
    Stops
    EverySentRelayed

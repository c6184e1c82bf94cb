SPECIFICATION Spec
CONSTANTS
    n1 = n1
    n2 = n2
    NoNode = NoNode
    Node <- TwoNodes
    MaxNodeList = 2
    InitialWhitelist <- BothListed
    Message <- HoleMessages
    Source <- HoleSource
    PacketId <- HoleIds
    TotalSize <- HoleSizes
    PayloadSize = 2
    QueueSize = 3
    DataBufferSize = 10
    EndOfTime = 99
    StatusDelay = 1
    NodelistCommands <- NoCommands
    ForwardsMessages = FALSE
    Faults = {"loss", "duplicate"}
    MaxClock = 1
    MaxCommands = 0
    OutCapacity = 1
    MessageFields = 2
INVARIANTS
    CompleteMessages

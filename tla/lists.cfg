SPECIFICATION FairSpec
CONSTANTS
    n1 = n1
    n2 = n2
    NoNode = NoNode
    Node <- TwoNodes
    MaxNodeList = 3
    InitialWhitelist <- NoneListed
    Message <- ListMessages
    Source <- ListSource
    PacketId <- ListIds
    TotalSize <- ListSizes
    PayloadSize = 2
    QueueSize = 1
    DataBufferSize = 10
    EndOfTime = 99
    StatusDelay = 1
    NodelistCommands <- ListCommands
    ForwardsMessages = TRUE
    Faults = {"radio_error", "peer_close", "slow_peer"}
    MaxClock = 1
    MaxCommands = 3
    OutCapacity = 1
    MessageFields = 2
INVARIANTS
    ListsCompact
    ComlistDistinct
    RequestedAreListed
PROPERTIES
    Stops

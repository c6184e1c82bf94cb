SPECIFICATION FairSpec
CONSTANTS
    Node <- OneNode
    NoNode = 0
    Message <- Messages
    Source <- Sources
    PacketId <- Ids
    TotalSize <- Sizes
    PayloadSize = 2
    QueueSize = 2
    DataBufferSize = 10
    EndOfTime = 99
    MaxNodeList = 2
    InitialWhitelist <- NoneListed
    StatusDelay = 0
    NodelistCommands <- AddAndClear
    ForwardsMessages = TRUE
    Faults = {"interrupt"}
    MaxClock = 2
    MaxCommands = 0
    MessageFields = 2
    I8Packet <- MessagePackets
    ReportLengths = {4}
    Command <- AddClearAdd
    GatewayId = 9
    NoCmd = "none"
    MaxFields = 2
    StepSize = 1
    MaxAddress = 9
    MaxParts = 1
    MaxSessions = 2
    MaxOutages = 1
    MaxFailures = 1
    IpcCapacity = 1
    DownCapacity = 1
VIEW Relevant
CHECK_DEADLOCK FALSE
INVARIANTS
    ListsReachWhitelist
    NothingWithoutList
PROPERTIES
    PublishesLossily
    PassedIsPublished
    LoopsTurn

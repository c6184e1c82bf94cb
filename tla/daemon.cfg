SPECIFICATION FairSpec
CONSTANTS
    NoCmd = "none"
    I8Packet <- ListAndMessage
    ReportLengths = {1}
    Command <- MessagesAndList
    Gateway = 9
    MaxFields = 2
    StepSize = 2
    MaxAddress = 1
    MaxParts = 2
    MaxSessions = 2
    MaxOutages = 1
    IpcCapacity = 1
INVARIANTS
    TypeOK
    PacketsAccounted
    CommandsAccounted
PROPERTIES
    SessionsSeparate
    PublishesInOrder
    ForwardsInOrder
    Stops
    WaitingIsServed

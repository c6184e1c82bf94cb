SPECIFICATION Spec
CONSTANTS
    NoCmd = "none"
    I8Packet <- LongMessage
    ReportLengths = {1}
    Command <- NoCommands
    Gateway = 9
    MaxFields = 2
    StepSize = 2
    MaxAddress = 1
    MaxParts = 2
    MaxSessions = 2
    MaxOutages = 0
    IpcCapacity = 1
INVARIANTS
    ReportsIntact

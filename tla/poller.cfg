SPECIFICATION FairSpec
CONSTANTS
    f1 = f1
    f2 = f2
    File <- TwoFiles
    Text <- Texts
    Unencodable <- NotAscii
    MaxVersion = 3
    MaxRemovals = 2
CHECK_DEADLOCK FALSE
INVARIANTS
    TypeOK
    RememberedIsStored
PROPERTIES
    MirrorsDirectory
    CatchesUp

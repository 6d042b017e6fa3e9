SPECIFICATION FairSpec
CONSTANTS
    Entries = 2
    Password = pw
    BufSize = 4
    UpBytes = 3
    DownChunks = 2
    SniLen = 3
INVARIANTS
    RelayInv
PROPERTIES
    EndAfterData
    Served
CHECK_DEADLOCK FALSE

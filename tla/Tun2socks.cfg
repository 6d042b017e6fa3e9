SPECIFICATION FairSpec
CONSTANTS
    Wnd = 2
    SndBuf = 2
    RecvBuf = 2
    UpBytes = 3
    DownBytes = 5
INVARIANTS
    ClientInv
    BytesConserved
PROPERTIES
    Drains
CHECK_DEADLOCK FALSE

SPECIFICATION StreamsSpec
CONSTANTS
    Entries = 2
    Password = pw
    OtherPassword = pw2
    Streams = {s1, s2}
    OwnSalts = {o1, o2, o3}
    PeerSalts = {a, b}
    CHUNK_SIZE_MASK = 2
    MaxBytes = 3
SYMMETRY Symmetry
INVARIANTS
    FilterInv
    StreamInv
PROPERTIES
    NoReplayAccepted
CHECK_DEADLOCK FALSE

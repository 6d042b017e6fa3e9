SPECIFICATION Spec
CONSTANTS
    Entries = 2
    Password = pw
    Clients = {c1, c2, c3}
    MAX_UDP_CONN_NUM = 3
    Timeout = 2
    MaxPackets = 4
    MaxAnswers = 2
SYMMETRY Symmetry
INVARIANTS
    CacheInv
PROPERTIES
    AnswersDelivered
    OnlyIdleTimesOut
CHECK_DEADLOCK FALSE

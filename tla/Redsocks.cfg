\* A connection that carries data and one that does not, at a limit of two.
CONSTANTS
    Clients = {c1, c2}
    ConnMax = 2
    Talkers = {c1}
    ClientBytes = 2
    RelayBytes = 1
SPECIFICATION FairSpec
INVARIANTS
    PumpInv
PROPERTIES
    Accepting
    Relayed
CHECK_DEADLOCK FALSE

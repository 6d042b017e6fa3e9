\* One activity that comes and goes, a service that ends and comes back.
CONSTANTS
    Clients = {c1}
    MaxInstances = 1
    MaxChanges = 1
    MaxTurns = 2
SPECIFICATION FairSpec
INVARIANTS
    ChecksHold
    RegistrationsAgree
    ShowsTheState
PROPERTIES
    Reconnects
CHECK_DEADLOCK FALSE

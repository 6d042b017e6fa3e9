\* Two listeners and one request while the default network changes.
CONSTANTS
    Networks = {wifi, mobile}
    Keys = {vpn, other}
    Requests = {r1}
    None = None
    MaxEvents = 3
SPECIFICATION ListenerFairSpec
INVARIANTS
    ActorInv
PROPERTIES
    GetIsAnswered

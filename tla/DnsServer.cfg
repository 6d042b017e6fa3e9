\* Two packets of any kind, forwarded by TCP, on Android 7 and later.
CONSTANTS
    Queries = {q1, q2}
    Kinds = {"garbage", "forward", "hosts", "ask"}
    Server = Server
    Nobody = Nobody
    Api = 24
    Tcp = TRUE
    SendMayBlock = TRUE
SYMMETRY Symmetry
SPECIFICATION Spec
INVARIANTS
    ServerInv
    OneBytePerRegistration
    ServfailIsLastResort
CHECK_DEADLOCK FALSE

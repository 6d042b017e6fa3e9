\* Two packets, forwarded by UDP, replies that may have to wait, on Android 6.
CONSTANTS
    Queries = {q1, q2}
    Kinds = {"garbage", "forward", "hosts"}
    Server = Server
    Nobody = Nobody
    Api = 23
    Tcp = FALSE
    SendMayBlock = TRUE
SPECIFICATION FairSpec
PROPERTIES
    ShutdownCompletes
    QueriesServed
CHECK_DEADLOCK FALSE

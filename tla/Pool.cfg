\* API 26 and later: a daemon that survives SIGTERM, one with a restart
\* callback, and timeouts that may beat an exit code.
CONSTANTS
    Guards = {"sslocal", "tun2socks"}
    Callbacks = {"tun2socks"}
    LateTimeout = TRUE
    Stubborn = {"sslocal"}
    Api = "from26"
    MaxFatals = 2
SPECIFICATION FairSpec
INVARIANTS
    EndedIsReaped
    EveryWaitIsAnswered
PROPERTIES
    CloseCompletes
    ImplementsProcessPool
CHECK_DEADLOCK FALSE

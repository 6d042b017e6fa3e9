\* VpnService: start commands, reloads, losses of daemons and crashes.
CONSTANTS
    Guards = {"redsocks", "sslocal", "ssudp", "tun2socks"}
    Callbacks = {"tun2socks"}
    LateTimeout = TRUE
    Mode = "vpn"
    MaxStarts = 1
    MaxFatals = 2
    MaxCrashes = 1
SPECIFICATION FairSpec
INVARIANTS
    StoppedIsClean
    ConnectedIsWatched
    NoOrphanBesidePool
PROPERTIES
    ImplementsContract
    StopCompletes
    LostDaemonStops
    ReloadStartsAgain

\* Sessions before and after the unlock, reboots, restarts of ss-local and
\* ACTION_SHUTDOWN, for profiles with and without a UDP fallback.
CONSTANTS
    MaxBytes = 2
    MaxSessions = 3
    MaxRestarts = 1
    MaxShutdowns = 1
    MaxReboots = 2
SPECIFICATION TrafficFairSpec
INVARIANTS
    TotalsInv
    ShownIsCurrent
PROPERTIES
    UnlockRestores
CHECK_DEADLOCK FALSE

SPECIFICATION FairSpec
CONSTANTS
    Bridges = {b1, b2}
    Devs = {d1}
    Named = {b1, d1}
    Null = null
CHECK_DEADLOCK FALSE
INVARIANTS
    TypeOK
    PendingIsSafe
    PortsWatched
    UnloadLeavesNothing
    LifeCrashCauses
PROPERTIES
    DevicesAreFreed
    UnloadEnds

SPECIFICATION FairSpec
CONSTANTS
    Cpus = {c1}
    Stations = {s1, s2}
    Ports = {host, p1}
    HostPort = host
    Nodes = {n1}
    Null = null

CHECK_DEADLOCK FALSE
INVARIANTS
    HintsWereSeen
PROPERTIES
    SilentIsForgotten
    DellinkCompletes

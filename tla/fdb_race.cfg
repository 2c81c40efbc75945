SPECIFICATION Spec
CONSTANTS
    Cpus = {c1, c2}
    Stations = {s1}
    Ports = {host, p1, p2}
    HostPort = host
    Nodes = {n1, n2}
    Null = null
SYMMETRY SymFdb
CHECK_DEADLOCK FALSE
PROPERTIES
    ImplementsTable
INVARIANTS
    TypeOK
    OneNodePerStation
    NodeOutlivesFrame
    NoBlackHole
    QuietWhenDestroyed

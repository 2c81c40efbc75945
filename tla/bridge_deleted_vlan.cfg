SPECIFICATION Spec
CONSTANTS
    Devs = {d1}
    Bridge = br
    Null = null
    MaxPorts = 2
    Vids = {1}
    Managed = {d1}
SYMMETRY SymDevs
CHECK_DEADLOCK FALSE
INVARIANTS
    MissingVlanIsNull

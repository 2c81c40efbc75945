SPECIFICATION Spec
CONSTANTS
    Devs = {d1, d2}
    Bridge = br
    Null = null
    MaxPorts = 2
    Vids = {1}
    Managed = {d1, br}
SYMMETRY SymDevs
CHECK_DEADLOCK FALSE
INVARIANTS
    TypeOK
    SlotsClean
    PortVlanCoherent
    CrashCauses
PROPERTIES
    TaggedOrdering

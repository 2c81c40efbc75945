SPECIFICATION Spec
CONSTANTS
    Devs = {d1, d2, d3}
    Bridge = br
    Null = null
    MaxPorts = 3
    Vids = {}
    Managed = {d1, br}
SYMMETRY SymDevs
CHECK_DEADLOCK FALSE
INVARIANTS
    SlotExclusive
    AllOrNothing
    GoneReleasesDevices

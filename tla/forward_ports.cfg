SPECIFICATION ForwardSpec
CONSTANTS
    Devs = {d1, d2}
    Bridge = br
    Null = null
    MaxPorts = 3
    Vids = {}
    Managed = {}
    Cpus = {c1, c2}
    Tags = {0}
CHECK_DEADLOCK FALSE
SYMMETRY SymForward
PROPERTIES
    ImplementsSwitch
INVARIANTS
    NoReflection
    ReceivingSlotHeld

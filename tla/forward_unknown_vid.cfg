SPECIFICATION ForwardSpec
CONSTANTS
    Devs = {d1}
    Bridge = br
    Null = null
    MaxPorts = 2
    Vids = {1}
    Managed = {d1}
    Cpus = {c1}
    Tags = {0, 1}
CHECK_DEADLOCK FALSE
INVARIANTS
    VidKnownToFdb

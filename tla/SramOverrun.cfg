SPECIFICATION Spec
CONSTANTS
    NSlots = 2
    MTU = 10
    Depth = 2
    AddrSize = 2
    MaxBeats = 4
    LastBytes = {2, 4}
    MaxErrors = 1
    Ids = 4
INVARIANTS
    Intact

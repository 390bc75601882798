SPECIFICATION Spec
CONSTANTS
    Modes = {"master"}
    Hosts = {hostA, hostB}
    Kinds <- MCMixedKinds
    FifoDepth = 4
    ParamDepth = 1
    ProbeWords = 2
    Ids = 3
PROPERTIES
    ServesRecords

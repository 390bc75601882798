SPECIFICATION FairSpec
CONSTANTS
    Modes = {"master", "slave"}
    Hosts = {hostA, hostB}
    Kinds <- MCKinds
    FifoDepth = 3
    ParamDepth = 1
    ProbeWords = 2
    Ids = 2
INVARIANTS
    TypeOK
    AddressedToAsker
PROPERTIES
    ServesRecords
    ReadReturnsAnswer
    EveryPacketServed

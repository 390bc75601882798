SPECIFICATION FairSpec
CONSTANTS
    PreambleLength = 2
    MinLength = 3
    CrcLength = 2
    NSlots = 2
    WordBytes = 2
    LengthRange = 8
    CountRange = 8
    CpuSizes = {2, 3}
    HwSizes = {3}
    Depth = 1
    GapLength = 1
    Tags = 2
INVARIANTS TypeOK SlotsAccounted StampOfItsFrame
PROPERTIES SendsFrames EveryFrameSent

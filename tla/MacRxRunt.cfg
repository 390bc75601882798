SPECIFICATION Spec
CONSTANTS
    PreambleLength = 2
    MinLength = 2
    CrcLength = 2
    Frames <- MCFrames
    Bursts <- MCBurstsRunt
    MaxStalls = 0
INVARIANTS GoodWhenCrcOk

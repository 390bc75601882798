SPECIFICATION Spec
CONSTANTS
    PreambleLength = 2
    MinLength = 2
    CrcLength = 2
    Frames <- MCFrames
    Bursts <- MCBursts
    MaxStalls = 3
INVARIANTS TypeOK CleanFramesWereSent EveryBurstJudged

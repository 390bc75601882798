SPECIFICATION Spec
CONSTANTS
  Bytes = {1, 2, 3}
  Reload100 = 1
  Reload10 = 2
  Abilities <- MCAbilities
  Transceivers = {"gtp", "gth"}
  CheckPeriod = 14
  MoreAckTime = 16
  CrossTime = 3
  CdrLockTime = 3
  LinkTime = 26
  Faults = {"restart", "cut", "deaf"}
  MaxFaults = 1
  CutTime = 20
  FrameSize = 3
  PinKinds = {"mii", "rmii", "gmii", "gmii_mii", "model", "s7rgmii", "usrgmii", "ecp5rgmii", "s6rgmii", "altera_rgmii", "gearbox"}
  FrameBytes = 3
  MinGap = 9
  WireDelay = 3
  HwResetCycles = 4
  TickCycles = 4
  MiiRatio = 5
  MaxSpeedChanges = 2
INVARIANTS TypeOK BytesAsSent CommaOnEven NoHalfUp DrpRestored FramesIntact ModeFollowsClock
PROPERTIES LinkStaysUp

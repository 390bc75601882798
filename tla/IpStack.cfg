SPECIFICATION Spec
CONSTANTS
  Scripts <- MCScripts
  Partner = "a"
  Target = "a"
  MacFifoDepth = 2
  RxFifoDepth = 1
  ChecksumCycles = 1
  EchoDepth = 3
  ParamDepth = 1
  TxFifoDepth = 2
  SendLevel = 1
  ResolveTime = 4
  MaxWritten = 2
INVARIANTS TypeOK DeliveredIntact CpuCopies EchoAnswers StreamInOrder
PROPERTIES AllServed

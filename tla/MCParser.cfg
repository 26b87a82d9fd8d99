SPECIFICATION Spec
CONSTANTS
  Header <- MCHeader
  Radix = 2
  LF = 10
  Byte = {0, 1, 10, 100}
  UsizeMax = 2
  MaxBytes = 10
  MaxBatch = 4
  MaxPackets = 2
INVARIANTS TypeOK PacketsAreFrames GrammarDecides FirstFrameAndRest
CHECK_DEADLOCK FALSE

SPECIFICATION Spec
CONSTANTS
  Headers <- MCHeaders
  Radix = 2
  LF = 10
  Byte = {0, 1, 10, 100, 101}
  UsizeMax = 3
  Bodies <- MCBodies
  Window = 4
  Cancellable = {"master"}
  Leaving = {"master"}
  Mortal = {"master", "worker"}
INVARIANTS TypeOK
PROPERTIES LinkSpec PacketsArrive EndsSpread CancelEnds
CHECK_DEADLOCK FALSE

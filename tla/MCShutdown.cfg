SPECIFICATION FairSpec
CONSTANTS
  Loads = {l1}
  Generates = {g1}
  Empties = {e1}
  Undecodables = {}
  InCap = 1
  OutCap = 1
  Threads = 2
  Capacity = 2
  None = none
INVARIANTS NothingLostWhileUp
PROPERTIES EveryCommandAnswered LockComesFree WorkerStops
CHECK_DEADLOCK FALSE

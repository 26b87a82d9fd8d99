SPECIFICATION Spec
CONSTANTS
  Loads = {l1, l2}
  Generates = {g1}
  Empties = {}
  Undecodables = {u1}
  InCap = 1
  OutCap = 1
  Threads = 2
  Capacity = 20
  None = none
SYMMETRY CommandSymmetry
INVARIANTS TypeOK NothingLostOrDoubled LoadAnsweredFirst LoadedOnce
PROPERTIES ServiceSpec
CHECK_DEADLOCK FALSE

SPECIFICATION ClusterSpec
CONSTANTS
  Addrs = {1}
  Requests = {r1, r2}
  Impatient = {}
  Loader = loader
  Ids = {i1, i2}
  Capacity = 20
  Faulty = {}
  None = none
SYMMETRY RequestSymmetry
INVARIANTS AnswersMatch AwaitedReply RefusedForAReason
PROPERTIES BusyForAReason
CHECK_DEADLOCK FALSE

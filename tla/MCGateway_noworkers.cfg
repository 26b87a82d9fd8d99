SPECIFICATION Spec
CONSTANTS
  Addrs = {1}
  Requests = {r1}
  Impatient = {}
  Loader = loader
  Ids = {i1}
  Capacity = 20
  Faulty = {}
  None = none
PROPERTIES NoWorkersErrorIsTrue
CHECK_DEADLOCK FALSE

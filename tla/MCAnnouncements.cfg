SPECIFICATION OneRegisteredSpec
CONSTANTS
  Addrs = {1, 2}
  Requests = {r1}
  Impatient = {r1}
  Loader = loader
  Ids = {i1}
  Capacity = 3
  Faulty = {1}
  None = none
INVARIANTS TypeOK LoadBeforeGenerate RegisteredIsAnnounced
PROPERTIES RequestsReturn WatcherReturns
CHECK_DEADLOCK FALSE

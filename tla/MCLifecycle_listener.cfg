SPECIFICATION FairSpec
CONSTANTS
  Addrs = {1}
  Requests = {r1}
  Loader = loader
  Faulty = {}
  None = none
PROPERTIES TcpFailureReported
CHECK_DEADLOCK FALSE

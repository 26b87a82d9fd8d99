SPECIFICATION FairSpec
CONSTANTS
  Addrs = {1, 2}
  Requests = {r1, r2}
  Loader = loader
  Faulty = {1}
  None = none
INVARIANTS TypeOK NothingAborted
PROPERTIES ShutdownEnds CancelledClosesAll HttpFailureReported
CHECK_DEADLOCK FALSE

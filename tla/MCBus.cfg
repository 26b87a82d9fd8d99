SPECIFICATION FairSpec
CONSTANTS
  Receivers = {r1, r2}
  Events = {e1}
  Capacity = 2
  MaxEvents = 4
INVARIANTS TypeOK InOrder NoLossWithinCapacity
PROPERTIES CaughtUp

SPECIFICATION Spec
CONSTANTS
  Clients = {c1, c2}
  Global = global
  Capacity <- SmallCapacity
  Period <- SmallPeriod
  EvictAfter = 2
  MaxTime = 5
  MaxStarts = 2
SYMMETRY Symmetry
INVARIANTS
  GlobalRateBounded
  RetryAfterIsEnough
CHECK_DEADLOCK FALSE

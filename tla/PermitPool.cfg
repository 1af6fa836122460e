SPECIFICATION PoolSpec
CONSTANTS
  Calls = {c1, c2, c3, c4}
  Maximum = 2
  MaxSemaphores = 3
INVARIANTS
  PermitsConserved
  OnlyASweepBreaksTheLimit
CHECK_DEADLOCK FALSE

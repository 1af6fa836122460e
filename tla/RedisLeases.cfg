SPECIFICATION Spec
CONSTANTS
  Calls = {c1, c2, c3}
  Maximum = 1
  Ttl = 3
  MaxMissed = 1
  MaxTime = 6
SYMMETRY Symmetry
INVARIANTS
  HoldersWithinMaximum
  ReleasedStaysReleased
  OrphansExpire
CHECK_DEADLOCK FALSE

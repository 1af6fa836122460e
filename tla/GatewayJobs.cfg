SPECIFICATION FairSpec
CONSTANTS
  Jobs = {j1, j2, j3}
  MaxLive = 1
  Keep = 2
  MaxSequence = 3
INVARIANTS
  SlotsConserved
  FinishedOnce
PROPERTIES
  ImplementsLifecycle
  EveryRunEnds
CHECK_DEADLOCK FALSE

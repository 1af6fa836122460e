SPECIFICATION FairSpec
CONSTANTS
  Jobs = {j1, j2}
  Keep = 1
  MaxEvents = 1
  MaxCrashes = 1
  MaxFailures = 1
INVARIANTS
  StoredLogHasNoHole
  FinishedRowHasWholeLog
  ReturnedMeansStored
PROPERTIES
  EveryRequestReturns
CHECK_DEADLOCK FALSE

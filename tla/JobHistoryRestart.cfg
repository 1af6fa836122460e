SPECIFICATION Spec
CONSTANTS
  Jobs = {j1, j2}
  Keep = 1
  MaxEvents = 1
  MaxCrashes = 1
  MaxFailures = 0
INVARIANT RehydratedJobsAreFinished
CHECK_DEADLOCK FALSE

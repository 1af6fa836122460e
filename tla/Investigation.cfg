SPECIFICATION FairSpec
CONSTANTS
  aws = aws
  azure = azure
  Providers = {aws, azure}
  Remote = {aws, azure}
  Candidates <- TwoAndOne
  Attempts = 2
  MaxCalls = 4
  MaxPermits = 1
  Model <- SameModel
INVARIANTS
  PermitsReturned
  OneFindingPerCandidate
  ModeIsHonest
PROPERTIES
  NothingRecordedIsLost
  EveryInvestigationSettles
CHECK_DEADLOCK FALSE

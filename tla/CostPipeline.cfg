SPECIFICATION Spec
CONSTANTS
  None = None
  t1 = t1
  t2 = t2
  ActorNames <- MCActorNames
  BareName <- MCBareName
  Hits <- MCHits
  ScopedIds <- MCScopedIds
  Inputs <- MCInputs
  Claims <- MCClaims
  MaxFindings = 2
  ReviewAge = 5
  GroupLimit = 1
  HoursPerDay = 2
  MaxRows = 4
  Alphabet <- MCAlphabet
  Callers <- MCCallers
  Asked <- MCAsked
  Ttl = 1
  MaxEntries = 2
  MaxAttempts = 2
  MaxPages = 2
  PageSize = 1
  MaxDays = 4
  Horizon = 1
  FirstToday = 4
  LastToday = 5
  Requests <- MCRequests
  Uploads <- MCUploads
  Ledgers <- MCLedgers
  PlaybooksOf <- MCPlaybooksOf
SYMMETRY Tools
INVARIANTS
  CandidatesNeverDoubleCount
  EveryDimensionCountsTheSameMoney
  SharesHaveWitnesses
  RulesAreInForce
  RuleFindingsSurviveValidation
  ScoreStaysBelowCeiling
  PublishedFindingsAreSupported
  AggregationChangesNoAnswer
  OneFetchPerWindow
  MissingUsageIsNotCertain
PROPERTIES
  AnswersAreWhole
CHECK_DEADLOCK FALSE

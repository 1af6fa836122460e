SPECIFICATION PageSpec
CONSTANTS
  Readers = {tab}
  MaxEvents = 3
  MaxCases = 2
  Slots = {cost, metrics}
  CostSlots = {cost}
  MaxUploads = 3
  MaxDatasets = 2
  MaxDeletes = 2
  Sessions <- MCSessions
INVARIANTS
  ShowsOneCase
  CompletedCaseIsWhole
  CooldownCoversRetryAfter
  PanelMatchesStore
PROPERTIES
  EveryStreamCloses
  BusyEnds
CHECK_DEADLOCK FALSE

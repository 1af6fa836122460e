SPECIFICATION StoreSpec
CONSTANTS
  Datasets = {d1, d2}
  Clients = {c1, c2}
  CostSlots = {awsCost, azureCost}
  OtherSlots = {awsMetrics}
  Currencies = {usd, eur}
  Versions = {v1}
  MaxSources = 2
  MaxRecords = 2
  MaxBytes = 3
  None = None
SYMMETRY Symmetry
INVARIANTS
  ReadersAgree
  AcceptedSourcesKept
  SealedIsRunnable
CHECK_DEADLOCK FALSE

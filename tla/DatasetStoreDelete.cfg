SPECIFICATION StoreSpec
CONSTANTS
  Datasets = {d1}
  Clients = {c1, c2}
  CostSlots = {awsCost, azureCost}
  OtherSlots = {awsMetrics}
  Currencies = {usd, eur}
  Versions = {v1}
  MaxSources = 2
  MaxRecords = 2
  MaxBytes = 3
  None = None
INVARIANT DeletedStaysDeleted
CHECK_DEADLOCK FALSE

SPECIFICATION FairGoroutines
CONSTANTS
  Nodes = {1}
  MaxChanges = 0
  MaxIssued = 1
  MaxOutages = 1
  MaxEvents = 2
PROPERTY PeriodicSyncEnsures
CHECK_DEADLOCK FALSE

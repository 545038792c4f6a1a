SPECIFICATION FairSpec
CONSTANTS
  Nodes = {1, 2}
  MaxChanges = 2
  MaxIssued = 2
  MaxOutages = 1
  MaxEvents = 3
PROPERTIES
  LeaderAgreement
  SettledFlagSyncs
  PutReturns
CHECK_DEADLOCK FALSE

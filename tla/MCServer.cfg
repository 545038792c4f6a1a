SPECIFICATION FairSpec
CONSTANTS
  Requests = {r1, r2}
  Routes = {"deliver", "lmtp"}
  NoRoute = NoRoute
  MaxConcurrent = 1
  ReadTimeout = 2
  WriteTimeout = 3
  MaxTotal = 1
  Margin = 2
  MaxEdits = 2
INVARIANTS
  SlotsMatchRequests
  
  ConfigsAgree
PROPERTIES
  SighupApplies
CHECK_DEADLOCK FALSE

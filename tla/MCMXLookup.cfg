SPECIFICATION FairSpec
CONSTANTS
  Lookups = {l1, l2}
  None = None
INVARIANTS
  OneQueryInFlight
  OutcomeIsGenuine
  KeyHasLeader
PROPERTIES
  GoroutinesEnd
  LookupReturns
CHECK_DEADLOCK FALSE

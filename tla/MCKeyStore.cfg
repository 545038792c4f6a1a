SPECIFICATION Spec
CONSTANTS
  d3 = d3
  s1 = s1
  Lookups = {l1, l2}
  Domains = {d1, d2, d3}
  Selectors = {s1}
  NoSelector = NoSelector
  Keys = {"k1"}
  Broken = {"missing"}
  Maps <- MCMaps
  Configs <- MCConfigs
  InitialDisks <- MCInitialDisks
  CacheSize = 2
  PositiveTTL = 2
  NegativeTTL = 1
  MapCheck = 1
  MaxEdits = 2
SYMMETRY Symmetry
INVARIANTS
  StaleKeyBound
  NoEditMissed
  SignaturesFit
  

SPECIFICATION Spec
CONSTANTS
  Workers = {w1, w2, w3}
  None = None
  Thresholds = {1, 3}
  Window = 2
  Retry = 2
  CleanupAfter = 3
  CounterWidth = 4
  MaxPeers = 3
SYMMETRY Symmetry
INVARIANTS
  SuccessRestores
  OneCulprit
  EveryPeerGetsItsTurn
PROPERTY WeakSignalsCorroborated

SPECIFICATION Spec
CONSTANTS
  Senders = {s1, s2, s3}
  None = None
  RequestsPerIP = 2
  Window = 2
  Interval = 2
  Burst = 2
  Cutoff = 4
SYMMETRY Symmetry
INVARIANTS
  InboundWindowBound
  DomainBurstBound

SPECIFICATION FairSpec
CONSTANTS
  Keys = {k1}
  Conns = {c1, c2}
  Workers = {w1, w2}
  None = None
  MaxIdle = 1
  TTL = 1
INVARIANTS
  ExclusiveOwner
  IdleIsOpen
  NoLeak
  IdleBound
  StoppedPoolIsEmpty
PROPERTIES
  IdleLeavesPool
  StopCompletes
CHECK_DEADLOCK FALSE

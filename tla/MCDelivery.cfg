SPECIFICATION FairSpec
CONSTANTS
  Configs <- AllConfigs
  MaxMX = 2
  MaxSources = 2
  CmdReplies <- StandardCmdReplies
  FinalReplies <- StandardFinalReplies
  SRSDomains <- TwoSRSDomains
  MaxAge = 21
  Separated = {"a", "b"}
INVARIANTS
  AtMostOneCopy
  DeliveredMeansAccepted
  FailureMeansRefused
  NoConnectionAbandoned
  BouncesReturn
PROPERTIES
  PooledStaysOpen
  Returns
  RefinesDeliverySpec
CHECK_DEADLOCK FALSE

SPECIFICATION Spec
CONSTANTS
  Configs <- DefaultConfig
  MaxMX = 2
  MaxSources = 2
  CmdReplies <- StandardCmdReplies
  FinalReplies <- AnyFinalReplies
  SRSDomains <- TwoSRSDomains
  MaxAge = 21
  Separated = {"a", "b"}
INVARIANT AtMostOneCopy
CHECK_DEADLOCK FALSE

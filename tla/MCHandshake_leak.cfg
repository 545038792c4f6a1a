SPECIFICATION Spec
CONSTANTS
  Transports = {"lmtp", "lmtps", "smtps", "starttls"}
INVARIANTS
  NoConnectionLeft
CHECK_DEADLOCK FALSE

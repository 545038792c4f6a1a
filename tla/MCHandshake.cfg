SPECIFICATION FairSpec
CONSTANTS
  Transports = {"lmtp", "lmtps", "smtps", "starttls"}
INVARIANTS
  ReturnedIsOpen
  FirstClosedOnFailure
PROPERTIES
  HandshakeEnds
CHECK_DEADLOCK FALSE

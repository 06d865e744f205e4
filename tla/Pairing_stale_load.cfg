CONSTANTS
  MaxSess = 2
  MaxOps = 3
  MaxQueue = 2
  PeerIsNx = FALSE
  PeerClock = {"ok"}
  Certs = {TRUE}
SPECIFICATION Spec
INVARIANTS UnpairSticks
CHECK_DEADLOCK FALSE

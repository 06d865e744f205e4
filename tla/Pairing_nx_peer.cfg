CONSTANTS
  MaxSess = 1
  MaxOps = 2
  MaxQueue = 2
  PeerIsNx = TRUE
  PeerClock = {"ok"}
  Certs = {TRUE}
SPECIFICATION SerialSpec
INVARIANTS PairingAgrees
CHECK_DEADLOCK FALSE

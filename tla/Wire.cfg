CONSTANTS
  MaxLines = 2
  MaxPacket = 2
  MaxRecord = 3
  MaxQueued = 2
  Node = {a, b}
  Conn = {c1, c2}
  NoConn = NoConn
  MaxLosses = 1
  MaxCrashes = 1
  Device = {d1, d2}
  Transfer = {u1, u2}
  Nobody = Nobody
  Ports = 1
  Size = 2
  Chunk = 2
  Room = 2
  MaxMoves = 1
  Pings = 1
  MaxReads = 2
  MaxBlocks = 2
  LogConn = {g1, g2}
  NoLogConn = NoLogConn
  MaxBytes = 2
SPECIFICATION WireSpec
CHECK_DEADLOCK FALSE
INVARIANTS WireIsWhole
PROPERTIES WireMoves

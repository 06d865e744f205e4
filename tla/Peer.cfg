CONSTANTS
  MaxSess = 3
  MaxOps = 6
  MaxQueue = 3
  PeerIsNx = FALSE
  PeerClock = {"ok"}
  Certs = {TRUE}
  Player = {p1, p2}
  NoPlayer = NoPlayer
  MaxSeeks = 1
  MaxInbox = 1
  Phone = {p1, p2}
  Level = {0, 1, 2}
  AtStart = 1
  MaxTurnings = 4
  Full = 2
  MaxVolume = 3
  MaxMoves = 4
  Id = {n1, n2}
  NoId = NoId
  MaxPosted = 1
  MaxHashes = 1
  MaxTime = 2
  MaxPackets = 3
  Charge = {0, 1}
  Low = 0
  MaxTurns = 3
  Harmless = {off}
  Power = {reboot}
  MaxSteps = 4
  Hash = {"h1", "h2"}
  Side = {1, 2, 3, 4, 5}
  Dim = 3
  Wide = 4
  High = 2
  MaxPolls = 3
  Body = {x, y, z}
  Doc = {d1, d2, d3, d4}
  NoDoc = NoDoc
  Scalar = {"s"}
  Capacity = 24
  TableSize = 5
  MaxRefs = 16
  MaxLabels = 8
  Qualified = FALSE
  MaxDatagrams = 2
  Known = {a, b}
  Places = 3
  MaxEvents = 3
  Key = {k1, k2}
  Entries = 1
  MaxNews = 3
SPECIFICATION PhonesSpec
CHECK_DEADLOCK FALSE
INVARIANTS MutualConsent PairedIsStored UnpairSticks PairingAgrees PeerIsSound ScreensAreTrue PhonesAreTold

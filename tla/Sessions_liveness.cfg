CONSTANTS
  Conn = {c1, c2}
  Id = {d1}
  IdOf <- OneDevice
  Upload = {}
  ThreadsFail = FALSE
  MemoryFails = FALSE
  NoConn = NoConn
  NoUpload = NoUpload
SPECIFICATION FairSpec
INVARIANTS ConnectedIsServed
PROPERTIES StopTerminates DisconnectedIsReleased SessionAnnounced RestartCompletes

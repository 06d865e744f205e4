CONSTANTS
  Conn = {c1, c2}
  Id = {d1}
  IdOf <- OneDevice
  Upload = {u1}
  ThreadsFail = FALSE
  MemoryFails = FALSE
  NoConn = NoConn
  NoUpload = NoUpload
SPECIFICATION FairSpec
PROPERTIES StopTerminates
CHECK_DEADLOCK FALSE

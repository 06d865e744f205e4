CONSTANTS
  Conn = {c1}
  Id = {d1}
  IdOf <- OneDevice
  Upload = {}
  ThreadsFail = FALSE
  MemoryFails = FALSE
  NoConn = NoConn
  NoUpload = NoUpload
SPECIFICATION ProgramSpec
PROPERTIES StopTerminates

CONSTANTS
  Conn = {c1, c2}
  Id = {d1}
  IdOf <- OneDevice
  Upload = {u1}
  ThreadsFail = TRUE
  MemoryFails = TRUE
  NoConn = NoConn
  NoUpload = NoUpload
SYMMETRY ConnSymmetry
SPECIFICATION Spec
INVARIANTS NoOrphan OneRetirer TlsExclusive QuiescentAfterStop
PROPERTIES SessionLifecycle NoResurrection
CHECK_DEADLOCK FALSE

CONSTANTS
  MaxIdent = 5
  ReadsFail = FALSE
  Key = {volume, power}
  Value = {0, 1, 2}
  Step = {0, 1}
  Unset = Unset
  Sess = {s1, s2, s3}
  NoSess = NoSess
  MaxSessions = 2
  MaxOther = 3
  Worker = {t1, t2}
  Ptr = {p1, p2}
  BufSize = 2
  MaxAllocs = 2
  Points = 2
  Columns = 3
  MaxCache = 2
  MaxMsg = 5
  MaxConnects = 1
  MaxFails = 2
  User = {u1, u2}
  MaxKeys = 2
  MaxTurns = 4
  MaxShot = 4
  Polls = 2
  MaxRequests = 5
  Cert = {c1, c2}
  Lengths = {2, 3, 4}
  Chunk = 2
  NoRecord = NoRecord
SPECIFICATION HostSpec
CHECK_DEADLOCK FALSE
INVARIANTS IdentityLasting TypesOK FilesHold TableIsOpen TraceReplays  KeyboardIsBack SentIsNew AwakeIsKnown
PROPERTIES IpcAnswers LogArrives MonitorReturns

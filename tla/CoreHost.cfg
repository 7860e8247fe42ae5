SPECIFICATION LiveSpec
CONSTANTS
  Stdio = Stdio  Quic = Quic  None = None
  MaxCalls = 3
  MaxFaults = 1
  Intervals = {4, 5, 30}
  MinInterval = 5
  DefaultInterval = 30
  QrSessions = {q1, q2}
  Screens = {web1}
  Procs = {p1, p2, p3}
CHECK_DEADLOCK FALSE
INVARIANTS
  TypeOK
  ConfigSettles
  ServersAreOwned
PROPERTIES
  EnabledIsChecked
  QrStaysOver
  StoppedMeansGone
  CallsEnd

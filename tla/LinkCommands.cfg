SPECIFICATION FairSpec
CONSTANTS
  d1 = d1  d2 = d2
  c1 = c1  c2 = c2  c3 = c3
  k1 = k1  k2 = k2
  i1 = i1
  Devices = {d1}
  Conns = {c1, c2}
  Calls = {k1, k2}
  RequestIds = {i1}
  IdOf <- IdShared
  Strays = {c1, c2}
  Lists = {TRUE}
  Claims <- ClaimsStranger
  Blank = Blank
  Stray = Stray
  NoDevice = NoDevice
  NoConn = NoConn
  NoCall = NoCall
INVARIANTS
  PendingHasWaiter
  NoAnswerLost
PROPERTIES
  KeepsPromise
  CallsSettle
CHECK_DEADLOCK FALSE

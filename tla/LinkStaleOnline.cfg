SPECIFICATION Spec
CONSTANTS
  d1 = d1  d2 = d2
  c1 = c1  c2 = c2  c3 = c3
  k1 = k1  k2 = k2
  i1 = i1
  Devices = {d1, d2}
  Conns = {c1, c3}
  Calls = {}
  RequestIds = {i1}
  IdOf <- IdShared
  Strays = {}
  Lists = {TRUE, FALSE}
  Claims <- ClaimsHonest
  Blank = Blank
  Stray = Stray
  NoDevice = NoDevice
  NoConn = NoConn
  NoCall = NoCall
INVARIANTS
  NoStaleOnline
CHECK_DEADLOCK FALSE

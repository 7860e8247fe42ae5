SPECIFICATION Spec
CONSTANTS
  d1 = d1  d2 = d2
  c1 = c1  c2 = c2  c3 = c3
  k1 = k1  k2 = k2
  i1 = i1
  Devices = {d1, d2, Blank}
  Conns = {c1, c2}
  Calls = {}
  RequestIds = {i1}
  IdOf <- IdShared
  Strays = {}
  Lists = {TRUE, FALSE}
  Claims <- ClaimsMixed
  Blank = Blank
  Stray = Stray
  NoDevice = NoDevice
  NoConn = NoConn
  NoCall = NoCall
INVARIANTS
  TypeOK
  HandlesAreLive
  LiveDeviceListed
  RegistryIsCurrent
PROPERTIES
  OtherSessionsKept
  ReadyTakesTwoMessages
CHECK_DEADLOCK FALSE

SPECIFICATION Spec
CONSTANTS
  d1 = d1  d2 = d2
  c1 = c1  c2 = c2
  Devices = {d1, d2}
  Clients = {c1, c2}
  Boot = Boot
  MaxTasks = 3
  IoFails = FALSE
  MaxCrashes = 1
  NoDevice = NoDevice
INVARIANTS
  TypeOK
  RunningIsListed
  RunningIsSampled
  FileIsWhole
SYMMETRY Sym
CHECK_DEADLOCK FALSE

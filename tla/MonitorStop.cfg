SPECIFICATION FairSpec
CONSTANTS
  d1 = d1  d2 = d2
  c1 = c1  c2 = c2
  Devices = {d1}
  Clients = {c1, c2}
  Boot = Boot
  MaxTasks = 2
  IoFails = TRUE
  MaxCrashes = 1
  NoDevice = NoDevice
INVARIANTS
  FileIsCurrent
PROPERTIES
  StopEndsLoop
CHECK_DEADLOCK FALSE

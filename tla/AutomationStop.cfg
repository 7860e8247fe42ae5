SPECIFICATION FairSpec
CONSTANTS
  t1 = t1
  r1 = r1  r2 = r2
  k1 = k1  k2 = k2
  Tasks = {t1}
  Runs = {r1}
  Controls = {k1, k2}
  TotalSteps = 2
  Outcomes = {TRUE, FALSE}
  RecoverLimit = 2
  MaxCrashes = 1
  NoTask = NoTask
  NoRun = NoRun
PROPERTIES
  StopEndsRun
CHECK_DEADLOCK FALSE

SPECIFICATION Spec
CONSTANTS
  t1 = t1
  r1 = r1  r2 = r2
  k1 = k1  k2 = k2
  Tasks = {t1}
  Runs = {r1, r2}
  Controls = {k1, k2}
  TotalSteps = 1
  Outcomes = {TRUE, FALSE}
  RecoverLimit = 2
  MaxCrashes = 1
  NoTask = NoTask
  NoRun = NoRun
INVARIANTS
  TypeOK
  AliveIsControllable
  SuccessIsComplete
  LostRunsAreFinal
PROPERTIES
  SkipStartsAlone
SYMMETRY Sym
CHECK_DEADLOCK FALSE

SPECIFICATION Spec
CONSTANTS
  m1 = m1
  f1 = f1
  c1 = c1
  c2 = c2
  t1 = t1
  Mode = {m1}
  Finding = {f1}
  Command = {c1, c2}
  Target = {t1}
  None = None
  Measured <- MCMeasured
  Rounds = 1
  MaxDiff = 2
  MaxWrites = 1
  MaxRuns = 2
  MaxInstalls = 1
  MaxFaults = 1
CHECK_DEADLOCK FALSE
INVARIANTS CompletedPassed RoundsAgree
PROPERTIES PassBound

SPECIFICATION Spec
CONSTANTS
  h1 = h1
  h2 = h2
  m1 = m1
  f1 = f1
  r1 = r1
  Host = {h1, h2}
  Mode = {m1}
  Selection = {f1}
  Request = {r1}
  None = None
  MaxRev = 2
  MaxDiff = 2
  MaxRuns = 2
  MaxFaults = 2
SYMMETRY MCSymmetry
CHECK_DEADLOCK FALSE
INVARIANTS TypeOK BoundByReceipt
PROPERTIES OrphanRetained WorkKept StartsFromRecord

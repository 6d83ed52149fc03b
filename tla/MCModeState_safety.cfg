SPECIFICATION Spec
CONSTANTS
  s1 = s1
  s2 = s2
  d1 = d1
  d2 = d2
  Session = {s1, s2}
  Unnamed = {}
  Defect = {d1, d2}
  None = None
  Half = Half
  Bad = Bad
  Limit = 1
  MaxCalls = 4
  MaxFaults = 1
SYMMETRY MCSymmetry
CHECK_DEADLOCK FALSE
INVARIANTS TypeOK FindingsKept EpisodesKept StampEarned

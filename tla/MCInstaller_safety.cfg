SPECIFICATION Spec
CONSTANTS
  g1 = g1
  g2 = g2
  Generations = {g1, g2}
  None = None
  Torn = Torn
  MaxFaults = 1
  MaxCrashes = 1
SYMMETRY Symmetry
INVARIANTS WayBack ActiveMeansLive RollbackRestores
CHECK_DEADLOCK FALSE

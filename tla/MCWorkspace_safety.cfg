SPECIFICATION Spec
CONSTANTS
  p1 = p1
  p2 = p2
  Presets = {p1, p2}
  Receipt = Receipt
  Pointer = Pointer
  None = None
  Torn = Torn
  MaxRuns = 2
  MaxBases = 2
  MaxEdits = 1
  MaxIncidents = 2
SYMMETRY Symmetry
INVARIANTS OneInProgress TypeOK NothingForgotten UninstallComplete
PROPERTIES AllOrNothing EditsKept

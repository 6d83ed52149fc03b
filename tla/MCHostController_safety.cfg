SPECIFICATION Spec
CONSTANTS
  p1 = p1
  p2 = p2
  d1 = d1
  d2 = d2
  Controllers = {p1, p2}
  Digests = {d1, d2}
  NoOne = NoOne
  NoDigest = NoDigest
  MaxUnits = 2
  Dimensions <- MCDimensions
  Limits <- MCLimits
  Demand <- MCDemand
  MaxCrashes = 1
  MaxFaults = 1
SYMMETRY Symmetry
INVARIANTS
  WithinBudget
  EveryLaunchPaid
  ClosureBacked
  JournalHonest
  EvidenceReceived
PROPERTIES
  MissionPromise
CHECK_DEADLOCK FALSE

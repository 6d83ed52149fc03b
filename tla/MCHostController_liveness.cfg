SPECIFICATION FairSpec
CONSTANTS
  p1 = p1
  p2 = p2
  d1 = d1
  d2 = d2
  Controllers = {p1}
  Digests = {d1, d2}
  NoOne = NoOne
  NoDigest = NoDigest
  MaxUnits = 2
  Dimensions <- MCDimensions
  Limits <- MCLimits
  Demand <- MCDemand
  MaxCrashes = 2
  MaxFaults = 0
PROPERTY EnqueuedSettles
CHECK_DEADLOCK FALSE

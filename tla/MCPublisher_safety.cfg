SPECIFICATION PublisherSpec
CONSTANTS
  p1 = p1
  p2 = p2
  b1 = b1
  b2 = b2
  i1 = i1
  i2 = i2
  a1 = a1
  a2 = a2
  a3 = a3
  Proc = {p1, p2}
  Batch = {b1, b2}
  Item = {i1, i2}
  Loose = {}
  Actor = {a1, a2, a3}
  Nothing = Nothing
  Raw <- MCRaw
  MaxRecords = 7
CHECK_DEADLOCK FALSE
SYMMETRY MCSymmetry
INVARIANTS AcceptedChain HandoffResolves RoomKept

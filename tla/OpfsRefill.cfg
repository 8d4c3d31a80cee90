SPECIFICATION Spec
CONSTANTS
  k1 = k1
  k2 = k2
  k3 = k3
  k4 = k4
  Key = {k1, k2, k3, k4}
  First = k2
  Small = {k1, k2}
  Modes = {"sync", "async"}
  NoOffset = NoOffset
  Hole = Hole
  Idle = Idle
INVARIANT
  SizeMatchesEntries

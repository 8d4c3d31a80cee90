SPECIFICATION LiveSpec
CONSTANTS
  k1 = k1
  k2 = k2
  k3 = k3
  k4 = k4
  Key = {k1, k2, k3}
  First = k2
  Small = {k1}
  Modes = {"sync", "async"}
  NoOffset = NoOffset
  Hole = Hole
  Idle = Idle
INVARIANTS
  TypeOK
  IndexedBlocksAreOwn
  FinishedPutsSurvive
PROPERTIES
  LosesAtMostOne
  PutsGetTheirTurn

SPECIFICATION Spec
CONSTANTS
  p1 = p1
  p2 = p2
  Peer = {p1, p2}
  NoPeer = NoPeer
  Direct = TRUE
  WithGuest = TRUE
  MaxQueue = 1
INVARIANT
  RefusedOnlyWhileBusy
CHECK_DEADLOCK FALSE

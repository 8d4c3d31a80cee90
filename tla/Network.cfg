SPECIFICATION LiveSpec
CONSTANTS
  p1 = p1
  p2 = p2
  Peer = {p1, p2}
  NoPeer = NoPeer
  Direct = FALSE
  WithGuest = TRUE
  MaxQueue = 2
INVARIANTS
  TypeOK
  RefusedOnlyWhileBusy
  NoLostCall
  SettledIsOver
  LinkIsRegistered
  FirstConnectIsSafe
PROPERTY
  CallsSettle
CHECK_DEADLOCK FALSE

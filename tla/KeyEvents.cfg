SPECIFICATION LiveSpec
CONSTANTS
  k1 = k1
  k2 = k2
  Key = {k1, k2}
  Hold = 2
  Width = 16
  MaxTime = 3
  MaxSent = 4
INVARIANT
  TypeOK
PROPERTIES
  PressesAreHeld
  KeysGetThrough
CHECK_DEADLOCK FALSE

SPECIFICATION LiveSpec
CONSTANTS
  c1 = c1
  c2 = c2
  Caller = {c1, c2}
  Asked = {"pack"}
  MaxQueue = 2
  MaxErrors = 0
  Asyncify = TRUE
PROPERTY
  PersistIsAnswered
CHECK_DEADLOCK FALSE

SPECIFICATION LiveSpec
CONSTANTS
  c1 = c1
  c2 = c2
  Caller = {c1, c2}
  Asked = {"stats", "fs-delete-file", "pack", "exit"}
  MaxQueue = 3
  MaxErrors = 1
  Asyncify = TRUE
INVARIANTS
  TypeOK
  OneWakeUp
  OneAnswerPerPromise
  NobodyIsForgotten
PROPERTIES
  CallsAreAnswered
  ExitSettles
  MachineKeepsRunning
CHECK_DEADLOCK FALSE

SPECIFICATION LiveSpec
CONSTANTS
  MaxIncoming = 2
  MaxOutgoing = 2
  MaxBuffer = 3
  MaxLines = 5
INVARIANTS
  TypeOK
  WholeRequests
  AnswersInOrder
  NeverStranded
PROPERTIES
  Connects

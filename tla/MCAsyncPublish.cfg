CONSTANTS
  MaxCalls = 3
  MaxBreaks = 1
SPECIFICATION FairSpec
INVARIANTS
  TypeOK
  SentInOrder
  TrueMeansSent
  OwnConnection
PROPERTY Reconnects
CHECK_DEADLOCK FALSE

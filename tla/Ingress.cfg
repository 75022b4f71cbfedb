SPECIFICATION Spec
CONSTANTS
  MaxCalls = 3
  MayLackKey = {2}
  MaxPending = 2
  MaxRecords = 2
  MaxDrops = 1
INVARIANTS
  TypeOK
  LoggedOnce
  AnswersTruthful
  InOrder
  OpenIsOwned
PROPERTIES
  DrainedIsQuiet
CHECK_DEADLOCK FALSE

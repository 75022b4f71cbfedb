SPECIFICATION ContentSpec
CONSTANTS
  MaxCore = 2
  MaxVersions = 2
  MaxMoves = 4
  MaxSwaps = 5
  MaxRestarts = 1
  MaxContentFaults = 2
CONSTRAINT NoneDisturbed
INVARIANTS
  NewestMoveServed
CHECK_DEADLOCK FALSE

SPECIFICATION ContentSpec
CONSTANTS
  MaxCore = 2
  MaxVersions = 1
  MaxMoves = 1
  MaxSwaps = 3
  MaxRestarts = 1
  MaxContentFaults = 1
INVARIANTS
  EffectCoherent
CHECK_DEADLOCK FALSE

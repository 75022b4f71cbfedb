SPECIFICATION FairSpec
CONSTANTS
  NumZones = 3
  MaxCommands = 4
  MaxCrashes = 0
  MaxLosses = 1
  MaxCopies = 2
  Swaps = TRUE
INVARIANTS
  TypeOK
  InOnePlace
  NewestWins
  HereOrBetween
PROPERTIES
  SpawnsOnce
  HandoffSettles
CHECK_DEADLOCK FALSE

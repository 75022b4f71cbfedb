SPECIFICATION Spec
CONSTANTS
  NumZones = 2
  MaxCommands = 4
  MaxCrashes = 1
  MaxLosses = 1
  MaxCopies = 1
  Swaps = TRUE
INVARIANTS
  HeldAtMark
CHECK_DEADLOCK FALSE

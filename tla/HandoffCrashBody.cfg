SPECIFICATION Spec
CONSTANTS
  NumZones = 2
  MaxCommands = 3
  MaxCrashes = 1
  MaxLosses = 0
  MaxCopies = 1
  Swaps = FALSE
INVARIANTS
  OneBody
CHECK_DEADLOCK FALSE

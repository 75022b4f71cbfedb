SPECIFICATION RosterSpec
CONSTANTS
  Characters = {"c1", "c2"}
  Sessions = {"s1", "s2"}
  MaxSelects = 3
  MaxFaults = 0
  MaxDeletes = 0
INVARIANTS
  OneLiveBody
CHECK_DEADLOCK FALSE

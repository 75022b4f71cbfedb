SPECIFICATION FairSpec
CONSTANTS
  NumPartitions = 2
  MaxRecords = 2
  Poison <- OnePoison
  CheckpointEvery = 1
  MaxTick = 2
  MaxRestarts = 2
INVARIANTS
  TypeOK
  CheckpointDelivered
  Recovers
PROPERTIES
  CheckpointNeverBack
  LostStops
CHECK_DEADLOCK FALSE

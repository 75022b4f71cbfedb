SPECIFICATION Spec
CONSTANTS
  MaxCore = 2
  MaxVersions = 2
  MaxMoves = 3
  MaxSwaps = 4
  MaxRestarts = 1
  MaxContentFaults = 1
  DirRevs <- MCDirRevs
  MaxGenesis = 3
  MaxDirEdits = 2
  MaxKills = 2
  Sources = {{"x"}, {"y"}}
  Holders = {"b1"}
  Operators = {"op"}
  OperatorSelf = FALSE
  Terminals = {"t1", "t2"}
  MaxPackVersions = 2
  MaxPointerMoves = 1
  MaxRegistryFaults = 1
  MaxChainDepth = 3
  CoreSources <- MCCoreSources
  PackSources <- MCPackSources
  ContentPacks = {1, 2}
  PackZones <- MCPackZones
  SpawnRoom <- MCSpawnRoom
  StrictOrphans = FALSE
  Chars = {1}
  Rooms = {1, 2}
  Fallback = 1
  MaxTicks = 3
  BatchTicks = 2
  MaxProjectorFaults = 2
  NumZones = 2
  KeepRounds = 1
  KeepTagged = 1
  PinnedRound = 0
  MaxRounds = 3
  MaxSweeps = 2
  MaxTagged = 1
  MaxStoreFaults = 1
  MaxOffset = 5
  MaxLate = 1
  ReplayBatch = 2
  HeadWindow = 1
  NumPartitions = 2
  MaxCommands = 2
  BufferPerPartition = 2
  MaxPerTick = 2
  MaxFeedFaults = 1
  ScanKeys = {1, 2}
  MaxScanAppends = 3
CONSTRAINT MCBounded
INVARIANTS
  StoredTypeOK
  ContentSafe
  PublishSafe
  LanguageSafe
  ReadersSafe
  TopicIsWorld
  TagKeepsRound
PROPERTIES
  RecoveryPointStays
CHECK_DEADLOCK FALSE

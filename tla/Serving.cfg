SPECIFICATION Spec
CONSTANTS
  BindSessions = {1, 2}
  MaxTransits = 3
  NumProducers = 2
  MaxClients = 2
  Characters = {c1, c2}
  Sessions = {s1, s2}
  MaxSelects = 2
  MaxFaults = 1
  MaxDeletes = 1
  MaxEvents = 3
  MaxSubs = 3
  MaxObjs = 2
  Inbound = 1
  HubBuffer = 1
  StreamBuffer = 1
  Window = 2
  Conns = {"c1"}
  MaxSessions = 1
  MaxCalls = 2
  ProtocolMin = 1
  ProtocolMax = 1
  Usernames = {"u1", "u2"}
  BootUser = "u1"
  Names = {"n1"}
  MaxAccounts = 3
  MaxSecrets = 2
  MaxWrites = 4
  MaxChars = 2
  MaxPerAccount = 2
  MaxAppendFaults = 1
  MaxSwapLog = 2
  MaxBoots = 2
  Second = 6
  MaxTickRate = 4
  ConfigDefaults <- MCDefaults
  WrittenLayers <- MCWrittenLayers
  Deployed <- MCDeployed
  MaxConfigWrites = 2
  MaxRefs = 2
  MaxPlaySessions = 2
  maxSubmitAttempts = 2
  maxHoldAttempts = 1
SYMMETRY MCSymmetry
CONSTRAINT MCBounded
INVARIANTS
  ServingTypeOK
  RosterSafe
  SessionsSafe
  AccountsSafe
  SeesWhole
  ProcessSafe
PROPERTIES
  HealthyClientKept
CHECK_DEADLOCK FALSE

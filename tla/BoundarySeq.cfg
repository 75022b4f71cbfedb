SPECIFICATION FairSpec
CONSTANTS
  MaxTick = 7
  MaxBuffered = 4
  MaxRestarts = 2
INVARIANTS
  Gapless
  AckedDelivered
  LossNotAcked
  SlotsExact
  BoundaryInv
PROPERTIES
  ImplementsBoundaryLog
  TakenIsSettled
CHECK_DEADLOCK FALSE

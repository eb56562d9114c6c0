SPECIFICATION FairSpec

CONSTANTS
  Times <- TwoSeconds
  Trades <- FourTrades
  Relations = {r1}
  PageSize = 1
  MaxPages = 2
  MaxAttempts = 2
  MaxFaults = 2
  None = None
  r1 = r1

INVARIANTS
  TypeOK
  SignalledOnce
  CoveredIsSignalled
  NothingSkipped

PROPERTIES
  OutboxDrains

CHECK_DEADLOCK FALSE

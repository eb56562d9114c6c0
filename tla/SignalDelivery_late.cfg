SPECIFICATION Spec

CONSTANTS
  Times <- TwoSeconds
  Trades <- FourTrades
  Relations = {r1}
  PageSize = 1
  MaxPages = 2
  MaxAttempts = 2
  MaxFaults = 0
  None = None
  r1 = r1

INVARIANTS
  SameSecondSeen

CHECK_DEADLOCK FALSE

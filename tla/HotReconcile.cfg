SPECIFICATION Spec

CONSTANTS
  Tokens = {k1}
  MaxTime = 4
  MaxTrades = 2
  MaxFaults = 0
  k1 = k1

INVARIANTS
  NoDoubleCount

CHECK_DEADLOCK FALSE

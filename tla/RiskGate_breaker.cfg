SPECIFICATION Spec

CONSTANTS
  Regimes <- OnlyLoss
  Tokens = {t4}
  Follows = {f3}
  LiveToken = t4
  LiveFollow = f3
  MaxFaults = 0
  None = None
  t4 = t4
  f3 = f3

PROPERTIES
  BreakerTrips

CHECK_DEADLOCK FALSE

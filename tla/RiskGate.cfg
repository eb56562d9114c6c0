SPECIFICATION Spec

CONSTANTS
  Regimes <- Both
  Tokens = {t1, t2, t3, t4}
  Follows = {f1, f2, f3}
  LiveToken = t4
  LiveFollow = f3
  MaxFaults = 1
  None = None
  t1 = t1
  t2 = t2
  t3 = t3
  t4 = t4
  f1 = f1
  f2 = f2
  f3 = f3

SYMMETRY NameSymmetry

INVARIANTS
  TypeOK
  CapsHold
  RapidFlipHolds
  NetWithinCap

CHECK_DEADLOCK FALSE

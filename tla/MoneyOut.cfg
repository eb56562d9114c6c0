SPECIFICATION FairSpec

CONSTANTS
  Api = {a1, a2}
  Tellers = {a2}
  MaxConds = 2
  Wallets = {w1, w2}
  FirstWallet = w1
  Cash = 2
  Shares = 1
  Amounts <- OneAmount
  DailyMax = 1
  MaxAttempts = 2
  MaxEvents = 2
  Worker = worker
  None = None
  a1 = a1
  a2 = a2
  w1 = w1
  w2 = w2

INVARIANTS
  TypeOK
  DailyLimitHolds
  MinedIsTrue
  RedemptionsAreKept

PROPERTIES
  RedeemedInTheEnd

CHECK_DEADLOCK FALSE

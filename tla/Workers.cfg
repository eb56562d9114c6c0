SPECIFICATION Spec

CONSTANTS
  Tokens = {k1, k2}
  MaxTime = 4
  HotTrades = 3
  HotFaults = 1
  TradeSizes = {1, 2}
  TradePrices = {2, 5}
  Steps = {1, 2}
  LedgerTrades = 4
  LedgerNow = 2
  Txs = {t1, t2}
  FetchPage = 2
  Refresh = 0
  FillTrades = 3
  FillNow = 1
  FillFaults = 1
  CutoffDays = 0
  Interval = 0
  PageTrades = 2
  PageNow = 1
  MaxRounds = 2
  PageFaults = 1
  p1 = p1
  p2 = p2
  p3 = p3
  p4 = p4
  People = {p1, p2, p3, p4}
  VenueOf <- Venue
  Alike <- Likenesses
  ListLimit = 3
  MaxTicks = 2
  MaxIds = 4
  MaxSlips = 1
  From = {f1}
  To = {"x", "y"}
  Likeness = {7, 8}
  MaxRulings = 4
  Asks <- Signals
  Books <- SmallBooks
  Minimums = {0, 10}
  Slip = 2
  MinNotional = 100
  MaxMoves = 2
  MaxFails = 2
  Follows = {r1, r2}
  CopySizes = {1, 2}
  CopyPrices = {40, 50}
  Fees = {0, 1}
  PeriodDays = 0
  MaxExecs = 2
  MaxDay = 1

SYMMETRY Symmetry

INVARIANTS
  TypeOK
  ResidualIsTheMissed
  LedgerAddsUp
  BackfilledIsWhole
  RowsAreTrue
  CuratedHolds
  SentIsSafe

CHECK_DEADLOCK FALSE

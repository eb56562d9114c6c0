SPECIFICATION Spec

CONSTANTS
  Users = {u1, u2}
  Periods = {1}
  Confirmations = 2
  Lookback = 2
  Grace = 1
  Untils = {1}
  MaxInvoices = 2
  MaxTxs = 2
  MaxHead = 3
  MaxPayments = 2
  MaxDuds = 1
  MaxWriters = 1
  T1 = T1
  I1 = I1
  Customers = {a1}
  Traders = {T1}
  Identities = {I1}
  Configs <- ThreeConfigs
  Requests = {c1, c2}
  Signals = {s1}
  SignalOf <- OneTrade
  NoIdentity = NoIdentity
  Price = 2
  Size = 4
  SourceVenue = "polymarket"
  Implemented = {"polymarket"}
  Allowed = {"polymarket", "zeitgeist"}
  FreeSlots = 1
  FreeWatch = 1
  ProWatch = 2
  MaxFollows = 2
  MaxWatch = 1
  MaxAsks = 4
  Wallets = {w1, w2}
  TgIds = {g1}
  NoTg = NoTg
  MaxAge = 1
  MaxNonces = 3
  MaxTokens = 2
  MaxUsers = 2
  Keys = {k1, k2, k3}
  NoKey = NoKey

SYMMETRY Symmetry

INVARIANTS
  TypeOK
  PaidIsServed
  FollowsKept
  WaysIn
  CredentialsKept

CHECK_DEADLOCK FALSE

SPECIFICATION FairSpec

CONSTANTS
  Orders = {o1, o2}
  Users = {u1}
  UserOf <- FirstUser
  Copiers = {c1}
  Stamps = {s1, s2}
  MaxWallet = 1
  Size = 1
  Modes <- Trading
  Revocable = {}
  Reads404 <- HalfOfKeys
  MaxFaults = 2
  None = None
  c1 = c1
  o1 = o1
  o2 = o2
  s1 = s1
  s2 = s2
  u1 = u1

INVARIANTS
  TypeOK
  FillsAreTraced
  BooksMatchVenue

PROPERTIES
  KeepsThePromise
  EventuallySettled

CHECK_DEADLOCK FALSE

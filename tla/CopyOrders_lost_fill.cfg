SPECIFICATION Spec

CONSTANTS
  Orders = {o1}
  Users = {u1}
  UserOf <- FirstUser
  Copiers = {c1, c2}
  Stamps = {s1}
  MaxWallet = 1
  Size = 1
  Modes <- Trading
  Revocable = {}
  Reads404 = {}
  MaxFaults = 0
  None = None
  c1 = c1
  c2 = c2
  o1 = o1
  s1 = s1
  u1 = u1

INVARIANTS
  NoLostFill

CHECK_DEADLOCK FALSE

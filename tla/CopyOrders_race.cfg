SPECIFICATION Spec

CONSTANTS
  Orders = {o1}
  Users = {u1}
  UserOf <- FirstUser
  Copiers = {c1, c2}
  Stamps = {s1, s2}
  MaxWallet = 2
  Size = 2
  Modes <- TradingOrRehearsing
  Revocable = {u1}
  Reads404 = {}
  MaxFaults = 1
  None = None
  c1 = c1
  c2 = c2
  o1 = o1
  s1 = s1
  s2 = s2
  u1 = u1

SYMMETRY OrderSymmetry

INVARIANTS
  OneOrderPerWallet
  FilledIsBooked
  EachFleetKeepsItsBooks

PROPERTIES
  TerminalStaysTerminal

CHECK_DEADLOCK FALSE

SPECIFICATION FairSpec

CONSTANTS
  Daemons = {d1, d2}
  MaxOrders <- TwoOrders
  Limit = 1
  Posters = {d1}
  Abroad <- OneAbroad
  MaxFaults = 1
  None = None
  d1 = d1
  d2 = d2

INVARIANTS
  TypeOK
  BooksMatchRows
  PostedOncePerReport
  NothingElseSlips

PROPERTIES
  ListedIsSettled

CHECK_DEADLOCK FALSE

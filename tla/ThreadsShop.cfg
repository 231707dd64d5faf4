CONSTANTS
  KIOSKS = 2
  Buyers = {b1, b2}
  Needs = {1, 2}
  InitialGoods = {0, 1}
  LOAD = 2
  MaxGoods = 0
SPECIFICATION FairSpec
CHECK_DEADLOCK FALSE
INVARIANTS
  TypeOK
  NothingIsLost
  NeedsWereMet
PROPERTIES
  ShopCloses

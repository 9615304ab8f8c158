SPECIFICATION FairSpec
CONSTANTS
  Orders = {o1, o2}
  Variants = {v1, v2}
  MaxQuantity = 1
  StockLevels = {1, 2}
  IntMax = 2
INVARIANTS
  TypeOK
  StockWithinBounds
  NoPhantomReservation
  ReservationExact
  HoldersCanPay
  ChargeNeverAhead
PROPERTIES
  LedgerImplemented
  AbandonedHoldsFreed

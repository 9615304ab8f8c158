SPECIFICATION Spec
CONSTANTS
  Orders = {o1, o2}
  Pays = {p1, p2}
  Refunds = {a1, a2}
  Total = 2
  MaxRefusals = 2
  None = None
CHECK_DEADLOCK FALSE
INVARIANTS
  PaidMeansCaptured
  MoneyHasOrder
  BooksAgree
  SecondRefundHasCause
  AcknowledgedIsConfirmed

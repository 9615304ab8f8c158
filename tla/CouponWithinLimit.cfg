SPECIFICATION Spec
CONSTANTS
  Requests = {r1, r2}
  Keys = {k1}
  Goods = {g1, g2}
  MaxUses = 1
  None = None
CHECK_DEADLOCK FALSE
INVARIANT CouponWithinLimit

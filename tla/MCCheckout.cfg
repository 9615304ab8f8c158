SPECIFICATION Spec
CONSTANTS
  Requests = {r1, r2, r3}
  Keys = {k1}
  Goods = {g1}
  MaxUses = 1
  None = None
SYMMETRY Symmetry
CHECK_DEADLOCK FALSE
INVARIANTS
  OneAcknowledgedOrder
  StuckKeyHasCause
  OrderedTwiceOnlyByOverlap
  UseCountNeverAhead
PROPERTY KeyPromiseKept

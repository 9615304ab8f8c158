SPECIFICATION Spec
CONSTANTS
  maxToolIters = 2
  Asked = {"search_catalog", "get_my_order_status", "add_to_cart"}
  MaxDeltas = 1
  MaxCalls = 2
INVARIANTS
  TranscriptPairs
  DoneIsClean
PROPERTIES
  ChatEnds
CHECK_DEADLOCK FALSE

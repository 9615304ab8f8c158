SPECIFICATION FairSpec
CONSTANTS
  Orders = {o1}
  Variants = {v1}
  MaxQuantity = 1
  StockLevels = {1}
  IntMax = 1
PROPERTY StartedHoldsFreed

SPECIFICATION Spec
CONSTANTS
  Orders = {o1, o2}
  Variants = {v1}
  MaxQuantity = 1
  StockLevels = {2}
  IntMax = 2
PROPERTY StatusFollowsTable

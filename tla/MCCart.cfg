SPECIFICATION Spec
CONSTANTS
  v1 = v1
  v2 = v2
  percent = percent
  fixed = fixed
  Tabs = {t1, t2}
  Variants = {v1, v2}
  PriceOf <- MCPriceOf
  Codes = {percent, fixed}
  Offer <- MCOffer
  Freights <- MCFreights
  MaxQuantity = 2
  None = None
SYMMETRY Symmetry
INVARIANTS
  QuoteHolds
  FreightIsPaid
  PercentRoundsHalfUp

SPECIFICATION Spec
CONSTANTS
  c1 = c1
  Products = {p1}
  Variants = {v1}
  Categories = {c1}
  Names = {n1}
  Admins = {a1}
  Forms <- MCForms
  MaxVersion = 2
  None = None
  Gone = Gone
CHECK_DEADLOCK FALSE
INVARIANT InheritedPriceFollows

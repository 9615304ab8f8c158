SPECIFICATION Spec
CONSTANTS
  c1 = c1
  Products = {p1}
  Variants = {v1}
  Categories = {c1, c2}
  Names = {n1, n2}
  Admins = {a1, a2}
  Forms <- MCForms
  MaxVersion = 4
  None = None
  Gone = Gone
SYMMETRY Symmetry
INVARIANTS
  TypeOK
  RefusalIsTrue
PROPERTIES
  EditsAreSerial

SPECIFICATION Spec
CONSTANTS
  h = h
  a = a
  b = b
  c = c
  Host = h
  PrevKeyRing = 1
  Members <- ThreeMembers
  MaxSends = 0
  MaxOutages = 0
CHECK_DEADLOCK FALSE
SYMMETRY Symmetry
INVARIANTS TypeOK KeyOnItsWay

CONSTANTS
  a1 = a1
  a2 = a2
  f1 = f1
  f2 = f2
  Agents = {a1, a2}
  Files = {f1, f2}
  ReadsFresh = FALSE
  MaxOutside = 2
SPECIFICATION Spec
SYMMETRY Symmetry
PROPERTIES SiblingWorkKept
CHECK_DEADLOCK FALSE

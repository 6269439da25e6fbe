CONSTANTS
  c1 = c1
  c2 = c2
  c3 = c3
  c4 = c4
  n1 = n1
  n2 = n2
  Calls = {c1, c2, c3, c4}
  Names = {n1, n2}
  FoundAtFirst = {"absent", "empty", "foreign", "old"}
  EmptyOverlaps = FALSE
  MaxFaults = 2
SPECIFICATION Spec
SYMMETRY Symmetry
INVARIANTS OneSigner NoHalfKey
PROPERTIES NeverReplaced
CHECK_DEADLOCK FALSE

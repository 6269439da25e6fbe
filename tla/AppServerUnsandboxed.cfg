CONSTANTS
  r1 = r1
  r2 = r2
  r3 = r3
  s1 = s1
  f1 = f1
  Arrivals <- Two
  Sessions = {s1}
  Files = {f1}
  Modes = {"unsandboxed"}
  MaxAtOnce = 2
  MaxOutside = 0
SPECIFICATION Spec
INVARIANTS LabelIsHonest
CHECK_DEADLOCK FALSE

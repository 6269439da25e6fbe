SPECIFICATION Spec
CONSTANTS
  r1 = r1
  r2 = r2
  s1 = s1
  s2 = s2
  Runs = {r1, r2}
  m1 = m1
  m2 = m2
  Ids = {m1, m2}
  Sessions = {s1, s2}
  Configs <- Calls
  Machines = {"sandboxed", "bare"}
  MaxFaults = 1
INVARIANTS EffectsWereApproved ReplayIsHonest MixedLogIsNoticed ReceiptIsTheRun AnnouncedReceiptIsThere
CHECK_DEADLOCK FALSE
SYMMETRY Symmetry

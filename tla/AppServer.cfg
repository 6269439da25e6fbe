CONSTANTS
  r1 = r1
  r2 = r2
  r3 = r3
  s1 = s1
  f1 = f1
  Arrivals <- Three
  Sessions = {s1}
  Files = {f1}
  Modes = {"namespaced", "confined", "refused"}
  MaxAtOnce = 2
  MaxOutside = 1
SPECIFICATION FairSpec
INVARIANTS EffectsAreKept ReceiptsEndAtTheDisk
PROPERTIES EveryRequestIsAnswered
CHECK_DEADLOCK FALSE

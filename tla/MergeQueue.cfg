CONSTANTS
  a1 = a1
  a2 = a2
  f1 = f1
  f2 = f2
  Agents = {a1, a2}
  Files = {f1, f2}
  ReadsFresh = TRUE
  MaxOutside = 2
SPECIFICATION FairSpec
INVARIANTS AnswerAccounts
PROPERTIES SiblingWorkKept EveryItemIsAnswered
CHECK_DEADLOCK FALSE

CONSTANTS
  t1 = t1
  t2 = t2
  t3 = t3
  Tasks = {t1, t2, t3}
SPECIFICATION Spec
INVARIANTS NoneRunsEarly NoneWaitsForever
PROPERTIES ImplementsTaskPlan
CHECK_DEADLOCK FALSE

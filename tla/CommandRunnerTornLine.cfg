CONSTANTS
  a1 = a1
  a2 = a2
  Actions = {a1, a2}
  MaxFaults = 2
  ReconcilesAtOpen = FALSE
SPECIFICATION Spec

INVARIANT RecordedIsRecoverable
CHECK_DEADLOCK FALSE

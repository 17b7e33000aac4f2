SPECIFICATION Spec
CONSTANTS
  Runs = {r1, r2, r3}
  None = None
  MaxSwaps = 2
  MaxCancels = 2
INVARIANTS TypeOK NoJobForgotten IdlePageIsUsable
CHECK_DEADLOCK FALSE
SYMMETRY Symmetric

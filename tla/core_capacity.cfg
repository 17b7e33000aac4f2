SPECIFICATION Spec
CONSTANTS
  Tasks = {t1, t2}
  Calls = {}
  MaxConcurrency = 1
  MaxLaunch = 1
  LeaseDurations = {1}
  Requests <- ShortRequest
  DelayedReplies = FALSE
  DeferDeletion = FALSE
  MaxEpoch = 1
  MaxTime = 2
  MaxFaults = 1
INVARIANTS CapacityRespected LiveChildHoldsSlot
CHECK_DEADLOCK FALSE
SYMMETRY TaskSymmetry

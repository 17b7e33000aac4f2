SPECIFICATION FairSpec
CONSTANTS
  Tasks = {t1}
  Calls = {}
  MaxConcurrency = 1
  MaxLaunch = 1
  LeaseDurations = {1}
  Requests <- OneRequest
  DelayedReplies = FALSE
  DeferDeletion = FALSE
  MaxEpoch = 2
  MaxTime = 3
  MaxFaults = 0
INVARIANTS StopReachesChild
PROPERTIES SlotIsGivenBack JobSettles
CHECK_DEADLOCK FALSE

SPECIFICATION HttpSpec
CONSTANTS
  Tasks = {t1}
  Job = t1
  Calls = {c1, c2}
  MaxInFlight = 2
  Workers = {w1}
  NoTask = NoTask
  NoWorker = NoWorker
  MaxSlots = 1
  GlobalCapacity = 1
  LeaseDuration = 1
  Deadline = 1
  Ttl = 1
  MaxEpoch = 1
  MaxTime = 1
  MaxCrashes = 1
INVARIANTS HttpTypeOK
PROPERTIES DeletionReceiptIsTrue
CHECK_DEADLOCK FALSE

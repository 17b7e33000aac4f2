SPECIFICATION FairSpec
CONSTANTS
  Tasks = {t1}
  Workers = {w1, w2}
  NoTask = NoTask
  NoWorker = NoWorker
  MaxSlots = 1
  GlobalCapacity = 1
  LeaseDuration = 1
  Deadline = 2
  Ttl = 3
  MaxEpoch = 1
  MaxTime = 3
  MaxCrashes = 0
PROPERTIES SlotIsRecovered
CHECK_DEADLOCK FALSE

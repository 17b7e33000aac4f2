SPECIFICATION FairSpec
CONSTANTS
  Tasks = {t1}
  Workers = {w1, w2}
  NoTask = NoTask
  NoWorker = NoWorker
  MaxSlots = 2
  GlobalCapacity = 2
  LeaseDuration = 1
  Deadline = 2
  Ttl = 2
  MaxEpoch = 1
  MaxTime = 2
  MaxCrashes = 1
PROPERTIES SlotIsRecoveredOrRefused ProcessIsGivenUpOrIsolated DeletionCompletes
CHECK_DEADLOCK FALSE

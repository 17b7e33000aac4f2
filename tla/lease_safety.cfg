SPECIFICATION Spec
CONSTANTS
  Tasks = {t1}
  Workers = {w1, w2}
  NoTask = NoTask
  NoWorker = NoWorker
  MaxSlots = 1
  GlobalCapacity = 1
  LeaseDuration = 1
  Deadline = 2
  Ttl = 3
  MaxEpoch = 2
  MaxTime = 3
  MaxCrashes = 1
INVARIANTS TypeOK SlotsMatchClaims
PROPERTIES QuarantineFreezesJob PublishedByHolder ImplementsComputeJobs
CHECK_DEADLOCK FALSE
SYMMETRY Symmetric

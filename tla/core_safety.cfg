SPECIFICATION Spec
CONSTANTS
  Tasks = {t1}
  Calls = {p1}
  MaxConcurrency = 1
  MaxLaunch = 1
  LeaseDurations = {1}
  Requests <- OneRequest
  DelayedReplies = TRUE
  DeferDeletion = TRUE
  MaxEpoch = 2
  MaxTime = 2
  MaxFaults = 1
INVARIANTS TypeOK RecordConsistent LiveChildIsCurrentAttempt ResultsMatchRecords
PROPERTIES HistoryIsOrdered ImplementsComputeJobs
CHECK_DEADLOCK FALSE

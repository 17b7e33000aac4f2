SPECIFICATION FairSpec
CONSTANTS
  MaxPending = 2
  MaxStray = 2
INVARIANTS TypeOK PublishedBeforeSuccess
PROPERTIES ImplementsSupervisedProcess LaunchSettles EndedSessionCloses
CHECK_DEADLOCK FALSE

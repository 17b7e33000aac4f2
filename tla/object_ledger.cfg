SPECIFICATION FairSpec
CONSTANTS
  Callers = {c1, c2}
  Sweepers = {s1}
  MaxGeneration = 2
  MaxUploads = 2
INVARIANTS TypeOK AvailableIsStored
PROPERTIES DeletionIsFinal GenerationsVanish
CHECK_DEADLOCK FALSE

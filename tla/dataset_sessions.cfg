SPECIFICATION FairSpec
CONSTANTS
  Calls = {a1, a2}
  Steady = {a2}
  Overlapping = {"activate"}
  Sheets = {s1}
  Mappings = {m1, m2}
  Bytes = {good, bad}
  Announced = good
  Source = Source
  None = None
  MaxReceipts = 1
INVARIANTS TypeOK ExecutionUsesItsReceipt
PROPERTIES InputDeletionSettles DataVanishes
CHECK_DEADLOCK FALSE

CONSTANTS
  i1 = i1
  i2 = i2
  safe = safe
  danger = danger
  None = None
  Ids = {i1, i2}
  Bodies = {safe, danger}
  Dangerous = {danger}
  MaxEntries = 2
  MaxMishaps = 4

SPECIFICATION ManualFairSpec

INVARIANTS
  ManualTypeOK
  EntryStoredOnce
  DangerConfirmed

PROPERTIES
  EventuallyTold
  ImplementsManualStore

CHECK_DEADLOCK FALSE

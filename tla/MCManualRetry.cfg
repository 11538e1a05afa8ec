CONSTANTS
  i1 = i1
  i2 = i2
  safe = safe
  danger = danger
  None = None
  Ids = {i1, i2}
  Bodies = {safe, danger}
  Dangerous = {danger}
  MaxEntries = 2
  MaxMishaps = 1

SPECIFICATION ManualSpec

INVARIANT RetryIsRecognised

CHECK_DEADLOCK FALSE

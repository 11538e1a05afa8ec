CONSTANTS
  t1 = t1
  t2 = t2
  pi = pi
  tokyo = tokyo
  utc = utc
  old = old
  new = new
  Tools = {t1, t2}
  Devices = {pi}
  Zones = {tokyo}
  NoZone = NoZone
  ManualRows = {1}
  None = None
  NoFile = NoFile
  Digests = {old, new}
  Releases <- ThisRelease
  Earlier <- EarlierReleases
  WideFile = 2
  LegacyRows = 3
  BatchSize = 2
  LiveSeqs = {2}
  MaxRuns = 5
  MaxFaults = 1
  MaxLosses = 1

SPECIFICATION Spec

INVARIANTS
  RecoveryTypeOK
  MigratedInOrder
  SnapshotWhole
  LegacyStoredOnce
  DatabaseWhole
  IdsAreFresh

SYMMETRY ToolSymmetry
CHECK_DEADLOCK FALSE

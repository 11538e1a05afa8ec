CONSTANTS
  m1 = m1
  m2 = m2
  pi = pi
  plain = plain
  bad = bad
  h1 = h1
  h2 = h2
  MessageIds = {m1, m2}
  Devices = {pi}
  Bodies = {plain}
  Malformed = {}
  MaxSeq = 2
  NoRequest = NoRequest
  NoHandler = NoHandler
  Handlers = {h1, h2}
  PoolSize = 2
  Prior <- LegacyPrior
  MaxFaults = 1
  MaxMishaps = 2
  FlushLimit = 1
  Pi = pi
  BreakOnReject = {TRUE, FALSE}

SPECIFICATION FairSpec

INVARIANTS
  TypeOK
  NothingLost
  SeqNamesOneReading
  OnlyImportsConflict
  QuarantineJustified

PROPERTIES
  ImplementsContract
  AtLeastOnce
  EventuallySettled

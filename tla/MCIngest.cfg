CONSTANTS
  m1 = m1
  m2 = m2
  pi = pi
  plain = plain
  bad = bad
  h1 = h1
  h2 = h2
  h3 = h3
  MessageIds = {m1, m2}
  Devices = {pi}
  Bodies = {plain, bad}
  Malformed = {bad}
  MaxSeq = 2
  NoRequest = NoRequest
  Handlers = {h1, h2, h3}
  PoolSize = 2
  Prior <- NoPrior
  MaxFaults = 1

SPECIFICATION IngestSpec

INVARIANTS
  IngestTypeOK
  VerdictsAreTrue
  TablesAgree
  WaitsEnd

PROPERTY ImplementsStore

SYMMETRY MCSymmetry


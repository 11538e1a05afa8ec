CONSTANTS
  d1 = d1
  s1 = s1
  s2 = s2
  Devices = {d1}
  Sensors = {s1, s2}
  MaxSeq = 3
  Kinds <- SomeKinds
  MaxRows = 1
  MaxFaults = 1

SPECIFICATION MonitorFairSpec

PROPERTY EverySilenceReported

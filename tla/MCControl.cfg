CONSTANTS
  MaxCommands = 2
  MaxMishaps = 1
  DryRunSettings <- AnySetting

SPECIFICATION FairSpec

INVARIANTS
  TypeOK
  NoEventLost
  StatusTellsTruth
  RefusedIsNotRun

PROPERTIES
  ImplementsContract
  NeverLeftOpen
  BootIsReported

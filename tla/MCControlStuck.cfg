CONSTANTS
  MaxCommands = 1
  MaxMishaps = 1
  DryRunSettings <- LiveSetting

SPECIFICATION FairSpec

PROPERTIES
  AnnouncedIsFinished

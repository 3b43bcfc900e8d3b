CONSTANTS
  NBits = 2
  Configs <- DriverConfigs
  Divider = 8
  MaxSlip = 2
  Target = 0
  None = None
SPECIFICATION DriverSpec
INVARIANTS
  PollMeansDone
  ReadReturnsAnswer
  NoStartLost
  IsrReadsItsByte
PROPERTIES
  CommandsFinish

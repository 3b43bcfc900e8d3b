CONSTANTS
  NBits = 2
  Configs <- Modes
  Target = 0
  None = None
SPECIFICATION Spec
INVARIANTS
  ByteExchanged
  BusyCoversTransfer
PROPERTIES
  SclkPhases
  TransferEnds

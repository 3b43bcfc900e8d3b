CONSTANTS
  NBits = 2
  CLK_DIV_INIT = 2
  OwnAddr <- Own
  Dividers = {0}
  DataBytes <- Written
  Answers <- Read
SPECIFICATION Spec
INVARIANTS
  ByteTransferred
  DoneIsOwn
PROPERTIES
  OnlyStartAndStop
  CallsReturn

CONSTANTS
  NBits = 3
  CLKS_PER_BIT = 10
SPECIFICATION TestbenchSpec
INVARIANTS
  NoByteDropped
  ReadyAfterFrame
  LoopbackReturns
PROPERTIES
  BytesComeBack

CONSTANTS
  NBits = 3
  CLKS_PER_BIT = 10
SPECIFICATION TransmitSpec
INVARIANT
  NoByteDropped

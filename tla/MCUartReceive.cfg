CONSTANTS
  NBits = 2
  CLKS_PER_BIT = 10
  PeerBits <- AllTolerated
  Spikes = {1, 5}
  Latency = 35
SPECIFICATION Spec
INVARIANTS
  NothingLost
PROPERTIES
  BytesInOrder
  BytesAreRead

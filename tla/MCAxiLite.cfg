CONSTANTS
  Lanes = {l0}
  Bytes = {0, 1}
  ZeroByte = 0
  Accessed = {0, 2}
  WriteData <- AllWords
  WriteStrobes <- AllStrobes
SPECIFICATION Spec
INVARIANTS
  HandshakeInv
PROPERTIES
  ResponsesHeld
  OneResponsePerRequest
  RequestsServed

CONSTANTS
  Lanes = {l0}
  LowLane = l0
  Pins = {p0}
  Bytes <- PinBytes
  ZeroByte <- NoPin
  Accessed = {0, 1, 2}
  WriteData <- AllWords
  WriteStrobes <- AllStrobes
SPECIFICATION GpioSpec
PROPERTIES
  ImplementsRegisterBank

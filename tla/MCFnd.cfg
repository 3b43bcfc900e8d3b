CONSTANTS
  Digits = 3
  DecRadix = 2
  HexRadix = 3
  Numbers <- SomeNumbers
SPECIFICATION Spec
INVARIANTS
  NoGhost
  Settles
  NeverDarkLong

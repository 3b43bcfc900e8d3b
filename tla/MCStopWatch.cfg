CONSTANTS
  Buttons <- Both
  MaxOwed = 1
  CS = 1
  SEC = 2
  MIN = 2
  HOUR = 1
  Period = 1
  TickMod = 2
  PassTicks = 1
  MaxRan = 2
  LedBits = 2
  WordBits = 3
SPECIFICATION Spec
INVARIANTS
  StopWatchInv
  EventsAreMoves
  OneLedRuns
  Pace
PROPERTIES
  ImplementsStopClock
  CommandsTaken
  MovesAreSeen

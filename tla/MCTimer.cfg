CONSTANTS
  Mod = 4
SPECIFICATION Spec
INVARIANTS
  TimerInv
PROPERTIES
  PeriodExact
  NeverEarly
  NoOverrunByItself
  KeepsInterrupting

SPECIFICATION Spec
CONSTANTS
  MAX_TIMERS = 2
  Frequency = 2
  Radix = 4
  Callbacks <- Both
  Printing <- OnePrints
  Delays <- MCDelays
  MaxTicks = 4
  MaxNested = 2
INVARIANTS
  TypeOK
  CallbacksRight
  SleepsLongEnough
  Punctual
CHECK_DEADLOCK FALSE

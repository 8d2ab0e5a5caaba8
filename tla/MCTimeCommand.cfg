SPECIFICATION Spec
CONSTANTS
  First <- MCFirst
  Last <- MCLast
  Start <- MCStart
  MaxUpdates = 2
  Lead = 6
  HandlerNumbers <- MCNumbers
INVARIANTS
  TimeExisted
  NumberBounded
  TimeShown
CHECK_DEADLOCK FALSE

SPECIFICATION Spec
CONSTANTS
  Lines <- MCLines
  BootMasks <- MCMasks
  MaxNested = 3
INVARIANTS
  NoneInService
  LinesStayOpen
PROPERTIES
  OwnEoi
  LinesServed

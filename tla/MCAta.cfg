SPECIFICATION Spec
CONSTANTS
  CountMod = 3
  Lbas <- MCLbas
INVARIANTS
  TypeOK
  QuietWhenReady
  DisksRegistered
PROPERTIES
  DiskSpec
  Returns
CHECK_DEADLOCK FALSE

SPECIFICATION Spec
CONSTANTS
  PAGE_SIZE = 16
  WordBits = 8
  LowFrames = 4
  Machines <- MCMachines
  Entries = 16
  HIGH = 192
  VIDEO = 224
  IdentityPages = 16
  HeaderSize = 2
  MaxGrow = 3
INVARIANTS
  TypeOK
  TablesOwned
  HeapBacked
  NeverAstray
  MappingsKept
PROPERTIES
  BootTablesSuffice
  GrowthEnds
CHECK_DEADLOCK FALSE

SPECIFICATION PmmSpec
CONSTANTS
  PAGE_SIZE = 16
  WordBits = 8
  LowFrames = 4
  Machines <- MCMachines
INVARIANTS
  PmmTypeOK
  BitmapExact
  HeldIsFree
  HeldIsRam
  TestPasses

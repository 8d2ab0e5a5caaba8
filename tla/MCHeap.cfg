SPECIFICATION FairSpec
CONSTANTS
  PageSize <- MCPageSize
  WordSize <- MCWordSize
  Base <- MCBase
  Frames <- MCFrames
  Requests <- MCRequests
INVARIANTS
  TypeOK
  BlocksInOrder
  Coalesced
  FirstFit
PROPERTIES
  RefusedOnlyWhenFull
  AllocatorSpec
  CallsReturn

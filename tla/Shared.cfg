SPECIFICATION FairSpec
CONSTANTS
  Concurrency = 2
  Handles = {A, B}
  FrameFirst = FALSE
  MaxFrames = 3
  MaxHandles = 3
INVARIANTS
  SharedInv
  ImageMatchesInfo
PROPERTIES
  ImplementsLease
  DestructionCompletes
CHECK_DEADLOCK FALSE

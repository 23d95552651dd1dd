SPECIFICATION Spec
CONSTANTS
  B = 2
  ClusterCount = 2
  ClusterBlocks = 1
  FatType = 16
  RootBlocks = 1
  Cards <- Empty
  Files = {f1}
  Paths <- OnePath
  Dirs = {}
  Writes <- BlockWrites
  Modes <- ReadWrite
  MaxCalls = 5
  MaxAccesses = 0
INVARIANT CloseSaves
CHECK_DEADLOCK FALSE


SPECIFICATION Spec
CONSTANTS
  B = 2
  ClusterCount = 4
  ClusterBlocks = 1
  FatType = 16
  RootBlocks = 1
  Cards <- MCCards
  Files = {f1, f2}
  Paths <- MCPaths
  Dirs <- MCDirs
  Writes <- MCWrites
  Modes <- MCModes
  MaxCalls = 4
  MaxAccesses = 12
INVARIANTS AnswersRight ChainsSound SavedSurvives FatCopiesAgree
CHECK_DEADLOCK FALSE

SYMMETRY Symm

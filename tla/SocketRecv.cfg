SPECIFICATION FairSpec
CONSTANTS
  Byte = {b0, b1}
  SSIZE = 4
  PTRMOD = 8
  INC_LIMIT = 3
  MaxLen = 3
INVARIANTS Accounting NoStrandedWindow
PROPERTIES StreamSpec FullBufferDrains

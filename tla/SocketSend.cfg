SPECIFICATION FairSpec
CONSTANTS
  Byte = {b0, b1}
  SSIZE = 3
  PTRMOD = 6
  MaxLen = 3
INVARIANTS NoOverwrite SendOkIsFresh
PROPERTIES StreamSpec WriteReturns

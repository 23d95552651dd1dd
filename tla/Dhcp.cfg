SPECIFICATION Spec
CONSTANTS
  DEFAULT_LEASE = 5
  TICKS = 2
  None = None
  Server = {A, B}
  LeaseOpts = {0, 4}
  T1Opts = {0, 1}
  T2Opts = {0}
  CLOCKMOD = 6
  MaxGap = 4
  SocketsRunOut = TRUE
SYMMETRY Symm
INVARIANTS ChipUsesAcked NoDrift
PROPERTY RenewsByT1

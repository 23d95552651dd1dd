SPECIFICATION FairSpec
CONSTANTS
  DEFAULT_LEASE = 5
  TICKS = 2
  None = None
  Server = {A}
  LeaseOpts = {4}
  T1Opts = {0}
  T2Opts = {0}
  CLOCKMOD = 4
  MaxGap = 3
  SocketsRunOut = TRUE
PROPERTY RetriesAfterFailure

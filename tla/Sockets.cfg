SPECIFICATION FairSpec
CONSTANTS
  Sock = {1, 2}
  Client = {c1, c2}
  Ports = {80}
  Sketches <- CalledTogether
  MaxConns = 3
INVARIANTS ServerTableSound NoLeak
PROPERTIES AcceptOnce HalfClosedReclaimed

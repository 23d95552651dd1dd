SPECIFICATION Spec
CONSTANTS
  Base = 3
  Char = {x}
  SIZE = 5
  Row = {r0, r1}
  MaxCalls = 3
  Lengths = {0, 2, 3}
  RxSize = 6
  TxSize = 4
  ReadSizes = {1, 2, 8}
  WriteSizes = {1, 2, 5}
  MaxDatagrams = 3
  Hosts = {"net.org", "1.2.3.4", "1.2.org"}
  Literals = {"1.2.3.4"}
  Dotted = {"1.2.org"}
  LocalPorts = {1024, 1025}
  MaxLookups = 2
  Bodies = {"address", "odd"}
  IntBits = 16
INVARIANTS
  NoTornRead
  KeepsTheArray
  OwnBytesOnly
  DatagramsWhole
  ResolvesAsked
PROPERTIES
  CallsReturn
CHECK_DEADLOCK FALSE

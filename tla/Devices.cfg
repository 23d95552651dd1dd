SPECIFICATION Spec
CONSTANTS
  Val = {0, 1, 3}
  RINGBUFFER_SIZE = 4
  Sizes = {1, 3}
  Ist = {0, 1, 2, 3, 4, 5, 6}
  Soll = {2, 3}
  Width = {0, 1, 2}
  Codes <- MCCodes
  Bits = 5
  FamilyBits = 2
  MaxLost = 2
  Sensor = {1, 2, 3}
  S20 = {1}
  Parasite = {2}
  Asked = {8, 12}
  HalfAxis = 4
  Measurements <- MCMeasurements
  FIFO_SETS = 2
  SAMPLES = 2
  HalfClock = 4
  WAIT = 1
  MaxMeasured = 4
  SERVOS_PER_TIMER = 2
  ServoPins = {9, 10, 11}
  Limits <- MCLimits
  Values = {7, 179, 2500}
  BlockNumbers = {0, 1, 2}
  BLOCK = 3
  BlockValues = {10, 11}
  Lines = {1, 2}
  MaxResets = 2
  WIDTH = 6
  HEIGHT = 5
  Corners = {0, 1, 2, 5, 6}
  Centres = {2, 4}
  Radii = {0, 1, 2, 3}
  SHORT = 26
INVARIANTS
  StatisticsOfWindow
  SearchIsSound
  WaitsLongEnough
  MeasurementsKept
  ServosAsSet
  BlocksHold
  ControllerAgrees
  DrawsTheShape
PROPERTY
  CrossesBand
CHECK_DEADLOCK FALSE

SPECIFICATION Spec
CONSTANTS
  Codes <- MCCodes
  Bits = 5
  FamilyBits = 2
  MaxLost = 1
PROPERTY AlarmsEnd
CHECK_DEADLOCK FALSE

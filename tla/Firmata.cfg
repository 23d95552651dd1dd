SPECIFICATION Spec
CONSTANTS
 Parts = {"wire", "board", "serial"}
 MaxMessages = 4
 Messages <- MCMessages
 BufferSize = 5
 Commands = {"sysex"}
 MaxStream = 1
 MaxReconnects = 1
 TOTAL_PINS = 3
 PortPinCount = 2
 MAX_SERVOS = 2
 I2C_MAX_QUERIES = 2
 Digital = {0, 1, 2}
 Analog = {2}
 Pwm = {1}
 I2CPins = {2}
 Ignored = {}
 NoServo = 255
 Requests <- MCRequests
 Addresses = {1, 2}
 Intervals = {1, 2}
 MaxFlips = 1
 MaxLate = 2
 HwPorts = {"Serial1"}
 SwPorts = {"SW_SERIAL0", "SW_SERIAL1"}
 MAX_SERIAL_PORTS = 3
 Limits = {0, 1}
 MaxWaiting = 1
 MaxSerialMessages = 6
INVARIANTS HostKnowsInputs ConfigAgrees ServosExclusive ReadsAsAsked
PROPERTY DeliversWhole
CHECK_DEADLOCK FALSE

--------------------------- MODULE StandardFirmata ---------------------------
(***************************************************************************)
(* Firmata/examples/StandardFirmata: the sketch that makes a board the     *)
(* slave of a host.  The loop reports changed inputs, handles what has     *)
(* come in, and samples; a message is one call of a callback, which        *)
(* FirmataWire shows to be what the host has sent.                         *)
(*                                                                         *)
(* A callback is an operator from the state of the board to the next one.  *)
(* The value of a port is the set of its pins that are high.               *)
(***************************************************************************)
EXTENDS Integers, Sequences, FiniteSets, SequencesExt

CONSTANTS
    TOTAL_PINS, PortPinCount,                   \* 8 pins in a port
    MAX_SERVOS, I2C_MAX_QUERIES,
    Digital, Analog, Pwm, I2CPins, Ignored,     \* Boards.h: IS_PIN_DIGITAL, ...
    NoServo,                                    \* 255
    Requests,                                   \* <<pin, mode>>: modes the host sets
    Addresses,                                  \* I2C devices
    Intervals,                                  \* sampling intervals
    MaxMessages, MaxFlips, MaxLate              \* bounds

Pins == 0 .. TOTAL_PINS - 1
PortOf(pin) == pin \div PortPinCount
Ports == {PortOf(pin) : pin \in Pins}
PinsOf(port) == {pin \in Digital : PortOf(pin) = port}

ASSUME PinAssumption ==
    /\ {TOTAL_PINS, PortPinCount, MAX_SERVOS} \subseteq Nat \ {0} /\ I2C_MAX_QUERIES \in Nat
    /\ Digital \cup Analog \cup Pwm \cup I2CPins \cup Ignored \subseteq Pins
    /\ NoServo \notin Pins \cup 0 .. MAX_SERVOS - 1 /\ Intervals \subseteq Nat

\* The host asks for modes a pin has (the answer to a capability query lists them).
Capable(pin, mode) == CASE mode = "ANALOG" -> pin \in Analog
                        [] mode = "PWM" -> pin \in Pwm
                        [] mode = "I2C" -> pin \in I2CPins
                        [] OTHER -> mode \in {"INPUT", "PULLUP", "OUTPUT", "SERVO"} /\ pin \in Digital
ASSUME RequestsAssumption == \A r \in Requests : Capable(r[1], r[2])

VARIABLES board,      \* the sketch's variables, the pins, and what the host was told of the ports
          level,      \* pins that are driven high from outside
          phase,      \* which part of loop() comes next
          late,       \* currentMillis - previousMillis
          fresh,      \* history: no input and no message since the last check of the inputs
          asked,      \* history: the I2C reads the host has asked for and has not stopped
          adrift,     \* history: a stop of no such read, or a reset, has left other reads than those
          messages, flips
boardVars == <<board, level, phase, late, fresh, asked, adrift, messages, flips>>

-----------------------------------------------------------------------------
\* Arduino core of an AVR: direction and output latch of a pin.
PinMode(b, pin, m) ==
    [b EXCEPT !.hw[pin] = [out |-> m = "OUTPUT", high |-> IF m = "OUTPUT" THEN @.high ELSE m = "INPUT_PULLUP"]]
DigitalWrite(b, pin, high) == [b EXCEPT !.hw[pin].high = high]

AttachServo(b, pin) ==
    IF b.servoCount >= MAX_SERVOS THEN b
    ELSE LET slot == IF b.detached # <<>> THEN b.detached[Len(b.detached)] ELSE b.servoCount
             t == IF b.detached # <<>> THEN [b EXCEPT !.detached = Front(@)] ELSE [b EXCEPT !.servoCount = @ + 1]
         IN PinMode([t EXCEPT !.servoPinMap[pin] = slot, !.servos[slot] = pin], pin, "OUTPUT")

\* Mutant: the index of the detached servo stays with its pin.
DetachServoKeepsMap(b, pin) ==
    LET slot == b.servoPinMap[pin]
        t == [b EXCEPT !.servos[slot] = NoServo]
    IN IF b.servoCount = 0 THEN t
       ELSE IF slot = b.servoCount THEN [t EXCEPT !.servoCount = @ - 1]
       ELSE [t EXCEPT !.detached = Append(@, slot)]

\* No index equals servoCount, so it is never counted down.
DetachServo(b, pin) ==
    LET slot == b.servoPinMap[pin]
        t == [b EXCEPT !.servos[slot] = NoServo, !.servoPinMap[pin] = NoServo]
    IN IF b.servoCount = 0 THEN t
       ELSE IF slot = b.servoCount THEN [t EXCEPT !.servoCount = @ - 1]
       ELSE [t EXCEPT !.detached = Append(@, slot)]

HasServo(b, pin) == b.servoPinMap[pin] # NoServo /\ b.servos[b.servoPinMap[pin]] # NoServo

DisableI2CPins(b) == [b EXCEPT !.i2c = FALSE, !.query = <<>>]

OutputPort(b, port, value, force) ==
    LET v == value \cap b.inputs IN
    IF force \/ b.previous[port] # v THEN [b EXCEPT !.told[port] = v, !.previous[port] = v] ELSE b

ReadPort(b, port, lev) == lev \cap b.inputs \cap PinsOf(port)

CheckDigitalInputs(b, lev) ==
    LET changed == {port \in Ports : b.report[port] /\ b.previous[port] # ReadPort(b, port, lev)}
        Told(values) == [port \in Ports |-> IF port \in changed THEN ReadPort(b, port, lev) ELSE values[port]]
    IN [b EXCEPT !.told = Told(@), !.previous = Told(@)]

ReportAnalogCallback(b, pin, on) ==
    IF pin \notin Analog THEN b ELSE [b EXCEPT !.analogReport = IF on THEN @ \cup {pin} ELSE @ \ {pin}]

-----------------------------------------------------------------------------
Configured(b, pin, mode) == [b EXCEPT !.mode[pin] = IF @ = "IGNORE" THEN @ ELSE mode]

\* The switch at the end of setPinModeCallback(): a mode the pin has not got leaves the old one.
EnterMode(b, pin, mode) ==
    CASE mode = "ANALOG" /\ pin \in Analog ->
            Configured(IF pin \in Digital THEN PinMode(b, pin, "INPUT") ELSE b, pin, mode)
      [] mode = "INPUT" /\ pin \in Digital -> Configured(PinMode(b, pin, "INPUT"), pin, mode)
      [] mode = "PULLUP" /\ pin \in Digital ->
            [Configured(PinMode(b, pin, "INPUT_PULLUP"), pin, mode) EXCEPT !.state[pin] = 1]
      [] mode = "OUTPUT" /\ pin \in Digital ->
            Configured(PinMode(IF b.mode[pin] = "PWM" THEN DigitalWrite(b, pin, FALSE) ELSE b, pin, "OUTPUT"), pin, mode)
      [] mode = "PWM" /\ pin \in Pwm -> Configured(DigitalWrite(PinMode(b, pin, "OUTPUT"), pin, FALSE), pin, mode)
      [] mode = "SERVO" /\ pin \in Digital ->
            LET t == Configured(b, pin, mode) IN IF HasServo(t, pin) THEN t ELSE AttachServo(t, pin)
      [] mode = "I2C" /\ pin \in I2CPins -> Configured(b, pin, mode)
      [] OTHER -> b

\* Mutant: a pin that becomes an output is still reported as an input.
SetPinModeKeepsInput(b, pin, mode) ==
    LET b1 == IF b.mode[pin] = "I2C" /\ b.i2c /\ mode # "I2C" THEN DisableI2CPins(b) ELSE b
        b2 == IF pin \in Digital /\ mode # "SERVO" /\ HasServo(b1, pin) THEN DetachServo(b1, pin) ELSE b1
        b3 == IF pin \in Analog THEN ReportAnalogCallback(b2, pin, mode = "ANALOG") ELSE b2
        b4 == IF pin \in Digital /\ mode \in {"INPUT", "PULLUP"} THEN [b3 EXCEPT !.inputs = @ \cup {pin}] ELSE b3
    IN IF b.mode[pin] = "IGNORE" THEN b ELSE EnterMode([b4 EXCEPT !.state[pin] = 0], pin, mode)

SetPinModeCallback(b, pin, mode) ==
    LET b1 == IF b.mode[pin] = "I2C" /\ b.i2c /\ mode # "I2C" THEN DisableI2CPins(b) ELSE b
        b2 == IF pin \in Digital /\ mode # "SERVO" /\ HasServo(b1, pin) THEN DetachServo(b1, pin) ELSE b1
        b3 == IF pin \in Analog THEN ReportAnalogCallback(b2, pin, mode = "ANALOG") ELSE b2
        b4 == IF pin \notin Digital THEN b3
              ELSE [b3 EXCEPT !.inputs = IF mode \in {"INPUT", "PULLUP"} THEN @ \cup {pin} ELSE @ \ {pin}]
    IN IF b.mode[pin] = "IGNORE" THEN b ELSE EnterMode([b4 EXCEPT !.state[pin] = 0], pin, mode)

SetPinValueCallback(b, pin, value) ==
    IF pin \in Digital /\ b.mode[pin] = "OUTPUT"
    THEN DigitalWrite([b EXCEPT !.state[pin] = value], pin, value # 0) ELSE b

\* A pin in servo mode that got no servo: servos[255] is behind the array.
AnalogWriteCallback(b, pin, value) ==
    CASE b.mode[pin] = "SERVO" -> [b EXCEPT !.state[pin] = value, !.stray = pin \in Digital /\ b.servoPinMap[pin] = NoServo]
      [] b.mode[pin] = "PWM"   -> DigitalWrite([b EXCEPT !.state[pin] = value], pin, value # 0)
      [] OTHER -> b

\* Outputs take the value; an input that is written high gets its pull-up.
DigitalWriteCallback(b, port, value) ==
    LET outs == {pin \in PinsOf(port) : b.mode[pin] = "OUTPUT"}
        ins == {pin \in PinsOf(port) : b.mode[pin] = "INPUT"}
        pulled == {pin \in ins \cap value : b.state[pin] # 1}
    IN [b EXCEPT !.state = [pin \in Pins |-> IF pin \in outs \cup ins THEN IF pin \in value THEN 1 ELSE 0 ELSE @[pin]],
                 !.hw = [pin \in Pins |-> CASE pin \in outs -> [@[pin] EXCEPT !.high = pin \in value]
                                            [] pin \in pulled -> [out |-> FALSE, high |-> TRUE]
                                            [] OTHER -> @[pin]]]

\* Mutant: the port is taken to be as the host knows it already.
ReportDigitalUnforced(b, port, on, lev) ==
    LET t == [b EXCEPT !.report[port] = on] IN
    IF on THEN OutputPort(t, port, ReadPort(t, port, lev), FALSE) ELSE t

ReportDigitalCallback(b, port, on, lev) ==
    LET t == [b EXCEPT !.report[port] = on] IN
    IF on THEN OutputPort(t, port, ReadPort(t, port, lev), TRUE) ELSE t

\* The loops over the pins: the board when the first n of them are done.
EnablePin(b, pin) == IF pin \in I2CPins THEN SetPinModeCallback(b, pin, "I2C") ELSE b
EnableI2CPins(b) ==
    LET done[n \in 0 .. TOTAL_PINS] == IF n = 0 THEN b ELSE EnablePin(done[n - 1], n - 1)
    IN [done[TOTAL_PINS] EXCEPT !.i2c = TRUE]

ServoConfig(b, pin) ==
    IF pin \notin Digital THEN b
    ELSE SetPinModeCallback(AttachServo(IF HasServo(b, pin) THEN DetachServo(b, pin) ELSE b, pin), pin, "SERVO")

I2CReadContinuously(b, addr) ==
    IF Len(b.query) >= I2C_MAX_QUERIES THEN b ELSE [b EXCEPT !.query = Append(@, addr)]

\* Mutant: the reads behind the one that stops are lost.
StopReadingCuts(b, addr) ==
    LET hits == {i \in 1 .. Len(b.query) : b.query[i] = addr}
        i == IF hits = {} THEN 1 ELSE CHOOSE i \in hits : \A j \in hits : i <= j
    IN [b EXCEPT !.query = IF Len(@) <= 1 THEN <<>> ELSE SubSeq(@, 1, i - 1)]

\* The only read stops whatever its address; of several the first, if none has the address.
I2CStopReading(b, addr) ==
    LET hits == {i \in 1 .. Len(b.query) : b.query[i] = addr}
        i == IF hits = {} THEN 1 ELSE CHOOSE i \in hits : \A j \in hits : i <= j
    IN [b EXCEPT !.query = IF Len(@) <= 1 THEN <<>> ELSE RemoveAt(@, i)]

ResetPin(b, pin) ==
    LET t == IF pin \in Analog THEN SetPinModeCallback(b, pin, "ANALOG")
             ELSE IF pin \in Digital THEN SetPinModeCallback(b, pin, "OUTPUT") ELSE b
    IN [t EXCEPT !.servoPinMap[pin] = NoServo]

SystemResetCallback(b) ==
    LET b1 == IF b.i2c THEN DisableI2CPins(b) ELSE b
        b2 == [b1 EXCEPT !.report = [port \in Ports |-> FALSE], !.inputs = {}, !.previous = [port \in Ports |-> {}]]
        done[n \in 0 .. TOTAL_PINS] == IF n = 0 THEN b2 ELSE ResetPin(done[n - 1], n - 1)
    IN [done[TOTAL_PINS] EXCEPT !.analogReport = {}, !.detached = <<>>, !.servoCount = 0]

-----------------------------------------------------------------------------
PowerOn == [mode |-> [pin \in Pins |-> IF pin \in Ignored THEN "IGNORE" ELSE "INPUT"],
            state |-> [pin \in Pins |-> 0], hw |-> [pin \in Pins |-> [out |-> FALSE, high |-> FALSE]],
            report |-> [port \in Ports |-> FALSE], previous |-> [port \in Ports |-> {}], inputs |-> {},
            analogReport |-> {}, servoPinMap |-> [pin \in Pins |-> 0], detached |-> <<>>, servoCount |-> 0,
            servos |-> [slot \in 0 .. MAX_SERVOS - 1 |-> NoServo], i2c |-> FALSE, query |-> <<>>,
            interval |-> 1, told |-> [port \in Ports |-> {}], stray |-> FALSE]

BoardInit == /\ board = SystemResetCallback(PowerOn)
             /\ level = {} /\ phase = "check" /\ late = 0 /\ fresh = FALSE /\ asked = <<>> /\ adrift = FALSE
             /\ messages = 0 /\ flips = 0

Check == /\ phase = "check" /\ phase' = "process"
         /\ board' = CheckDigitalInputs(board, level)
         /\ fresh' = TRUE
         /\ UNCHANGED <<level, late, asked, adrift, messages, flips>>

\* A message of the host is handled while loop() empties the stream.
Handle(b) == /\ phase = "process" /\ messages < MaxMessages /\ ~board.stray
             /\ messages' = messages + 1
             /\ board' = b
             /\ fresh' = FALSE
             /\ UNCHANGED <<level, phase, late, flips>>
Quietly(b) == Handle(b) /\ UNCHANGED <<asked, adrift>>

\* A pin of the bus in another mode: the host knows that all reads stop.
StopsReads(r) == board.mode[r[1]] = "I2C" /\ board.i2c /\ r[2] # "I2C"
ReadsAfter(r) == /\ asked' = IF StopsReads(r) THEN <<>> ELSE asked
                 /\ adrift' = (adrift /\ ~StopsReads(r))
OnPinMode == \E r \in Requests : Handle(SetPinModeCallback(board, r[1], r[2])) /\ ReadsAfter(r)
OnPinValue == \E pin \in Pins, v \in {0, 1} : Quietly(SetPinValueCallback(board, pin, v))
OnAnalog == \E pin \in Pins : Quietly(AnalogWriteCallback(board, pin, 1))
OnDigital == \E port \in Ports : \E v \in SUBSET PinsOf(port) : Quietly(DigitalWriteCallback(board, port, v))
OnReportAnalog == \E pin \in Analog, on \in BOOLEAN : Quietly(ReportAnalogCallback(board, pin, on))
OnReportDigital == \E port \in Ports, on \in BOOLEAN : Quietly(ReportDigitalCallback(board, port, on, level))
OnServoConfig == \E r \in Requests :
    r[2] = "SERVO" /\ Handle(ServoConfig(board, r[1])) /\ ReadsAfter(r)
OnI2CConfig == /\ ~board.i2c /\ Quietly(EnableI2CPins(board))
\* A read is taken whether the bus is on or off; "too many queries" is told to the host.
OnI2CRead == \E addr \in Addresses :
    /\ Handle(I2CReadContinuously(board, addr))
    /\ asked' = IF Len(board.query) < I2C_MAX_QUERIES THEN Append(asked, addr) ELSE asked
    /\ UNCHANGED adrift
\* A stop that names no read the host has asked for stops one nevertheless.
OnI2CStop == \E addr \in Addresses :
    /\ Handle(I2CStopReading(board, addr))
    /\ \/ \E i \in 1 .. Len(asked) :
             /\ asked[i] = addr /\ \A j \in 1 .. i - 1 : asked[j] # addr
             /\ asked' = RemoveAt(asked, i) /\ UNCHANGED adrift
       \/ /\ \A i \in 1 .. Len(asked) : asked[i] # addr
          /\ adrift' = (adrift \/ board.query # <<>>) /\ UNCHANGED asked
OnSamplingInterval == \E n \in Intervals : Quietly([board EXCEPT !.interval = n])
\* Reads of a bus that is off outlive a reset.
OnSystemReset == /\ Handle(SystemResetCallback(board)) /\ asked' = <<>>
                 /\ adrift' = (~board.i2c /\ board.query # <<>>)

EndInput == /\ phase = "process" /\ phase' = "sample"
            /\ UNCHANGED <<board, level, late, fresh, asked, adrift, messages, flips>>

\* One interval is made up for in every pass of the loop.
Sample == /\ phase = "sample" /\ phase' = "check"
          /\ late' = IF late > board.interval THEN late - board.interval ELSE late
          /\ UNCHANGED <<board, level, fresh, asked, adrift, messages, flips>>

Tick == /\ late < MaxLate /\ late' = late + 1
        /\ UNCHANGED <<board, level, phase, fresh, asked, adrift, messages, flips>>

Flip == /\ flips < MaxFlips /\ flips' = flips + 1
        /\ \E pin \in Digital : level' = IF pin \in level THEN level \ {pin} ELSE level \cup {pin}
        /\ fresh' = FALSE
        /\ UNCHANGED <<board, phase, late, asked, adrift, messages>>

BoardNext == \/ Check \/ EndInput \/ Sample \/ Tick \/ Flip
             \/ OnPinMode \/ OnPinValue \/ OnAnalog \/ OnDigital \/ OnReportAnalog \/ OnReportDigital
             \/ OnServoConfig \/ OnI2CConfig \/ OnI2CRead \/ OnI2CStop \/ OnSamplingInterval \/ OnSystemReset
-----------------------------------------------------------------------------
\* The host's picture of the inputs: of a port that is reported, it has been told what the
\* sketch believes it has, and after a check of the inputs that is what the pins are at
\* (outputPort, checkDigitalInputs, reportDigitalCallback, systemResetCallback).
HostKnowsInputs ==
    \A port \in Ports : board.report[port] =>
        /\ board.told[port] = board.previous[port]
        /\ fresh => board.told[port] = ReadPort(board, port, level)

\* A host that asks for modes a pin has: the mode, the mask of reported inputs and the
\* direction of the pin agree after any sequence of messages (setPinModeCallback).
ConfigAgrees ==
    \A pin \in Digital \ Ignored :
        /\ board.mode[pin] \in {"INPUT", "PULLUP"} <=> pin \in board.inputs
        /\ board.mode[pin] \in {"INPUT", "PULLUP", "ANALOG"} => ~board.hw[pin].out
        /\ board.mode[pin] \in {"OUTPUT", "PWM"} => board.hw[pin].out
        /\ HasServo(board, pin) => board.mode[pin] = "SERVO"

\* No two pins share a servo, each has the one that is attached to it, and an index waits
\* to be used again at most once (attachServo, detachServo).
ServosExclusive ==
    LET used == {board.servoPinMap[pin] : pin \in Pins} \ {NoServo}
        free == {board.detached[i] : i \in 1 .. Len(board.detached)}
    IN /\ \A pin \in Pins : board.servoPinMap[pin] # NoServo => board.servos[board.servoPinMap[pin]] = pin
       /\ Cardinality(free) = Len(board.detached) /\ used \cap free = {}
       /\ used \cup free = 0 .. board.servoCount - 1

\* The reads that are repeated are those asked for and not stopped, through resets and pins
\* that are put to another use; from a stop of a read that was not asked for, and from a reset
\* that finds reads of a bus that is off, until all reads stop, they may be others
\* (sysexCallback, disableI2CPins).
QueriesAsAsked == ~adrift => board.query = asked

(* Not true of this code (README, known disagreements). *)

\* Lines 562-563: "determine which device to stop reading and remove it's data from the array";
\* if no entry has the address, the first goes, and the only one in any case (lines 557-568).
\* Line 707: a reset is to "initialize a defalt state"; reads asked for before I2C_CONFIG stay
\* (lines 531-552, 714).
OnlyAskedReads == board.query = asked

\* Line 731 says of the reset: "sets the output to 0".
ResetClearsOutputs == [][OnSystemReset => \A pin \in Digital \ (Analog \cup Ignored) : ~board'.hw[pin].high]_boardVars

\* Line 126: "reuse indexes of detached servos until all have been reallocated".
ServosReused ==
    LET servoPins == {pin \in Digital \ Ignored : board.mode[pin] = "SERVO"} IN
    Cardinality(servoPins) <= MAX_SERVOS => \A pin \in servoPins : HasServo(board, pin)
=============================================================================

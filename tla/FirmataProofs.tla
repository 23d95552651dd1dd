--------------------------- MODULE FirmataProofs ---------------------------
(***************************************************************************)
(* Proofs about the board a host commands: for every set of pins, ports,   *)
(* servos and queries, the sketch believes of its pins what they are, the  *)
(* host knows its inputs, and what is read again and again is what the     *)
(* host has asked for.                                                     *)
(*                                                                         *)
(* A callback is about one pin.  Sound says of each pin that its mode, the *)
(* masks, the pin itself and its servo agree, so a callback has to be      *)
(* looked at for that pin and for what it leaves of the others (Keeps).    *)
(* The loops over pins, of enableI2CPins() and systemResetCallback(), keep *)
(* it round by round.                                                      *)
(*                                                                         *)
(* On the wire, the parser is read to the end of the stream: AtEndAppend   *)
(* adds a byte to what was read, and what the bytes of a message leave in  *)
(* the parser is followed byte by byte, from any state it may be in        *)
(* outside a sysex message.                                                *)
(***************************************************************************)
EXTENDS FirmataWire, StandardFirmata, SerialFirmata, NatLemmas, SequenceTheorems

-----------------------------------------------------------------------------
(* The board. *)

Slots == 0 .. MAX_SERVOS - 1
Modes == {"IGNORE", "INPUT", "PULLUP", "OUTPUT", "ANALOG", "PWM", "SERVO", "I2C"}
Boards == [mode : [Pins -> Modes], state : [Pins -> {0, 1}], hw : [Pins -> [out : BOOLEAN, high : BOOLEAN]],
           report : [Ports -> BOOLEAN], previous : [Ports -> SUBSET Pins], inputs : SUBSET Digital,
           analogReport : SUBSET Analog, servoPinMap : [Pins -> Slots \cup {NoServo}],
           detached : Seq(Slots), servoCount : 0 .. MAX_SERVOS, servos : [Slots -> Pins \cup {NoServo}],
           i2c : BOOLEAN, query : Seq(Addresses), interval : Nat, told : [Ports -> SUBSET Pins],
           stray : BOOLEAN]

\* An index of a servo belongs to one pin or waits at one place to be used again.
Exclusive(b) ==
    /\ \A p \in Pins : b.servoPinMap[p] # NoServo =>
          b.servos[b.servoPinMap[p]] = p /\ b.servoPinMap[p] \in 0 .. b.servoCount - 1
    /\ \A i, j \in 1 .. Len(b.detached) : b.detached[i] = b.detached[j] => i = j
    /\ \A i \in 1 .. Len(b.detached) :
          b.detached[i] \in 0 .. b.servoCount - 1 /\ \A p \in Pins : b.servoPinMap[p] # b.detached[i]
    /\ \A s \in 0 .. b.servoCount - 1 :
          (\E p \in Pins : b.servoPinMap[p] = s) \/ (\E i \in 1 .. Len(b.detached) : b.detached[i] = s)

SameServos(b, c) == /\ c.servoPinMap = b.servoPinMap /\ c.servos = b.servos
                    /\ c.detached = b.detached /\ c.servoCount = b.servoCount
SameReports(b, c) == c.report = b.report /\ c.previous = b.previous /\ c.told = b.told
SameReads(b, c) == c.i2c = b.i2c /\ c.query = b.query
SameOthers(b, c, pin) == \A q \in Pins : q # pin => c.hw[q] = b.hw[q]

\* All that is known of another pin than the one a callback is about stays true.
Keeps(b, c, pin) ==
    \A q \in Pins \ {pin} : /\ c.mode[q] = b.mode[q] /\ c.hw[q] = b.hw[q]
                            /\ q \in c.inputs <=> q \in b.inputs
                            /\ c.servoPinMap[q] = b.servoPinMap[q]
                            /\ HasServo(c, q) => HasServo(b, q)

\* disableI2CPins() forgets the queries and nothing else.
LEMMA Disabled ==
  ASSUME NEW b \in Boards
  PROVE  /\ DisableI2CPins(b) \in Boards
         /\ SameServos(b, DisableI2CPins(b)) /\ SameReports(b, DisableI2CPins(b))
         /\ DisableI2CPins(b).mode = b.mode /\ DisableI2CPins(b).hw = b.hw
         /\ DisableI2CPins(b).inputs = b.inputs
         /\ DisableI2CPins(b).i2c = FALSE /\ DisableI2CPins(b).query = <<>>
<1> DEFINE none == <<>>
           c == [b EXCEPT !.i2c = FALSE, !.query = none]
<1>1. none \in Seq(Addresses)
  OBVIOUS
<1> HIDE DEF none
<1>2. c \in Boards
  BY <1>1 DEF Boards
<1>3. /\ SameServos(b, c) /\ SameReports(b, c) /\ c.mode = b.mode /\ c.hw = b.hw
      /\ c.inputs = b.inputs /\ c.i2c = FALSE /\ c.query = none
  BY DEF Boards, SameServos, SameReports
<1> QED
  BY <1>2, <1>3 DEF DisableI2CPins, none

\* detachServo(): the index goes to the free ones, whatever else is known of other pins.
LEMMA Detached ==
  ASSUME NEW b \in Boards, NEW pin \in Pins, HasServo(b, pin), NEW c, c = DetachServo(b, pin)
  PROVE  /\ c \in Boards /\ Keeps(b, c, pin) /\ SameReports(b, c) /\ SameReads(b, c)
         /\ c.mode = b.mode /\ c.hw = b.hw /\ c.inputs = b.inputs /\ c.servoPinMap[pin] = NoServo
         /\ Exclusive(b) => Exclusive(c)
<1> DEFINE slot == b.servoPinMap[pin]
           t == [b EXCEPT !.servos[slot] = NoServo, !.servoPinMap[pin] = NoServo]
           u == [t EXCEPT !.servoCount = @ - 1]
           v == [t EXCEPT !.detached = Append(@, slot)]
<1>1. slot \in Slots /\ slot # NoServo
  BY PinAssumption DEF Boards, HasServo, Slots
<1>2. t \in Boards
  BY <1>1 DEF Boards
<1>3. /\ SameReports(b, t) /\ SameReads(b, t) /\ t.mode = b.mode /\ t.hw = b.hw /\ t.inputs = b.inputs
      /\ t.servoPinMap = [b.servoPinMap EXCEPT ![pin] = NoServo]
      /\ t.servos = [b.servos EXCEPT ![slot] = NoServo]
      /\ t.detached = b.detached /\ t.servoCount = b.servoCount
  BY DEF Boards, SameReports, SameReads
<1> HIDE DEF t
<1>4. c = IF b.servoCount = 0 THEN t ELSE IF slot = b.servoCount THEN u ELSE v
  BY DEF DetachServo, t
<1>5. ASSUME b.servoCount # 0, slot = b.servoCount PROVE u \in Boards
  <2>1. t.servoCount - 1 \in 0 .. MAX_SERVOS
    BY <1>1, <1>3, <1>5, PinAssumption DEF Slots
  <2> QED
    BY <1>2, <2>1 DEF Boards
<1>6. v \in Boards
  <2>1. Append(t.detached, slot) \in Seq(Slots)
    BY <1>1, <1>2 DEF Boards
  <2> QED
    BY <1>2, <2>1 DEF Boards
<1>7. /\ SameReports(t, u) /\ SameReads(t, u) /\ u.mode = t.mode /\ u.hw = t.hw /\ u.inputs = t.inputs
      /\ u.servoPinMap = t.servoPinMap /\ u.servos = t.servos
  BY <1>2 DEF Boards, SameReports, SameReads
<1>8. /\ SameReports(t, v) /\ SameReads(t, v) /\ v.mode = t.mode /\ v.hw = t.hw /\ v.inputs = t.inputs
      /\ v.servoPinMap = t.servoPinMap /\ v.servos = t.servos
      /\ v.detached = Append(t.detached, slot) /\ v.servoCount = t.servoCount
  BY <1>2 DEF Boards, SameReports, SameReads
<1> HIDE DEF u, v
<1>9. /\ c \in Boards /\ SameReports(b, c) /\ SameReads(b, c)
      /\ c.mode = b.mode /\ c.hw = b.hw /\ c.inputs = b.inputs
      /\ c.servoPinMap = [b.servoPinMap EXCEPT ![pin] = NoServo]
      /\ c.servos = [b.servos EXCEPT ![slot] = NoServo]
  BY <1>2, <1>3, <1>4, <1>5, <1>6, <1>7, <1>8 DEF SameReports, SameReads
<1>10. b.servoPinMap \in [Pins -> Slots \cup {NoServo}] /\ b.servos \in [Slots -> Pins \cup {NoServo}]
       /\ b.detached \in Seq(Slots) /\ b.servoCount \in Nat
  BY DEF Boards
<1>11. c.servoPinMap[pin] = NoServo
  BY <1>9, <1>10
<1>12. Keeps(b, c, pin)
  BY <1>1, <1>9, <1>10 DEF Keeps, HasServo
<1>13. ASSUME Exclusive(b) PROVE Exclusive(c)
  <2>1. c = v
    BY <1>1, <1>4, <1>10, <1>13 DEF Exclusive
  <2>2. /\ c.detached = Append(b.detached, slot) /\ c.servoCount = b.servoCount
    BY <2>1, <1>8, <1>3
  <2> DEFINE n == Len(b.detached)
  <2>3. /\ n \in Nat /\ Len(c.detached) = n + 1 /\ c.detached[n + 1] = slot
        /\ \A i \in 1 .. n : c.detached[i] = b.detached[i]
    BY <1>10, <2>2
  <2>4. \A p \in Pins : p # pin => c.servoPinMap[p] = b.servoPinMap[p] /\ b.servoPinMap[p] # slot
    BY <1>1, <1>9, <1>10, <1>13 DEF Exclusive
  <2>5. slot \in 0 .. b.servoCount - 1
    BY <1>1, <1>13 DEF Exclusive
  <2>6. \A i \in 1 .. n : b.detached[i] # slot
    BY <1>13 DEF Exclusive
  <2> HIDE DEF n, slot
  <2>7. \A p \in Pins : c.servoPinMap[p] # NoServo =>
          c.servos[c.servoPinMap[p]] = p /\ c.servoPinMap[p] \in 0 .. c.servoCount - 1
    BY <1>9, <1>10, <1>11, <1>13, <2>2, <2>4 DEF Exclusive
  <2>8. \A i, j \in 1 .. n + 1 : c.detached[i] = c.detached[j] => i = j
    <3>1. \A i \in 1 .. n + 1 : i \in 1 .. n \/ i = n + 1
      BY <2>3
    <3>2. \A i, j \in 1 .. n : b.detached[i] = b.detached[j] => i = j
      BY <1>13 DEF Exclusive, n
    <3> QED
      BY <2>3, <2>6, <3>1, <3>2
  <2>9. ASSUME NEW i \in 1 .. n + 1
        PROVE  c.detached[i] \in 0 .. c.servoCount - 1 /\ \A p \in Pins : c.servoPinMap[p] # c.detached[i]
    <3>1. CASE i \in 1 .. n
      <4>1. b.detached[i] \in 0 .. b.servoCount - 1 /\ \A p \in Pins : b.servoPinMap[p] # b.detached[i]
        BY <1>13, <3>1 DEF Exclusive, n
      <4>2. NoServo # b.detached[i]
        BY <1>10, <3>1, PinAssumption DEF Slots, n
      <4> QED
        BY <1>11, <2>2, <2>3, <2>4, <3>1, <4>1, <4>2
    <3>2. CASE i = n + 1
      BY <1>1, <1>11, <2>2, <2>3, <2>4, <2>5, <3>2
    <3> QED
      BY <2>3, <3>1, <3>2
  <2>10. ASSUME NEW s \in 0 .. c.servoCount - 1
         PROVE  (\E p \in Pins : c.servoPinMap[p] = s) \/ (\E i \in 1 .. n + 1 : c.detached[i] = s)
    <3>1. CASE s = slot
      BY <2>3, <3>1
    <3>2. CASE s # slot /\ \E p \in Pins : b.servoPinMap[p] = s
      <4>1. PICK p \in Pins : b.servoPinMap[p] = s
        BY <3>2
      <4>2. p # pin
        BY <3>2, <4>1 DEF slot
      <4> QED
        BY <2>4, <4>1, <4>2
    <3>3. CASE \E i \in 1 .. n : b.detached[i] = s
      BY <2>3, <3>3
    <3> QED
      BY <1>13, <2>2, <3>1, <3>2, <3>3 DEF Exclusive, n
  <2> QED
    BY <2>3, <2>7, <2>8, <2>9, <2>10 DEF Exclusive
<1> QED
  BY <1>9, <1>11, <1>12, <1>13

\* pinMode() of a pin.
LEMMA DirectionSet ==
  ASSUME NEW b \in Boards, NEW pin \in Pins, NEW m \in {"INPUT", "INPUT_PULLUP", "OUTPUT"},
         NEW c, c = PinMode(b, pin, m)
  PROVE  /\ c \in Boards /\ SameServos(b, c) /\ SameReports(b, c) /\ SameReads(b, c)
         /\ c.mode = b.mode /\ c.inputs = b.inputs
         /\ SameOthers(b, c, pin)
         /\ c.hw[pin].out <=> m = "OUTPUT"
<1>1. c \in Boards
  BY DEF Boards, PinMode
<1>2. SameServos(b, c) /\ SameReports(b, c) /\ SameReads(b, c) /\ c.mode = b.mode /\ c.inputs = b.inputs
  BY DEF Boards, PinMode, SameServos, SameReports, SameReads
<1>3. SameOthers(b, c, pin)
  BY DEF Boards, PinMode, SameOthers
<1>4. c.hw[pin].out <=> m = "OUTPUT"
  BY DEF Boards, PinMode
<1> QED
  BY <1>1, <1>2, <1>3, <1>4

\* digitalWrite() to a pin.
LEMMA Written ==
  ASSUME NEW b \in Boards, NEW pin \in Pins, NEW h \in BOOLEAN, NEW c, c = DigitalWrite(b, pin, h)
  PROVE  /\ c \in Boards /\ SameServos(b, c) /\ SameReports(b, c) /\ SameReads(b, c)
         /\ c.mode = b.mode /\ c.inputs = b.inputs
         /\ SameOthers(b, c, pin)
         /\ c.hw[pin].out <=> b.hw[pin].out
<1>1. c \in Boards
  <2>1. [b.hw[pin] EXCEPT !.high = h] \in [out : BOOLEAN, high : BOOLEAN]
    BY DEF Boards
  <2> DEFINE y == [b.hw EXCEPT ![pin].high = h]
  <2>2. y \in [Pins -> [out : BOOLEAN, high : BOOLEAN]]
    BY <2>1 DEF Boards
  <2>3. c = [b EXCEPT !.hw = y]
    BY DEF DigitalWrite
  <2> HIDE DEF y
  <2> QED
    BY <2>2, <2>3 DEF Boards
<1>2. SameServos(b, c) /\ SameReports(b, c) /\ SameReads(b, c) /\ c.mode = b.mode /\ c.inputs = b.inputs
  BY DEF Boards, DigitalWrite, SameServos, SameReports, SameReads
<1>3. SameOthers(b, c, pin)
  BY DEF Boards, DigitalWrite, SameOthers
<1>4. c.hw[pin].out <=> b.hw[pin].out
  BY DEF Boards, DigitalWrite
<1> QED
  BY <1>1, <1>2, <1>3, <1>4

\* The servo of a pin that has none: a free index, or the next one, or none is left.
LEMMA Attached ==
  ASSUME NEW b \in Boards, NEW pin \in Pins, Exclusive(b), ~HasServo(b, pin), NEW c, c = AttachServo(b, pin)
  PROVE  /\ c \in Boards /\ Exclusive(c) /\ Keeps(b, c, pin) /\ SameReports(b, c) /\ SameReads(b, c)
         /\ c.mode = b.mode /\ c.inputs = b.inputs
<1> DEFINE n == Len(b.detached)
           again == b.detached # <<>>
           slot == IF again THEN b.detached[n] ELSE b.servoCount
           t == IF again THEN [b EXCEPT !.detached = Front(@)] ELSE [b EXCEPT !.servoCount = @ + 1]
           u == [t EXCEPT !.servoPinMap[pin] = slot, !.servos[slot] = pin]
<1>1. CASE b.servoCount >= MAX_SERVOS
  BY <1>1 DEF AttachServo, Keeps, SameReports, SameReads
<1>2. CASE ~(b.servoCount >= MAX_SERVOS)
  <2>1. c = PinMode(u, pin, "OUTPUT")
    BY <1>2 DEF AttachServo
  <2>2. b.servoPinMap \in [Pins -> Slots \cup {NoServo}] /\ b.servos \in [Slots -> Pins \cup {NoServo}]
        /\ b.detached \in Seq(Slots) /\ b.servoCount \in Nat
    BY DEF Boards
  <2>3. b.servoPinMap[pin] = NoServo
    BY PinAssumption DEF HasServo, Exclusive
  <2>4. n \in Nat /\ (again => n > 0) /\ (~again => n = 0)
    BY <2>2
  <2>5. /\ t.servoPinMap = b.servoPinMap /\ t.servos = b.servos /\ SameReports(b, t) /\ SameReads(b, t)
        /\ t.mode = b.mode /\ t.inputs = b.inputs /\ t.hw = b.hw
        /\ t.servoCount = IF again THEN b.servoCount ELSE b.servoCount + 1
        /\ t.detached = IF again THEN Front(b.detached) ELSE b.detached
    BY DEF Boards, SameReports, SameReads
  <2>6. t \in Boards
    <3>1. CASE again
      <4>1. Front(b.detached) \in Seq(Slots)
        BY <2>2, <2>4, <3>1 DEF Front
      <4> QED
        BY <3>1, <4>1 DEF Boards
    <3>2. CASE ~again
      <4>1. b.servoCount + 1 \in 0 .. MAX_SERVOS
        BY <1>2, <2>2, PinAssumption
      <4> QED
        BY <3>2, <4>1 DEF Boards
    <3> QED
      BY <3>1, <3>2
  <2>7. /\ slot \in Slots /\ slot \in 0 .. t.servoCount - 1
        /\ \A p \in Pins : b.servoPinMap[p] # slot
    <3>1. CASE again
      BY <2>2, <2>4, <2>5, <3>1 DEF Exclusive
    <3>2. CASE ~again
      <4>1. slot = b.servoCount /\ slot \in Slots
        BY <1>2, <2>2, <3>2, PinAssumption DEF Slots
      <4>2. \A p \in Pins : b.servoPinMap[p] # slot
        BY <2>2, <4>1, PinAssumption DEF Exclusive, Slots
      <4> QED
        BY <2>2, <2>5, <3>2, <4>1, <4>2
    <3> QED
      BY <3>1, <3>2
  <2>8. slot # NoServo
    BY <2>7, PinAssumption DEF Slots
  <2> HIDE DEF t, slot
  <2>9. u \in Boards
    BY <2>6, <2>7 DEF Boards
  <2>10. /\ SameReports(t, u) /\ SameReads(t, u) /\ u.mode = t.mode /\ u.inputs = t.inputs /\ u.hw = t.hw
         /\ u.servoPinMap = [t.servoPinMap EXCEPT ![pin] = slot] /\ u.servos = [t.servos EXCEPT ![slot] = pin]
         /\ u.detached = t.detached /\ u.servoCount = t.servoCount
    BY <2>6 DEF Boards, SameReports, SameReads
  <2> HIDE DEF u
  <2>11. /\ c \in Boards /\ SameReports(b, c) /\ SameReads(b, c) /\ c.mode = b.mode /\ c.inputs = b.inputs
         /\ SameOthers(b, c, pin)
         /\ c.servoPinMap = [b.servoPinMap EXCEPT ![pin] = slot] /\ c.servos = [b.servos EXCEPT ![slot] = pin]
         /\ c.detached = IF again THEN Front(b.detached) ELSE b.detached
         /\ c.servoCount = IF again THEN b.servoCount ELSE b.servoCount + 1
    <3>1. /\ c \in Boards /\ SameServos(u, c) /\ SameReports(u, c) /\ SameReads(u, c)
          /\ c.mode = u.mode /\ c.inputs = u.inputs
          /\ SameOthers(u, c, pin)
      BY <2>1, <2>9, DirectionSet, SMTT(20)
    <3> HIDE DEF again
    <3> QED
      BY <2>5, <2>10, <3>1 DEF SameServos, SameReports, SameReads, SameOthers
  <2>12. c.servoPinMap[pin] = slot /\ c.servos[slot] = pin
         /\ \A p \in Pins : p # pin => c.servoPinMap[p] = b.servoPinMap[p]
         /\ \A x \in Slots : x # slot => c.servos[x] = b.servos[x]
    BY <2>2, <2>7, <2>11
  <2>13. Keeps(b, c, pin)
    BY <2>2, <2>7, <2>8, <2>11, <2>12 DEF Keeps, HasServo, SameOthers
  <2>14. \A p \in Pins : c.servoPinMap[p] # NoServo =>
          c.servos[c.servoPinMap[p]] = p /\ c.servoPinMap[p] \in 0 .. c.servoCount - 1
    <3>1. slot \in 0 .. c.servoCount - 1
      BY <2>5, <2>7, <2>11
    <3>2. ASSUME NEW p \in Pins, p # pin, b.servoPinMap[p] # NoServo
          PROVE  c.servos[b.servoPinMap[p]] = p /\ b.servoPinMap[p] \in 0 .. c.servoCount - 1
      BY <2>2, <2>7, <2>11, <2>12, <3>2 DEF Exclusive
    <3> QED
      BY <2>12, <3>1, <3>2
  <2>15. CASE again
    <3> DEFINE d == Front(b.detached)
    <3>1. /\ c.detached = d /\ Len(d) = n - 1 /\ c.servoCount = b.servoCount
          /\ \A i \in 1 .. n - 1 : d[i] = b.detached[i] /\ i \in 1 .. n /\ d[i] # slot
      <4>1. c.detached = d /\ c.servoCount = b.servoCount
        BY <2>11, <2>15
      <4>2. Len(d) = n - 1 /\ \A i \in 1 .. n - 1 : d[i] = b.detached[i]
        BY <2>2, <2>4, <2>15 DEF Front
      <4>3. slot = b.detached[n] /\ n \in 1 .. n
        BY <2>4, <2>15 DEF slot
      <4> QED
        BY <2>4, <4>1, <4>2, <4>3 DEF Exclusive
    <3> HIDE DEF d
    <3>2. \A i, j \in 1 .. n - 1 : d[i] = d[j] => i = j
      BY <3>1 DEF Exclusive
    <3>3. ASSUME NEW i \in 1 .. n - 1
          PROVE  d[i] \in 0 .. c.servoCount - 1 /\ \A p \in Pins : c.servoPinMap[p] # d[i]
      <4>1. d[i] = b.detached[i] /\ i \in 1 .. n
        BY <3>1
      <4>2. d[i] \in 0 .. b.servoCount - 1 /\ \A p \in Pins : b.servoPinMap[p] # d[i]
        <5>1. b.detached[i] \in 0 .. b.servoCount - 1 /\ \A p \in Pins : b.servoPinMap[p] # b.detached[i]
          BY <4>1 DEF Exclusive
        <5> QED
          BY <4>1, <5>1
      <4> QED
        BY <2>12, <3>1, <4>2
    <3>4. ASSUME NEW x \in 0 .. c.servoCount - 1
          PROVE  (\E p \in Pins : c.servoPinMap[p] = x) \/ (\E i \in 1 .. n - 1 : d[i] = x)
      <4>1. CASE x = slot
        BY <2>12, <4>1
      <4>2. CASE \E p \in Pins : b.servoPinMap[p] = x
        <5>1. x # NoServo
          BY <2>2, <3>1, PinAssumption DEF Boards
        <5> QED
          BY <2>3, <2>12, <4>2, <5>1
      <4>3. CASE x # slot /\ \E i \in 1 .. n : b.detached[i] = x
        <5>1. PICK i \in 1 .. n : b.detached[i] = x
          BY <4>3
        <5>2. i # n
          BY <2>15, <4>3, <5>1 DEF slot
        <5> QED
          BY <2>4, <3>1, <5>1, <5>2
      <4> QED
        BY <3>1, <4>1, <4>2, <4>3 DEF Exclusive
    <3>5. Exclusive(c)
      <4>1. c.detached = d /\ Len(c.detached) = n - 1
        BY <3>1
      <4> QED
        BY <2>14, <3>2, <3>3, <3>4, <4>1 DEF Exclusive
    <3> QED
      BY <2>11, <2>13, <3>5
  <2>16. CASE ~again
    <3>1. c.detached = b.detached /\ c.servoCount = b.servoCount + 1 /\ n = 0 /\ slot = b.servoCount
      BY <2>4, <2>11, <2>16 DEF slot
    <3>2. ASSUME NEW x \in 0 .. c.servoCount - 1 PROVE \E p \in Pins : c.servoPinMap[p] = x
      <4>1. CASE x = slot
        BY <2>12, <4>1
      <4>2. CASE x # slot
        <5>1. x \in 0 .. b.servoCount - 1 /\ x # NoServo
          BY <2>2, <3>1, <4>2, PinAssumption DEF Boards
        <5>2. PICK p \in Pins : b.servoPinMap[p] = x
          BY <3>1, <5>1 DEF Exclusive
        <5> QED
          BY <2>3, <2>12, <5>1, <5>2
      <4> QED
        BY <4>1, <4>2
    <3> QED
      BY <2>11, <2>13, <2>14, <3>1, <3>2 DEF Exclusive
  <2> QED
    BY <2>15, <2>16
<1> QED
  BY <1>1, <1>2

\* A step of EnterMode() that is about nothing but the mode, the state and the direction of a pin.
Turns(b, c, pin) ==
    /\ c \in Boards /\ SameServos(b, c) /\ SameReports(b, c) /\ SameReads(b, c)
    /\ c.inputs = b.inputs /\ SameOthers(b, c, pin)
    /\ \A q \in Pins : q # pin => c.mode[q] = b.mode[q]

\* One turn after another is a turn.
LEMMA TurnsTwice ==
  ASSUME NEW b, NEW c, NEW d, NEW pin, Turns(b, c, pin), Turns(c, d, pin)
  PROVE  Turns(b, d, pin)
  BY DEF Turns, SameServos, SameReports, SameReads, SameOthers

\* A turn of a pin keeps what is known of the others.
LEMMA TurnsKeeps ==
  ASSUME NEW b, NEW c, NEW pin, Turns(b, c, pin)
  PROVE  Keeps(b, c, pin) /\ (Exclusive(b) => Exclusive(c)) /\ \A q \in Pins : HasServo(c, q) <=> HasServo(b, q)
<1>1. SameServos(b, c)
  BY DEF Turns
<1>2. Exclusive(b) => Exclusive(c)
  BY <1>1 DEF Exclusive, SameServos
<1>3. \A q \in Pins : HasServo(c, q) <=> HasServo(b, q)
  BY <1>1 DEF HasServo, SameServos
<1>4. Keeps(b, c, pin)
  BY <1>1, <1>3 DEF Keeps, Turns, SameServos, SameOthers
<1> QED
  BY <1>2, <1>3, <1>4

\* pinMode() is a turn.
LEMMA DirectionTurns ==
  ASSUME NEW b \in Boards, NEW pin \in Pins, NEW m \in {"INPUT", "INPUT_PULLUP", "OUTPUT"}
  PROVE  /\ Turns(b, PinMode(b, pin, m), pin) /\ PinMode(b, pin, m).mode = b.mode
         /\ PinMode(b, pin, m).hw[pin].out <=> m = "OUTPUT"
<1> DEFINE c == PinMode(b, pin, m)
<1>1. c \in Boards /\ SameServos(b, c) /\ SameReports(b, c) /\ SameReads(b, c) /\ c.mode = b.mode
      /\ c.inputs = b.inputs /\ SameOthers(b, c, pin)
  BY DirectionSet
<1>2. c.hw[pin].out <=> m = "OUTPUT"
  BY DirectionSet
<1> QED
  BY <1>1, <1>2 DEF Turns

\* digitalWrite() is a turn that keeps the direction.
LEMMA WriteTurns ==
  ASSUME NEW b \in Boards, NEW pin \in Pins, NEW h \in BOOLEAN
  PROVE  /\ Turns(b, DigitalWrite(b, pin, h), pin) /\ DigitalWrite(b, pin, h).mode = b.mode
         /\ DigitalWrite(b, pin, h).hw[pin].out <=> b.hw[pin].out
<1> DEFINE c == DigitalWrite(b, pin, h)
<1>1. c \in Boards /\ SameServos(b, c) /\ SameReports(b, c) /\ SameReads(b, c) /\ c.mode = b.mode
      /\ c.inputs = b.inputs /\ SameOthers(b, c, pin)
  BY Written
<1>2. c.hw[pin].out <=> b.hw[pin].out
  BY Written
<1> QED
  BY <1>1, <1>2 DEF Turns

\* So is setting the state of a pin.
LEMMA StateTurns ==
  ASSUME NEW b \in Boards, NEW pin \in Pins, NEW v \in {0, 1}, NEW c, c = [b EXCEPT !.state[pin] = v]
  PROVE  Turns(b, c, pin) /\ c.mode = b.mode /\ c.hw = b.hw
  BY DEF Boards, Turns, SameServos, SameReports, SameReads, SameOthers

\* Firmata.setPinMode() is a turn.
LEMMA ModeTurns ==
  ASSUME NEW b \in Boards, NEW pin \in Pins, NEW mode \in Modes, b.mode[pin] # "IGNORE"
  PROVE  /\ Turns(b, Configured(b, pin, mode), pin) /\ Configured(b, pin, mode).mode[pin] = mode
         /\ Configured(b, pin, mode).hw = b.hw
<1> DEFINE c == [b EXCEPT !.mode[pin] = mode]
<1>1. c = Configured(b, pin, mode)
  BY DEF Configured
<1>2. c \in Boards
  BY DEF Boards
<1>3. SameServos(b, c) /\ SameReports(b, c) /\ SameReads(b, c) /\ c.inputs = b.inputs /\ c.hw = b.hw
  BY DEF Boards, SameServos, SameReports, SameReads
<1>4. c.mode[pin] = mode /\ \A q \in Pins : q # pin => c.mode[q] = b.mode[q]
  BY DEF Boards
<1> HIDE DEF c
<1> QED
  BY <1>1, <1>2, <1>3, <1>4 DEF Turns, SameOthers

\* A turn, and the mode that belongs to it.
LEMMA TurnThenMode ==
  ASSUME NEW b, NEW d, NEW pin \in Pins, Turns(b, d, pin), NEW mode \in Modes, d.mode[pin] # "IGNORE"
  PROVE  /\ Turns(b, Configured(d, pin, mode), pin) /\ Configured(d, pin, mode).mode[pin] = mode
         /\ Configured(d, pin, mode).hw = d.hw
<1>1. d \in Boards
  BY DEF Turns
<1> QED
  BY <1>1, ModeTurns, TurnsTwice

\* The end of setPinModeCallback() for a mode the pin has.
LEMMA Entered ==
  ASSUME NEW b \in Boards, NEW pin \in Pins, NEW mode \in Modes, Capable(pin, mode), mode # "SERVO",
         b.mode[pin] # "IGNORE", NEW c, c = EnterMode(b, pin, mode)
  PROVE  /\ Turns(b, c, pin) /\ c.mode[pin] = mode
         /\ pin \in Digital /\ mode \in {"INPUT", "PULLUP", "ANALOG"} => ~c.hw[pin].out
         /\ mode \in {"OUTPUT", "PWM"} => c.hw[pin].out
<1> DEFINE in == PinMode(b, pin, "INPUT")
           up == PinMode(b, pin, "INPUT_PULLUP")
<1>1. /\ Turns(b, in, pin) /\ in.mode = b.mode /\ ~in.hw[pin].out
      /\ Turns(b, up, pin) /\ up.mode = b.mode /\ ~up.hw[pin].out
  <2>1. /\ Turns(b, in, pin) /\ in.mode = b.mode /\ (in.hw[pin].out <=> "INPUT" = "OUTPUT")
    BY DirectionTurns
  <2>2. /\ Turns(b, up, pin) /\ up.mode = b.mode /\ (up.hw[pin].out <=> "INPUT_PULLUP" = "OUTPUT")
    BY DirectionTurns
  <2> HIDE DEF in, up
  <2> QED
    BY <2>1, <2>2
<1> HIDE DEF in, up
<1>2. CASE mode = "ANALOG"
  <2>1. pin \in Analog
    BY <1>2 DEF Capable
  <2>2. c = IF pin \in Digital THEN Configured(in, pin, mode) ELSE Configured(b, pin, mode)
    BY <1>2, <2>1 DEF EnterMode, in
  <2> QED
    BY <1>1, <1>2, <2>2, ModeTurns, TurnThenMode
<1>3. CASE mode = "INPUT"
  <2>1. c = Configured(in, pin, mode)
    BY <1>3 DEF EnterMode, Capable, in
  <2> QED
    BY <1>1, <1>3, <2>1, TurnThenMode
<1>4. CASE mode = "PULLUP"
  <2> DEFINE d == Configured(up, pin, mode)
  <2>1. c = [d EXCEPT !.state[pin] = 1]
    BY <1>4 DEF EnterMode, Capable, up
  <2>2. Turns(b, d, pin) /\ d.mode[pin] = mode /\ d.hw = up.hw
    BY <1>1, TurnThenMode
  <2> HIDE DEF d
  <2>3. Turns(d, c, pin) /\ c.mode = d.mode /\ c.hw = d.hw
    BY <2>1, <2>2, StateTurns DEF Turns
  <2> QED
    BY <1>1, <1>4, <2>2, <2>3, TurnsTwice
<1>5. CASE mode = "OUTPUT"
  <2> DEFINE d == IF b.mode[pin] = "PWM" THEN DigitalWrite(b, pin, FALSE) ELSE b
             e == PinMode(d, pin, "OUTPUT")
  <2>1. c = Configured(e, pin, mode)
    BY <1>5 DEF EnterMode, Capable
  <2>2. Turns(b, d, pin) /\ d.mode = b.mode
    <3>1. Turns(b, b, pin)
      BY DEF Turns, SameServos, SameReports, SameReads, SameOthers
    <3> QED
      BY <3>1, WriteTurns
  <2> HIDE DEF d
  <2>3. d \in Boards
    BY <2>2 DEF Turns
  <2>4. Turns(d, e, pin) /\ e.mode = d.mode /\ (e.hw[pin].out <=> "OUTPUT" = "OUTPUT")
    BY <2>3, DirectionTurns
  <2> HIDE DEF e
  <2>5. Turns(b, e, pin) /\ e.mode = b.mode /\ e.hw[pin].out
    BY <2>2, <2>4, TurnsTwice
  <2> QED
    BY <1>5, <2>1, <2>5, TurnThenMode
<1>6. CASE mode = "PWM"
  <2> DEFINE d == PinMode(b, pin, "OUTPUT")
             e == DigitalWrite(d, pin, FALSE)
  <2>1. c = Configured(e, pin, mode)
    BY <1>6 DEF EnterMode, Capable
  <2>2. Turns(b, d, pin) /\ d.mode = b.mode /\ (d.hw[pin].out <=> "OUTPUT" = "OUTPUT")
    BY DirectionTurns
  <2> HIDE DEF d
  <2>3. d \in Boards
    BY <2>2 DEF Turns
  <2>4. Turns(d, e, pin) /\ e.mode = d.mode /\ (e.hw[pin].out <=> d.hw[pin].out)
    BY <2>3, WriteTurns
  <2> HIDE DEF e
  <2>5. Turns(b, e, pin) /\ e.mode = b.mode /\ e.hw[pin].out
    BY <2>2, <2>4, TurnsTwice
  <2> QED
    BY <1>6, <2>1, <2>5, TurnThenMode
<1>7. CASE mode = "I2C"
  <2>1. c = Configured(b, pin, mode)
    BY <1>7 DEF EnterMode, Capable
  <2> QED
    BY <1>7, <2>1, ModeTurns
<1>8. mode # "IGNORE"
  BY DEF Capable
<1> QED
  BY <1>2, <1>3, <1>4, <1>5, <1>6, <1>7, <1>8 DEF Modes

\* What two steps about one pin keep, both of them keep.
LEMMA KeepsTwice ==
  ASSUME NEW b, NEW c, NEW d, NEW pin, Keeps(b, c, pin), Keeps(c, d, pin)
  PROVE  Keeps(b, d, pin)
  BY DEF Keeps

Config(b, pin) ==
    /\ b.mode[pin] \in {"INPUT", "PULLUP"} <=> pin \in b.inputs
    /\ b.mode[pin] \in {"INPUT", "PULLUP", "ANALOG"} => ~b.hw[pin].out
    /\ b.mode[pin] \in {"OUTPUT", "PWM"} => b.hw[pin].out
    /\ HasServo(b, pin) => b.mode[pin] = "SERVO"

KeptOff(b) == \A pin \in Pins : b.mode[pin] = "IGNORE" <=> pin \in Ignored

\* reportAnalogCallback() touches no more than the mask of analog pins.
LEMMA ReportsAnalog ==
  ASSUME NEW b \in Boards, NEW pin \in Pins, NEW on \in BOOLEAN, NEW c, c = ReportAnalogCallback(b, pin, on)
  PROVE  Turns(b, c, pin) /\ c.mode = b.mode /\ c.hw = b.hw
<1>1. CASE pin \notin Analog
  BY <1>1 DEF ReportAnalogCallback, Turns, SameServos, SameReports, SameReads, SameOthers
<1>2. CASE pin \in Analog
  <2> DEFINE x == IF on THEN b.analogReport \cup {pin} ELSE b.analogReport \ {pin}
  <2>1. c = [b EXCEPT !.analogReport = x] /\ x \subseteq Analog
    BY <1>2 DEF ReportAnalogCallback, Boards
  <2> HIDE DEF x
  <2> QED
    BY <2>1 DEF Boards, Turns, SameServos, SameReports, SameReads, SameOthers
<1> QED
  BY <1>1, <1>2

\* What a callback leaves that sets the mode of a pin: the pin agrees with itself whatever it was
\* before, other pins are as they were, and a bus that loses a pin reads no more.
LEMMA ModeSet ==
  ASSUME NEW b \in Boards, NEW pin \in Pins, NEW mode \in Modes, Capable(pin, mode), KeptOff(b),
         mode # "SERVO" \/ Exclusive(b), NEW c, c = SetPinModeCallback(b, pin, mode)
  PROVE  /\ c \in Boards /\ Keeps(b, c, pin) /\ SameReports(b, c) /\ KeptOff(c)
         /\ Exclusive(b) => Exclusive(c)
         /\ pin \in Digital \ Ignored => Config(c, pin)
         /\ IF b.mode[pin] = "I2C" /\ b.i2c /\ mode # "I2C"
            THEN c.i2c = FALSE /\ c.query = <<>> ELSE SameReads(b, c)
<1> DEFINE stops == b.mode[pin] = "I2C" /\ b.i2c /\ mode # "I2C"
           b1 == IF stops THEN DisableI2CPins(b) ELSE b
           b2 == IF pin \in Digital /\ mode # "SERVO" /\ HasServo(b1, pin) THEN DetachServo(b1, pin) ELSE b1
           b3 == IF pin \in Analog THEN ReportAnalogCallback(b2, pin, mode = "ANALOG") ELSE b2
           in == IF mode \in {"INPUT", "PULLUP"} THEN b3.inputs \cup {pin} ELSE b3.inputs \ {pin}
           b4 == IF pin \notin Digital THEN b3 ELSE [b3 EXCEPT !.inputs = in]
           b5 == [b4 EXCEPT !.state[pin] = 0]
<1>1. CASE b.mode[pin] = "IGNORE"
  <2>1. c = b /\ pin \in Ignored
    BY <1>1 DEF SetPinModeCallback, KeptOff
  <2> QED
    BY <1>1, <2>1 DEF Keeps, SameReports, SameReads
<1>2. CASE b.mode[pin] # "IGNORE"
  <2>1. c = EnterMode(b5, pin, mode)
    BY <1>2 DEF SetPinModeCallback
  <2>2. /\ b1 \in Boards /\ SameServos(b, b1) /\ SameReports(b, b1)
        /\ b1.mode = b.mode /\ b1.hw = b.hw /\ b1.inputs = b.inputs
        /\ IF stops THEN b1.i2c = FALSE /\ b1.query = <<>> ELSE SameReads(b, b1)
    BY Disabled DEF SameServos, SameReports, SameReads
  <2> HIDE DEF stops, b1
  <2>3. Keeps(b, b1, pin) /\ (Exclusive(b) => Exclusive(b1))
    BY <2>2 DEF Keeps, SameServos, HasServo, Exclusive
  <2>4. /\ b2 \in Boards /\ Keeps(b1, b2, pin) /\ SameReports(b1, b2) /\ SameReads(b1, b2)
        /\ b2.mode = b1.mode /\ b2.hw = b1.hw /\ b2.inputs = b1.inputs
        /\ Exclusive(b1) => Exclusive(b2)
        /\ pin \in Digital /\ mode # "SERVO" => ~HasServo(b2, pin)
    <3>1. CASE pin \in Digital /\ mode # "SERVO" /\ HasServo(b1, pin)
      <4>1. b2 = DetachServo(b1, pin)
        BY <3>1
      <4> HIDE DEF b2
      <4>2. /\ b2 \in Boards /\ Keeps(b1, b2, pin) /\ SameReports(b1, b2) /\ SameReads(b1, b2)
            /\ b2.mode = b1.mode /\ b2.hw = b1.hw /\ b2.inputs = b1.inputs /\ b2.servoPinMap[pin] = NoServo
            /\ Exclusive(b1) => Exclusive(b2)
        BY <2>2, <3>1, <4>1, Detached
      <4> QED
        BY <4>2 DEF HasServo
    <3>2. CASE ~(pin \in Digital /\ mode # "SERVO" /\ HasServo(b1, pin))
      <4>1. b2 = b1
        BY <3>2
      <4> HIDE DEF b2
      <4> QED
        BY <2>2, <3>2, <4>1 DEF Keeps, SameReports, SameReads
    <3> QED
      BY <3>1, <3>2
  <2> HIDE DEF b2
  <2>5. Turns(b2, b3, pin) /\ b3.mode = b2.mode /\ b3.hw = b2.hw
    <3>1. CASE pin \in Analog
      <4> DEFINE on == mode = "ANALOG"
      <4>1. b3 = ReportAnalogCallback(b2, pin, on) /\ on \in BOOLEAN
        BY <3>1
      <4> HIDE DEF on, b3
      <4> QED
        BY <2>4, <4>1, ReportsAnalog
    <3>2. CASE pin \notin Analog
      <4>1. b3 = b2
        BY <3>2
      <4> HIDE DEF b3
      <4> QED
        BY <2>4, <4>1 DEF Turns, SameServos, SameReports, SameReads, SameOthers
    <3> QED
      BY <3>1, <3>2
  <2> HIDE DEF b3
  <2>6. Keeps(b2, b3, pin) /\ (Exclusive(b2) => Exclusive(b3)) /\ (HasServo(b3, pin) <=> HasServo(b2, pin))
    BY <2>5, TurnsKeeps
  <2>7. /\ b4 \in Boards /\ SameServos(b3, b4) /\ SameReports(b3, b4) /\ SameReads(b3, b4)
        /\ b4.mode = b3.mode /\ b4.hw = b3.hw /\ \A q \in Pins : q # pin => (q \in b4.inputs <=> q \in b3.inputs)
        /\ pin \in Digital => (pin \in b4.inputs <=> mode \in {"INPUT", "PULLUP"})
    <3>1. b3 \in Boards /\ b3.inputs \subseteq Digital
      BY <2>5 DEF Turns, Boards
    <3>2. CASE pin \in Digital
      <4>1. in \subseteq Digital /\ b4 = [b3 EXCEPT !.inputs = in]
        BY <3>1, <3>2
      <4>2. /\ \A q \in Pins : q # pin => (q \in in <=> q \in b3.inputs)
            /\ pin \in in <=> mode \in {"INPUT", "PULLUP"}
        OBVIOUS
      <4> HIDE DEF in, b4
      <4>3. /\ b4 \in Boards /\ SameServos(b3, b4) /\ SameReports(b3, b4) /\ SameReads(b3, b4)
            /\ b4.mode = b3.mode /\ b4.hw = b3.hw /\ b4.inputs = in
        BY <3>1, <4>1 DEF Boards, SameServos, SameReports, SameReads
      <4> QED
        BY <4>2, <4>3
    <3>3. CASE pin \notin Digital
      BY <3>1, <3>3 DEF SameServos, SameReports, SameReads
    <3> QED
      BY <3>2, <3>3
  <2> HIDE DEF b4, in
  <2>8. /\ Keeps(b3, b4, pin) /\ (Exclusive(b3) => Exclusive(b4)) /\ (HasServo(b4, pin) <=> HasServo(b3, pin))
    BY <2>7 DEF Keeps, SameServos, HasServo, Exclusive
  <2>9. Turns(b4, b5, pin) /\ b5.mode = b4.mode /\ b5.hw = b4.hw
    BY <2>7, StateTurns
  <2> HIDE DEF b5
  <2>10. Keeps(b4, b5, pin) /\ (Exclusive(b4) => Exclusive(b5)) /\ (HasServo(b5, pin) <=> HasServo(b4, pin))
    BY <2>9, TurnsKeeps
  <2>11. /\ b5 \in Boards /\ Keeps(b, b5, pin) /\ SameReports(b, b5) /\ (Exclusive(b) => Exclusive(b5))
         /\ b5.mode = b.mode
         /\ IF stops THEN b5.i2c = FALSE /\ b5.query = <<>> ELSE SameReads(b, b5)
         /\ pin \in Digital => (pin \in b5.inputs <=> mode \in {"INPUT", "PULLUP"})
         /\ pin \in Digital /\ mode # "SERVO" => ~HasServo(b5, pin)
    <3>1. Keeps(b, b5, pin)
      BY <2>3, <2>4, <2>6, <2>8, <2>10, KeepsTwice
    <3>2. SameReports(b, b5)
      BY <2>2, <2>4, <2>5, <2>7, <2>9 DEF Turns, SameReports
    <3>3. IF stops THEN b5.i2c = FALSE /\ b5.query = <<>> ELSE SameReads(b, b5)
      BY <2>2, <2>4, <2>5, <2>7, <2>9 DEF Turns, SameReads
    <3>4. b5.inputs = b4.inputs /\ b5 \in Boards
      BY <2>9 DEF Turns
    <3> QED
      BY <2>2, <2>3, <2>4, <2>5, <2>6, <2>7, <2>8, <2>9, <2>10, <3>1, <3>2, <3>3, <3>4
  <2>12. SUFFICES /\ c \in Boards /\ Keeps(b5, c, pin) /\ SameReports(b5, c) /\ SameReads(b5, c)
                  /\ Exclusive(b5) => Exclusive(c)
                  /\ c.mode[pin] = mode /\ c.mode[pin] # "IGNORE"
                  /\ pin \in Digital => Config(c, pin)
    <3>1. KeptOff(c)
      BY <1>2, <2>11, <2>12 DEF KeptOff, Keeps
    <3>2. IF stops THEN c.i2c = FALSE /\ c.query = <<>> ELSE SameReads(b, c)
      BY <2>11, <2>12 DEF SameReads
    <3>3. SameReports(b, c)
      BY <2>11, <2>12 DEF SameReports
    <3>4. Keeps(b, c, pin)
      BY <2>11, <2>12, KeepsTwice
    <3> QED
      BY <2>11, <2>12, <3>1, <3>2, <3>3, <3>4 DEF stops
  <2>13. CASE mode # "SERVO"
    <3>1. /\ Turns(b5, c, pin) /\ c.mode[pin] = mode
          /\ pin \in Digital /\ mode \in {"INPUT", "PULLUP", "ANALOG"} => ~c.hw[pin].out
          /\ mode \in {"OUTPUT", "PWM"} => c.hw[pin].out
      BY <1>2, <2>1, <2>11, <2>13, Entered
    <3>2. /\ Keeps(b5, c, pin) /\ (Exclusive(b5) => Exclusive(c)) /\ (HasServo(c, pin) <=> HasServo(b5, pin))
      BY <3>1, TurnsKeeps
    <3>3. c \in Boards /\ SameReports(b5, c) /\ SameReads(b5, c) /\ c.inputs = b5.inputs
      BY <3>1 DEF Turns
    <3>4. mode # "IGNORE"
      BY DEF Capable
    <3>5. pin \in Digital => Config(c, pin)
      BY <2>11, <2>13, <3>1, <3>2, <3>3 DEF Config
    <3> QED
      BY <3>1, <3>2, <3>3, <3>4, <3>5
  <2>14. CASE mode = "SERVO"
    <3> DEFINE t == Configured(b5, pin, mode)
    <3>1. c = IF HasServo(t, pin) THEN t ELSE AttachServo(t, pin)
      BY <2>1, <2>14 DEF EnterMode, Capable
    <3>2. Turns(b5, t, pin) /\ t.mode[pin] = mode
      BY <1>2, <2>11, ModeTurns
    <3> HIDE DEF t
    <3>3. /\ t \in Boards /\ SameReports(b5, t) /\ SameReads(b5, t) /\ t.inputs = b5.inputs
          /\ Keeps(b5, t, pin) /\ Exclusive(t)
      BY <2>11, <2>14, <3>2, TurnsKeeps DEF Turns
    <3>4. /\ c \in Boards /\ Exclusive(c) /\ Keeps(t, c, pin) /\ SameReports(t, c) /\ SameReads(t, c)
          /\ c.mode = t.mode /\ c.inputs = t.inputs
      <4>1. CASE HasServo(t, pin)
        BY <3>1, <3>3, <4>1 DEF Keeps, SameReports, SameReads
      <4>2. CASE ~HasServo(t, pin)
        BY <3>1, <3>3, <4>2, Attached
      <4> QED
        BY <4>1, <4>2
    <3>5. pin \in Digital => Config(c, pin)
      BY <2>11, <2>14, <3>2, <3>3, <3>4 DEF Config
    <3>6. SameReports(b5, c) /\ SameReads(b5, c) /\ Keeps(b5, c, pin)
      BY <3>3, <3>4, KeepsTwice DEF SameReports, SameReads
    <3> QED
      BY <2>14, <3>2, <3>4, <3>5, <3>6
  <2> QED
    BY <2>13, <2>14
<1> QED
  BY <1>1, <1>2

-----------------------------------------------------------------------------
(* The loops over the pins. *)

Kept == {b \in Boards : KeptOff(b)}

\* A round of the loop of enableI2CPins().
LEMMA PinEnabled ==
  ASSUME NEW b \in Kept, NEW pin \in Pins, NEW c, c = EnablePin(b, pin)
  PROVE  /\ c \in Kept /\ Keeps(b, c, pin) /\ SameReports(b, c) /\ SameReads(b, c)
         /\ Exclusive(b) => Exclusive(c)
         /\ pin \in Digital \ Ignored => (Config(b, pin) => Config(c, pin))
<1>1. CASE pin \in I2CPins
  <2>1. c = SetPinModeCallback(b, pin, "I2C") /\ Capable(pin, "I2C") /\ "I2C" \in Modes
    BY <1>1 DEF EnablePin, Capable, Modes
  <2> QED
    BY <2>1, ModeSet DEF Kept
<1>2. CASE pin \notin I2CPins
  <2>1. c = b
    BY <1>2 DEF EnablePin
  <2> QED
    BY <2>1 DEF Keeps, SameReports, SameReads
<1> QED
  BY <1>1, <1>2

\* A round of the loop of systemResetCallback(): the pin it is about becomes what its kind is
\* after a reset, in whatever state it was.
LEMMA PinReset ==
  ASSUME NEW b \in Kept, NEW pin \in Pins, b.i2c = FALSE, NEW c, c = ResetPin(b, pin)
  PROVE  /\ c \in Kept /\ Keeps(b, c, pin) /\ SameReports(b, c) /\ SameReads(b, c)
         /\ c.servoPinMap[pin] = NoServo
         /\ pin \in Digital \ Ignored => Config(c, pin)
<1> DEFINE t == IF pin \in Analog THEN SetPinModeCallback(b, pin, "ANALOG")
                ELSE IF pin \in Digital THEN SetPinModeCallback(b, pin, "OUTPUT") ELSE b
<1>1. /\ t \in Kept /\ Keeps(b, t, pin) /\ SameReports(b, t) /\ SameReads(b, t)
      /\ pin \in Digital \ Ignored => Config(t, pin)
  <2>1. CASE pin \in Analog
    <3>1. t = SetPinModeCallback(b, pin, "ANALOG") /\ Capable(pin, "ANALOG") /\ "ANALOG" \in Modes
      BY <2>1 DEF Capable, Modes
    <3> HIDE DEF t
    <3> QED
      BY <3>1, ModeSet DEF Kept
  <2>2. CASE pin \notin Analog /\ pin \in Digital
    <3>1. t = SetPinModeCallback(b, pin, "OUTPUT") /\ Capable(pin, "OUTPUT") /\ "OUTPUT" \in Modes
      BY <2>2 DEF Capable, Modes
    <3> HIDE DEF t
    <3> QED
      BY <3>1, ModeSet DEF Kept
  <2>3. CASE pin \notin Analog /\ pin \notin Digital
    <3>1. t = b
      BY <2>3
    <3> HIDE DEF t
    <3> QED
      BY <2>3, <3>1 DEF Keeps, SameReports, SameReads
  <2> QED
    BY <2>1, <2>2, <2>3
<1>2. c = [t EXCEPT !.servoPinMap[pin] = NoServo]
  BY DEF ResetPin
<1> HIDE DEF t
<1>3. t \in Boards
  BY <1>1 DEF Kept
<1>4. /\ c \in Boards /\ SameReports(t, c) /\ SameReads(t, c) /\ c.mode = t.mode /\ c.hw = t.hw
      /\ c.inputs = t.inputs /\ c.servos = t.servos
      /\ c.servoPinMap = [t.servoPinMap EXCEPT ![pin] = NoServo]
  <2> DEFINE map == [t.servoPinMap EXCEPT ![pin] = NoServo]
  <2>1. map \in [Pins -> Slots \cup {NoServo}] /\ c = [t EXCEPT !.servoPinMap = map]
    BY <1>2, <1>3 DEF Boards
  <2> HIDE DEF map
  <2>2. /\ c \in Boards /\ SameReports(t, c) /\ SameReads(t, c) /\ c.mode = t.mode /\ c.hw = t.hw
        /\ c.inputs = t.inputs /\ c.servos = t.servos /\ c.servoPinMap = map
    BY <1>3, <2>1 DEF Boards, SameReports, SameReads
  <2> QED
    BY <2>2 DEF map
<1>5. c.servoPinMap[pin] = NoServo /\ \A q \in Pins : q # pin => c.servoPinMap[q] = t.servoPinMap[q]
  BY <1>3, <1>4 DEF Boards
<1>6. Keeps(t, c, pin) /\ ~HasServo(c, pin)
  BY <1>4, <1>5 DEF Keeps, HasServo
<1>7. pin \in Digital \ Ignored => Config(c, pin)
  BY <1>1, <1>4, <1>6 DEF Config
<1>8. c \in Kept
  BY <1>1, <1>4 DEF Kept, KeptOff
<1> QED
  BY <1>1, <1>4, <1>5, <1>6, <1>7, <1>8, KeepsTwice DEF SameReports, SameReads

\* The boards a loop goes through, from b on, are those the loop of the source makes.
Enabling(f, b) == f = [n \in 0 .. TOTAL_PINS |-> IF n = 0 THEN b ELSE EnablePin(f[n - 1], n - 1)]
Resetting(f, b) == f = [n \in 0 .. TOTAL_PINS |-> IF n = 0 THEN b ELSE ResetPin(f[n - 1], n - 1)]

\* The loop of enableI2CPins() has a state after each of its rounds.
LEMMA EnablingRuns ==
  ASSUME NEW b \in Kept
  PROVE  \E f \in [0 .. TOTAL_PINS -> Kept] : Enabling(f, b)
<1> DEFINE step == [i \in 0 .. TOTAL_PINS - 1 |-> [c \in Kept |-> EnablePin(c, i)]]
<1>1. TOTAL_PINS \in Nat
  BY PinAssumption
<1>2. step \in [0 .. TOTAL_PINS - 1 -> [Kept -> Kept]]
  BY PinEnabled DEF Pins
<1>3. PICK f \in [0 .. TOTAL_PINS -> Kept] :
         f[0] = b /\ \A i \in 0 .. TOTAL_PINS - 1 : f[i + 1] = step[i][f[i]]
  <2> HIDE DEF step
  <2>1. \E f : LoopRun(f, TOTAL_PINS, Kept, b, step)
    BY <1>1, <1>2, LoopExists
  <2> QED
    BY <2>1 DEF LoopRun
<1>4. ASSUME NEW n \in 0 .. TOTAL_PINS, n # 0 PROVE f[n] = EnablePin(f[n - 1], n - 1)
  <2>1. n - 1 \in 0 .. TOTAL_PINS - 1 /\ n - 1 \in 0 .. TOTAL_PINS /\ (n - 1) + 1 = n
    BY <1>1, <1>4
  <2>2. f[(n - 1) + 1] = step[n - 1][f[n - 1]] /\ f[n - 1] \in Kept
    BY <1>3, <2>1
  <2> QED
    BY <2>1, <2>2
<1> QED
  BY <1>3, <1>4 DEF Enabling

\* enableI2CPins() after all its rounds: by induction on the rounds, what is known of pins holds.
LEMMA Enabled ==
  ASSUME NEW b \in Kept, NEW c, c = EnableI2CPins(b)
  PROVE  /\ c \in Kept /\ SameReports(b, c) /\ c.query = b.query /\ c.i2c = TRUE
         /\ Exclusive(b) => Exclusive(c)
         /\ \A p \in Digital \ Ignored : Config(b, p) => Config(c, p)
<1> DEFINE done == CHOOSE f : Enabling(f, b)
           Good(d) == /\ d \in Kept /\ SameReports(b, d) /\ SameReads(b, d)
                      /\ Exclusive(b) => Exclusive(d)
                      /\ \A p \in Digital \ Ignored : Config(b, p) => Config(d, p)
           R == {n \in Nat : n <= TOTAL_PINS => Good(done[n])}
<1>1. Enabling(done, b)
  BY EnablingRuns
<1>2. c = [done[TOTAL_PINS] EXCEPT !.i2c = TRUE]
  BY DEF EnableI2CPins, Enabling
<1>3. TOTAL_PINS \in Nat /\ Digital \subseteq Pins
  BY PinAssumption
<1> HIDE DEF done
<1>4. done[0] = b /\ \A n \in 0 .. TOTAL_PINS - 1 : done[n + 1] = EnablePin(done[n], n)
  <2>1. \A n \in 0 .. TOTAL_PINS : done[n] = IF n = 0 THEN b ELSE EnablePin(done[n - 1], n - 1)
    BY <1>1 DEF Enabling
  <2>2. done[0] = b
    BY <1>3, <2>1
  <2>3. ASSUME NEW n \in 0 .. TOTAL_PINS - 1 PROVE done[n + 1] = EnablePin(done[n], n)
    <3>1. n + 1 \in 0 .. TOTAL_PINS /\ n + 1 # 0 /\ (n + 1) - 1 = n
      BY <1>3
    <3> QED
      BY <2>1, <3>1
  <2> QED
    BY <2>2, <2>3
<1>5. 0 \in R
  <2>1. Good(b)
    BY DEF SameReports, SameReads
  <2> HIDE DEF Good
  <2> QED
    BY <1>4, <2>1
<1>6. ASSUME NEW n \in Nat, n \in R PROVE n + 1 \in R
  <2> SUFFICES ASSUME n + 1 <= TOTAL_PINS PROVE Good(done[n + 1])
    OBVIOUS
  <2>1. n \in 0 .. TOTAL_PINS - 1 /\ n \in Pins /\ Good(done[n])
    BY <1>3, <1>6 DEF Pins
  <2>2. done[n + 1] = EnablePin(done[n], n)
    BY <1>4, <2>1
  <2> DEFINE d == done[n]
             e == done[n + 1]
  <2>3. d \in Kept /\ e = EnablePin(d, n) /\ Good(d)
    BY <2>1, <2>2
  <2> HIDE DEF d, R
  <2>4. SUFFICES Good(e)
    OBVIOUS
  <2> HIDE DEF e
  <2>5. /\ e \in Kept /\ Keeps(d, e, n) /\ SameReports(d, e) /\ SameReads(d, e)
        /\ Exclusive(d) => Exclusive(e)
        /\ n \in Digital \ Ignored => (Config(d, n) => Config(e, n))
    BY <2>1, <2>3, PinEnabled
  <2>6. ASSUME NEW p \in Digital \ Ignored, Config(d, p) PROVE Config(e, p)
    BY <1>3, <2>5, <2>6 DEF Keeps, Config
  <2> QED
    BY <2>3, <2>5, <2>6 DEF SameReports, SameReads
<1>7. Good(done[TOTAL_PINS])
  <2>1. Nat \subseteq R
    <3> HIDE DEF R
    <3> QED
      BY <1>5, <1>6, SetInduction
  <2> QED
    BY <1>3, <2>1
<1> DEFINE d == done[TOTAL_PINS]
<1>8. Good(d)
  BY <1>7
<1>9. d \in Boards
  BY <1>8 DEF Kept
<1>10. c = [d EXCEPT !.i2c = TRUE]
  BY <1>2
<1> HIDE DEF d, R
<1>11. /\ c \in Boards /\ SameServos(d, c) /\ SameReports(d, c) /\ c.query = d.query /\ c.i2c = TRUE
       /\ c.mode = d.mode /\ c.hw = d.hw /\ c.inputs = d.inputs
  BY <1>9, <1>10 DEF Boards, SameServos, SameReports
<1>12. Exclusive(d) => Exclusive(c)
  BY <1>11 DEF Exclusive, SameServos
<1>13. \A p \in Digital \ Ignored : Config(d, p) => Config(c, p)
  BY <1>3, <1>11 DEF Config, HasServo, SameServos
<1> QED
  BY <1>8, <1>11, <1>12, <1>13 DEF Kept, KeptOff, SameReports, SameReads

Off == {b \in Kept : b.i2c = FALSE}

\* The loop of systemResetCallback() has a state after each of its rounds.
LEMMA ResettingRuns ==
  ASSUME NEW b \in Off
  PROVE  \E f \in [0 .. TOTAL_PINS -> Off] : Resetting(f, b)
<1> DEFINE step == [i \in 0 .. TOTAL_PINS - 1 |-> [c \in Off |-> ResetPin(c, i)]]
<1>1. TOTAL_PINS \in Nat
  BY PinAssumption
<1>2. step \in [0 .. TOTAL_PINS - 1 -> [Off -> Off]]
  <2>1. \A i \in 0 .. TOTAL_PINS - 1, c \in Off : ResetPin(c, i) \in Off
    BY PinReset DEF Pins, Off, SameReads
  <2> QED
    BY <2>1
<1>3. PICK f \in [0 .. TOTAL_PINS -> Off] :
         f[0] = b /\ \A i \in 0 .. TOTAL_PINS - 1 : f[i + 1] = step[i][f[i]]
  <2> HIDE DEF step
  <2>1. \E f : LoopRun(f, TOTAL_PINS, Off, b, step)
    BY <1>1, <1>2, LoopExists
  <2> QED
    BY <2>1 DEF LoopRun
<1>4. ASSUME NEW n \in 0 .. TOTAL_PINS, n # 0 PROVE f[n] = ResetPin(f[n - 1], n - 1)
  <2>1. n - 1 \in 0 .. TOTAL_PINS - 1 /\ n - 1 \in 0 .. TOTAL_PINS /\ (n - 1) + 1 = n
    BY <1>1, <1>4
  <2>2. f[(n - 1) + 1] = step[n - 1][f[n - 1]] /\ f[n - 1] \in Off
    BY <1>3, <2>1
  <2> QED
    BY <2>1, <2>2
<1> QED
  BY <1>3, <1>4 DEF Resetting

\* A reset leaves no trace of what was before, in whatever state the sketch was, but for the
\* queries of a bus that is off.
LEMMA ResetAll ==
  ASSUME NEW b \in Kept, NEW c, c = SystemResetCallback(b)
  PROVE  /\ c \in Kept /\ c.i2c = FALSE /\ c.query = (IF b.i2c THEN <<>> ELSE b.query) /\ Exclusive(c)
         /\ \A port \in Ports : ~c.report[port]
         /\ \A p \in Digital \ Ignored : Config(c, p)
<1> DEFINE b1 == IF b.i2c THEN DisableI2CPins(b) ELSE b
           b2 == [b1 EXCEPT !.report = [port \in Ports |-> FALSE], !.inputs = {},
                            !.previous = [port \in Ports |-> {}]]
           done == CHOOSE f : Resetting(f, b2)
           last == done[TOTAL_PINS]
           none == <<>>
           Clear(m, n) == \A p \in 0 .. n - 1 : m.servoPinMap[p] = NoServo /\ (p \in Digital \ Ignored => Config(m, p))
           Good(m, n) == m \in Off /\ SameReports(b2, m) /\ SameReads(b2, m) /\ Clear(m, n)
           R == {n \in Nat : n <= TOTAL_PINS => Good(done[n], n)}
<1>1. b1 \in Boards /\ b1.i2c = FALSE /\ b1.query = (IF b.i2c THEN <<>> ELSE b.query) /\ b1.mode = b.mode
  BY Disabled DEF Kept, Boards
<1> HIDE DEF b1
<1>2. b2 \in Off /\ SameReads(b1, b2) /\ b2.report = [port \in Ports |-> FALSE]
  <2>1. /\ b2 \in Boards /\ SameReads(b1, b2) /\ b2.mode = b1.mode
        /\ b2.report = [port \in Ports |-> FALSE]
    BY <1>1 DEF Boards, SameReads
  <2> HIDE DEF b2
  <2> QED
    BY <1>1, <2>1 DEF Off, Kept, KeptOff, SameReads
<1>3. c = [last EXCEPT !.analogReport = {}, !.detached = <<>>, !.servoCount = 0]
  BY DEF SystemResetCallback, Resetting, b1
<1> HIDE DEF b2
<1>4. Resetting(done, b2)
  BY <1>2, ResettingRuns
<1>5. TOTAL_PINS \in Nat /\ Digital \subseteq Pins /\ Pins = 0 .. TOTAL_PINS - 1
  BY PinAssumption DEF Pins
<1> HIDE DEF done
<1>6. done[0] = b2 /\ \A n \in 0 .. TOTAL_PINS - 1 : done[n + 1] = ResetPin(done[n], n)
  <2>1. \A n \in 0 .. TOTAL_PINS : done[n] = IF n = 0 THEN b2 ELSE ResetPin(done[n - 1], n - 1)
    BY <1>4 DEF Resetting
  <2>2. done[0] = b2
    <3>1. 0 \in 0 .. TOTAL_PINS
      BY <1>5
    <3> QED
      BY <2>1, <3>1
  <2>3. ASSUME NEW n \in 0 .. TOTAL_PINS - 1 PROVE done[n + 1] = ResetPin(done[n], n)
    <3>1. n + 1 \in 0 .. TOTAL_PINS /\ n + 1 # 0 /\ (n + 1) - 1 = n
      BY <1>5
    <3> QED
      BY <2>1, <3>1
  <2> QED
    BY <2>2, <2>3
<1>7. 0 \in R
  <2>1. Good(b2, 0)
    BY <1>2 DEF SameReports, SameReads
  <2> HIDE DEF Good
  <2> QED
    BY <1>6, <2>1
<1>8. ASSUME NEW n \in Nat, n \in R PROVE n + 1 \in R
  <2> SUFFICES ASSUME n + 1 <= TOTAL_PINS PROVE Good(done[n + 1], n + 1)
    OBVIOUS
  <2>1. n \in 0 .. TOTAL_PINS - 1 /\ n \in Pins /\ Good(done[n], n)
    BY <1>5, <1>8
  <2> DEFINE d == done[n]
             e == done[n + 1]
  <2>2. e = ResetPin(d, n)
    BY <1>6, <2>1
  <2>3. Good(d, n)
    BY <2>1
  <2> HIDE DEF d, R
  <2> SUFFICES Good(e, n + 1)
    OBVIOUS
  <2> HIDE DEF e
  <2>4. d \in Kept /\ d.i2c = FALSE
    BY <2>3 DEF Off
  <2>5. /\ e \in Kept /\ Keeps(d, e, n) /\ SameReports(d, e) /\ SameReads(d, e)
        /\ e.servoPinMap[n] = NoServo /\ (n \in Digital \ Ignored => Config(e, n))
    BY <2>1, <2>2, <2>4, PinReset
  <2>6. ASSUME NEW p \in 0 .. (n + 1) - 1
        PROVE  e.servoPinMap[p] = NoServo /\ (p \in Digital \ Ignored => Config(e, p))
    <3>1. CASE p = n
      BY <2>5, <3>1
    <3>2. CASE p # n
      <4>1. p \in 0 .. n - 1 /\ p \in Pins
        BY <2>1, <1>5, <3>2
      <4> QED
        BY <2>3, <2>5, <3>2, <4>1 DEF Keeps, Config
    <3> QED
      BY <3>1, <3>2
  <2> QED
    BY <2>3, <2>4, <2>5, <2>6 DEF SameReports, SameReads, Off
<1>9. Good(last, TOTAL_PINS)
  <2>1. Nat \subseteq R
    <3> HIDE DEF R
    <3> QED
      BY <1>7, <1>8, SetInduction
  <2> QED
    BY <1>5, <2>1
<1> HIDE DEF last, R
<1>10. last \in Boards /\ none \in Seq(Slots) /\ 0 \in 0 .. MAX_SERVOS
  BY <1>9, PinAssumption DEF Off, Kept
<1>11. c = [last EXCEPT !.analogReport = {}, !.detached = none, !.servoCount = 0]
  BY <1>3
<1>12. Len(none) = 0
  OBVIOUS
<1> HIDE DEF none
<1>13. /\ c \in Boards /\ SameReports(last, c) /\ SameReads(last, c) /\ c.mode = last.mode /\ c.hw = last.hw
       /\ c.inputs = last.inputs /\ c.servoPinMap = last.servoPinMap /\ c.servos = last.servos
       /\ c.detached = none /\ c.servoCount = 0
  BY <1>10, <1>11 DEF Boards, SameReports, SameReads
<1>14. \A p \in Pins : c.servoPinMap[p] = NoServo
  BY <1>5, <1>9, <1>13
<1>15. Exclusive(c)
  BY <1>12, <1>13, <1>14 DEF Exclusive
<1>16. \A p \in Digital \ Ignored : Config(c, p)
  BY <1>5, <1>9, <1>13 DEF Config, HasServo
<1>17. c \in Kept
  BY <1>9, <1>13 DEF Off, Kept, KeptOff
<1> QED
  BY <1>1, <1>2, <1>9, <1>13, <1>15, <1>16, <1>17 DEF SameReports, SameReads

-----------------------------------------------------------------------------
(* The callbacks. *)

\* What is true of the board between two messages, but for the host's reads.
Sound(b) == /\ b \in Kept /\ Exclusive(b)
            /\ \A p \in Digital \ Ignored : Config(b, p)
            /\ \A port \in Ports : b.report[port] => b.told[port] = b.previous[port]

\* A callback that is about one pin.
LEMMA OnePin ==
  ASSUME NEW b, Sound(b), NEW pin \in Pins, NEW c \in Kept, Exclusive(c), Keeps(b, c, pin), SameReports(b, c),
         pin \in Digital \ Ignored => Config(c, pin)
  PROVE  Sound(c)
<1>1. ASSUME NEW p \in Digital \ Ignored PROVE Config(c, p)
  <2>1. p \in Pins
    BY PinAssumption
  <2>2. CASE p # pin
    BY <2>1, <2>2 DEF Sound, Keeps, Config
  <2> QED
    BY <2>2
<1> QED
  BY <1>1 DEF Sound, SameReports

\* A callback that only sets levels, states of pins, and what is said of analog pins.
LEMMA OnlyLevels ==
  ASSUME NEW b, Sound(b), NEW c \in Kept, SameServos(b, c), SameReports(b, c), SameReads(b, c),
         c.mode = b.mode, c.inputs = b.inputs, \A p \in Pins : c.hw[p].out <=> b.hw[p].out
  PROVE  Sound(c) /\ c.query = b.query
<1>1. Exclusive(c)
  BY DEF Sound, Exclusive, SameServos
<1>2. \A p \in Digital \ Ignored : Config(c, p)
  BY PinAssumption DEF Sound, Config, HasServo, SameServos
<1> QED
  BY <1>1, <1>2 DEF Sound, SameReports, SameReads

\* SET_PIN_MODE.
LEMMA SetModeSound ==
  ASSUME NEW b, Sound(b), NEW pin \in Pins, NEW mode \in Modes, Capable(pin, mode)
  PROVE  /\ Sound(SetPinModeCallback(b, pin, mode))
         /\ SetPinModeCallback(b, pin, mode).query =
               IF b.mode[pin] = "I2C" /\ b.i2c /\ mode # "I2C" THEN <<>> ELSE b.query
<1> DEFINE c == SetPinModeCallback(b, pin, mode)
<1>1. /\ c \in Boards /\ Keeps(b, c, pin) /\ SameReports(b, c) /\ KeptOff(c) /\ Exclusive(c)
      /\ pin \in Digital \ Ignored => Config(c, pin)
      /\ IF b.mode[pin] = "I2C" /\ b.i2c /\ mode # "I2C"
         THEN c.i2c = FALSE /\ c.query = <<>> ELSE SameReads(b, c)
  BY ModeSet DEF Sound, Kept
<1> HIDE DEF c
<1>2. Sound(c)
  BY <1>1, OnePin DEF Sound, Kept, SameReads
<1>3. c.query = IF b.mode[pin] = "I2C" /\ b.i2c /\ mode # "I2C" THEN <<>> ELSE b.query
  BY <1>1 DEF SameReads
<1> QED
  BY <1>2, <1>3 DEF c

\* SERVO_CONFIG.
LEMMA ServoConfigSound ==
  ASSUME NEW b, Sound(b), NEW pin \in Digital
  PROVE  /\ Sound(ServoConfig(b, pin))
         /\ ServoConfig(b, pin).query = IF b.mode[pin] = "I2C" /\ b.i2c THEN <<>> ELSE b.query
<1> DEFINE t == IF HasServo(b, pin) THEN DetachServo(b, pin) ELSE b
           u == AttachServo(t, pin)
           c == SetPinModeCallback(u, pin, "SERVO")
<1>1. ServoConfig(b, pin) = c
  BY DEF ServoConfig
<1>2. b \in Boards /\ Exclusive(b) /\ KeptOff(b) /\ pin \in Pins
  BY PinAssumption DEF Sound, Kept
<1>3. /\ t \in Boards /\ Exclusive(t) /\ Keeps(b, t, pin) /\ SameReports(b, t) /\ SameReads(b, t)
      /\ t.mode = b.mode /\ ~HasServo(t, pin)
  <2>1. CASE HasServo(b, pin)
    <3>1. t = DetachServo(b, pin)
      BY <2>1
    <3> HIDE DEF t
    <3>2. /\ t \in Boards /\ Exclusive(t) /\ Keeps(b, t, pin) /\ SameReports(b, t) /\ SameReads(b, t)
          /\ t.mode = b.mode /\ t.servoPinMap[pin] = NoServo
      BY <1>2, <2>1, <3>1, Detached
    <3> QED
      BY <3>2 DEF HasServo
  <2>2. CASE ~HasServo(b, pin)
    <3>1. t = b
      BY <2>2
    <3> HIDE DEF t
    <3> QED
      BY <1>2, <2>2, <3>1 DEF Keeps, SameReports, SameReads
  <2> QED
    BY <2>1, <2>2
<1> HIDE DEF t
<1>4. /\ u \in Boards /\ Exclusive(u) /\ Keeps(t, u, pin) /\ SameReports(t, u) /\ SameReads(t, u)
      /\ u.mode = t.mode
  BY <1>2, <1>3, Attached
<1> HIDE DEF u
<1>5. KeptOff(u) /\ Capable(pin, "SERVO") /\ "SERVO" \in Modes
  BY <1>2, <1>3, <1>4 DEF KeptOff, Capable, Modes
<1>6. /\ c \in Boards /\ Keeps(u, c, pin) /\ SameReports(u, c) /\ KeptOff(c) /\ Exclusive(c)
      /\ pin \in Digital \ Ignored => Config(c, pin)
      /\ IF u.mode[pin] = "I2C" /\ u.i2c THEN c.i2c = FALSE /\ c.query = <<>> ELSE SameReads(u, c)
  BY <1>2, <1>4, <1>5, ModeSet
<1> HIDE DEF c
<1>7. Keeps(b, c, pin) /\ SameReports(b, c)
  BY <1>3, <1>4, <1>6, KeepsTwice DEF SameReports
<1>8. IF b.mode[pin] = "I2C" /\ b.i2c THEN c.i2c = FALSE /\ c.query = <<>> ELSE SameReads(b, c)
  BY <1>3, <1>4, <1>6 DEF SameReads
<1>9. Sound(c)
  BY <1>2, <1>6, <1>7, <1>8, OnePin DEF Sound, Kept, SameReads
<1> QED
  BY <1>1, <1>8, <1>9 DEF SameReads

\* REPORT_ANALOG.
LEMMA ReportAnalogSound ==
  ASSUME NEW b, Sound(b), NEW pin \in Pins, NEW on \in BOOLEAN
  PROVE  Sound(ReportAnalogCallback(b, pin, on)) /\ ReportAnalogCallback(b, pin, on).query = b.query
<1> DEFINE c == ReportAnalogCallback(b, pin, on)
<1>1. Turns(b, c, pin) /\ c.mode = b.mode /\ c.hw = b.hw
  BY ReportsAnalog DEF Sound, Kept
<1> HIDE DEF c
<1>2. c \in Kept
  BY <1>1 DEF Sound, Kept, KeptOff, Turns
<1>3. Sound(c) /\ c.query = b.query
  BY <1>1, <1>2, OnlyLevels DEF Turns
<1> QED
  BY <1>3 DEF c

\* SET_DIGITAL_PIN_VALUE.
LEMMA SetValueSound ==
  ASSUME NEW b, Sound(b), NEW pin \in Pins, NEW v \in {0, 1}
  PROVE  Sound(SetPinValueCallback(b, pin, v)) /\ SetPinValueCallback(b, pin, v).query = b.query
<1> DEFINE t == [b EXCEPT !.state[pin] = v]
           high == v # 0
           c == DigitalWrite(t, pin, high)
<1>1. CASE pin \in Digital /\ b.mode[pin] = "OUTPUT"
  <2>1. SetPinValueCallback(b, pin, v) = c
    BY <1>1 DEF SetPinValueCallback
  <2>2. Turns(b, t, pin) /\ t.mode = b.mode /\ t.hw = b.hw
    BY StateTurns DEF Sound, Kept
  <2> HIDE DEF t
  <2>3. t \in Boards /\ high \in BOOLEAN
    BY <2>2 DEF Turns
  <2> HIDE DEF high
  <2>4. Turns(t, c, pin) /\ c.mode = t.mode /\ (c.hw[pin].out <=> t.hw[pin].out)
    BY <2>3, WriteTurns
  <2> HIDE DEF c
  <2>5. Turns(b, c, pin) /\ c.mode = b.mode /\ \A p \in Pins : c.hw[p].out <=> b.hw[p].out
    BY <2>2, <2>4, TurnsTwice DEF Turns, SameOthers
  <2>6. c \in Kept
    BY <2>5 DEF Sound, Kept, KeptOff, Turns
  <2>7. Sound(c) /\ c.query = b.query
    BY <2>5, <2>6, OnlyLevels DEF Turns
  <2> QED
    BY <2>1, <2>7
<1>2. CASE ~(pin \in Digital /\ b.mode[pin] = "OUTPUT")
  BY <1>2 DEF SetPinValueCallback
<1> QED
  BY <1>1, <1>2

\* ANALOG_MESSAGE.
LEMMA AnalogWriteSound ==
  ASSUME NEW b, Sound(b), NEW pin \in Pins
  PROVE  Sound(AnalogWriteCallback(b, pin, 1)) /\ AnalogWriteCallback(b, pin, 1).query = b.query
<1>1. CASE b.mode[pin] = "SERVO"
  <2> DEFINE t == [b EXCEPT !.state[pin] = 1]
             lost == pin \in Digital /\ b.servoPinMap[pin] = NoServo
             c == [t EXCEPT !.stray = lost]
  <2>1. AnalogWriteCallback(b, pin, 1) = c
    BY <1>1 DEF AnalogWriteCallback
  <2>2. Turns(b, t, pin) /\ t.mode = b.mode /\ t.hw = b.hw
    BY StateTurns DEF Sound, Kept
  <2> HIDE DEF t
  <2>3. t \in Boards /\ lost \in BOOLEAN
    BY <2>2 DEF Turns
  <2> HIDE DEF lost
  <2>4. /\ c \in Boards /\ SameServos(t, c) /\ SameReports(t, c) /\ SameReads(t, c)
        /\ c.mode = t.mode /\ c.inputs = t.inputs /\ c.hw = t.hw
    BY <2>3 DEF Boards, SameServos, SameReports, SameReads
  <2> HIDE DEF c
  <2>5. /\ c \in Kept /\ SameServos(b, c) /\ SameReports(b, c) /\ SameReads(b, c)
        /\ c.mode = b.mode /\ c.inputs = b.inputs /\ \A p \in Pins : c.hw[p].out <=> b.hw[p].out
    BY <2>2, <2>4 DEF Turns, Sound, Kept, KeptOff, SameServos, SameReports, SameReads
  <2> QED
    BY <2>1, <2>5, OnlyLevels
<1>2. CASE b.mode[pin] = "PWM"
  <2> DEFINE t == [b EXCEPT !.state[pin] = 1]
             c == DigitalWrite(t, pin, TRUE)
  <2>1. AnalogWriteCallback(b, pin, 1) = c
    <3>1. 1 # 0 /\ b.mode[pin] # "SERVO"
      BY <1>2
    <3> QED
      BY <1>2, <3>1 DEF AnalogWriteCallback, DigitalWrite
  <2>2. Turns(b, t, pin) /\ t.mode = b.mode /\ t.hw = b.hw
    BY StateTurns DEF Sound, Kept
  <2> HIDE DEF t
  <2>3. Turns(t, c, pin) /\ c.mode = t.mode /\ (c.hw[pin].out <=> t.hw[pin].out)
    BY <2>2, WriteTurns DEF Turns
  <2> HIDE DEF c
  <2>4. Turns(b, c, pin) /\ c.mode = b.mode /\ \A p \in Pins : c.hw[p].out <=> b.hw[p].out
    BY <2>2, <2>3, TurnsTwice DEF Turns, SameOthers
  <2>5. c \in Kept
    BY <2>4 DEF Sound, Kept, KeptOff, Turns
  <2>6. Sound(c) /\ c.query = b.query
    BY <2>4, <2>5, OnlyLevels DEF Turns
  <2> QED
    BY <2>1, <2>6
<1>3. CASE b.mode[pin] \notin {"SERVO", "PWM"}
  BY <1>3 DEF AnalogWriteCallback
<1> QED
  BY <1>1, <1>2, <1>3

\* DIGITAL_MESSAGE.
LEMMA DigitalWriteSound ==
  ASSUME NEW b, Sound(b), NEW port \in Ports, NEW value
  PROVE  Sound(DigitalWriteCallback(b, port, value)) /\ DigitalWriteCallback(b, port, value).query = b.query
<1> DEFINE outs == {pin \in PinsOf(port) : b.mode[pin] = "OUTPUT"}
           ins == {pin \in PinsOf(port) : b.mode[pin] = "INPUT"}
           pulled == {pin \in ins \cap value : b.state[pin] # 1}
           s == [pin \in Pins |-> IF pin \in outs \cup ins THEN IF pin \in value THEN 1 ELSE 0 ELSE b.state[pin]]
           h == [pin \in Pins |-> CASE pin \in outs -> [b.hw[pin] EXCEPT !.high = pin \in value]
                                    [] pin \in pulled -> [out |-> FALSE, high |-> TRUE]
                                    [] OTHER -> b.hw[pin]]
           c == [b EXCEPT !.state = s, !.hw = h]
<1>1. DigitalWriteCallback(b, port, value) = c
  BY DEF DigitalWriteCallback
<1>2. b \in Boards /\ \A p \in Pins : b.state[p] \in {0, 1} /\ b.hw[p] \in [out : BOOLEAN, high : BOOLEAN]
  BY DEF Sound, Kept, Boards
<1>3. s \in [Pins -> {0, 1}]
  BY <1>2
<1>4. ASSUME NEW p \in Pins
      PROVE  h[p] \in [out : BOOLEAN, high : BOOLEAN] /\ (h[p].out <=> b.hw[p].out)
  <2>1. CASE p \in outs
    <3> DEFINE x == p \in value
    <3>1. h[p] = [b.hw[p] EXCEPT !.high = x] /\ x \in BOOLEAN
      BY <2>1
    <3> HIDE DEF x, h
    <3> QED
      BY <1>2, <3>1
  <2>2. CASE p \notin outs /\ p \in pulled
    <3>1. h[p] = [out |-> FALSE, high |-> TRUE]
      BY <2>2
    <3>2. p \in Digital /\ b.mode[p] = "INPUT"
      BY <2>2 DEF PinsOf
    <3>3. p \notin Ignored
      BY <3>2 DEF Sound, Kept, KeptOff
    <3>4. ~b.hw[p].out
      BY <3>2, <3>3 DEF Sound, Config
    <3> HIDE DEF h
    <3> QED
      BY <3>1, <3>4
  <2>3. CASE p \notin outs /\ p \notin pulled
    <3>1. h[p] = b.hw[p]
      BY <2>3
    <3> HIDE DEF h
    <3> QED
      BY <1>2, <3>1
  <2> QED
    BY <2>1, <2>2, <2>3
<1>5. h \in [Pins -> [out : BOOLEAN, high : BOOLEAN]]
  BY <1>4
<1> HIDE DEF s, h
<1>6. /\ c \in Boards /\ SameServos(b, c) /\ SameReports(b, c) /\ SameReads(b, c)
      /\ c.mode = b.mode /\ c.inputs = b.inputs /\ c.hw = h
  BY <1>2, <1>3, <1>5 DEF Boards, SameServos, SameReports, SameReads
<1> HIDE DEF c
<1>7. c \in Kept /\ \A p \in Pins : c.hw[p].out <=> b.hw[p].out
  BY <1>4, <1>6 DEF Sound, Kept, KeptOff
<1> QED
  BY <1>1, <1>6, <1>7, OnlyLevels

\* A callback that changes nothing but what is reported, and tells the host of it.
LEMMA OnlyReports ==
  ASSUME NEW b, Sound(b), NEW c \in Boards, SameServos(b, c), SameReads(b, c),
         c.mode = b.mode, c.inputs = b.inputs, c.hw = b.hw,
         \A port \in Ports : c.report[port] => c.told[port] = c.previous[port]
  PROVE  Sound(c) /\ c.query = b.query
<1>1. Exclusive(c)
  BY DEF Sound, Exclusive, SameServos
<1>2. \A p \in Digital \ Ignored : Config(c, p)
  BY DEF Sound, Config, HasServo, SameServos
<1> QED
  BY <1>1, <1>2 DEF Sound, Kept, KeptOff, SameReads

\* REPORT_DIGITAL tells the host the port at once, so that what it knows is right.
LEMMA ReportDigitalSound ==
  ASSUME NEW b, Sound(b), NEW port \in Ports, NEW on \in BOOLEAN, NEW lev
  PROVE  Sound(ReportDigitalCallback(b, port, on, lev)) /\ ReportDigitalCallback(b, port, on, lev).query = b.query
<1> DEFINE t == [b EXCEPT !.report[port] = on]
           v == ReadPort(t, port, lev) \cap t.inputs
           c == [t EXCEPT !.told[port] = v, !.previous[port] = v]
<1>1. ReportDigitalCallback(b, port, on, lev) = IF on THEN c ELSE t
  BY DEF ReportDigitalCallback, OutputPort
<1>2. b \in Boards
  BY DEF Sound, Kept
<1>3. /\ t \in Boards /\ SameServos(b, t) /\ SameReads(b, t) /\ t.mode = b.mode /\ t.inputs = b.inputs
      /\ t.hw = b.hw /\ t.told = b.told /\ t.previous = b.previous
      /\ t.report = [b.report EXCEPT ![port] = on]
  BY <1>2 DEF Boards, SameServos, SameReads
<1> HIDE DEF t
<1>4. v \subseteq Pins
  BY PinAssumption DEF ReadPort, PinsOf
<1> HIDE DEF v
<1>5. c \in Boards
  BY <1>3, <1>4 DEF Boards
<1>6. /\ SameServos(b, c) /\ SameReads(b, c) /\ c.mode = b.mode /\ c.inputs = b.inputs /\ c.hw = b.hw
      /\ c.report = t.report
  BY <1>3 DEF Boards, SameServos, SameReads
<1>7. c.told[port] = v /\ c.previous[port] = v
      /\ \A q \in Ports : q # port => c.told[q] = b.told[q] /\ c.previous[q] = b.previous[q]
  BY <1>3 DEF Boards
<1> HIDE DEF c
<1>8. \A q \in Ports : q # port => t.report[q] = b.report[q]
  BY <1>2, <1>3 DEF Boards
<1>9. CASE on
  <2>1. \A q \in Ports : c.report[q] => c.told[q] = c.previous[q]
    BY <1>6, <1>7, <1>8 DEF Sound
  <2>2. Sound(c) /\ c.query = b.query
    BY <1>5, <1>6, <2>1, OnlyReports
  <2> QED
    BY <1>1, <1>9, <2>2
<1>10. CASE ~on
  <2>1. ~t.report[port]
    BY <1>2, <1>3, <1>10 DEF Boards
  <2>2. \A q \in Ports : t.report[q] => t.told[q] = t.previous[q]
    BY <1>3, <1>8, <2>1 DEF Sound
  <2>3. Sound(t) /\ t.query = b.query
    BY <1>3, <2>2, OnlyReports
  <2> QED
    BY <1>1, <1>10, <2>3
<1> QED
  BY <1>9, <1>10

\* The inputs are checked: of a port that is reported the host knows what the pins are at.
LEMMA CheckedInputs ==
  ASSUME NEW b, Sound(b), NEW lev, NEW c, c = CheckDigitalInputs(b, lev)
  PROVE  /\ Sound(c) /\ c.query = b.query
         /\ \A port \in Ports : c.report[port] => c.told[port] = ReadPort(c, port, lev)
<1> DEFINE changed == {port \in Ports : b.report[port] /\ b.previous[port] # ReadPort(b, port, lev)}
           T == [port \in Ports |-> IF port \in changed THEN ReadPort(b, port, lev) ELSE b.told[port]]
           P == [port \in Ports |-> IF port \in changed THEN ReadPort(b, port, lev) ELSE b.previous[port]]
<1>1. c = [b EXCEPT !.told = T, !.previous = P]
  BY DEF CheckDigitalInputs
<1>2. b \in Boards /\ \A port \in Ports : ReadPort(b, port, lev) \subseteq Pins
  BY PinAssumption DEF Sound, Kept, ReadPort, PinsOf
<1>3. T \in [Ports -> SUBSET Pins] /\ P \in [Ports -> SUBSET Pins]
  BY <1>2 DEF Boards
<1>4. \A port \in Ports : b.report[port] => T[port] = ReadPort(b, port, lev) /\ T[port] = P[port]
  BY DEF Sound
<1> HIDE DEF T, P
<1>5. /\ c \in Boards /\ SameServos(b, c) /\ SameReads(b, c) /\ c.mode = b.mode /\ c.inputs = b.inputs
      /\ c.hw = b.hw /\ c.report = b.report /\ c.told = T /\ c.previous = P
  BY <1>1, <1>2, <1>3 DEF Boards, SameServos, SameReads
<1>6. \A port \in Ports : ReadPort(c, port, lev) = ReadPort(b, port, lev)
  BY <1>5 DEF ReadPort
<1> QED
  BY <1>4, <1>5, <1>6, OnlyReports

\* Setting the queries.
LEMMA QueriesSet ==
  ASSUME NEW b, Sound(b), NEW q \in Seq(Addresses), NEW c, c = [b EXCEPT !.query = q]
  PROVE  Sound(c) /\ c.query = q
<1>1. b \in Boards
  BY DEF Sound, Kept
<1>2. /\ c \in Boards /\ SameServos(b, c) /\ SameReports(b, c) /\ c.query = q /\ c.i2c = b.i2c
      /\ c.mode = b.mode /\ c.inputs = b.inputs /\ c.hw = b.hw
  BY <1>1 DEF Boards, SameServos, SameReports
<1>3. Exclusive(c)
  BY <1>2 DEF Sound, Exclusive, SameServos
<1>4. \A p \in Digital \ Ignored : Config(c, p)
  BY <1>2 DEF Sound, Config, HasServo, SameServos
<1> QED
  BY <1>2, <1>3, <1>4 DEF Sound, Kept, KeptOff, SameReports

\* I2C_REQUEST, to read continuously.
LEMMA ReadSound ==
  ASSUME NEW b, Sound(b), NEW addr \in Addresses
  PROVE  /\ Sound(I2CReadContinuously(b, addr))
         /\ I2CReadContinuously(b, addr).query =
               IF Len(b.query) < I2C_MAX_QUERIES THEN Append(b.query, addr) ELSE b.query
<1>1. b.query \in Seq(Addresses) /\ Len(b.query) \in Nat /\ I2C_MAX_QUERIES \in Nat
  BY PinAssumption DEF Sound, Kept, Boards
<1>2. CASE Len(b.query) < I2C_MAX_QUERIES
  <2> DEFINE q == Append(b.query, addr)
  <2>1. I2CReadContinuously(b, addr) = [b EXCEPT !.query = q] /\ q \in Seq(Addresses)
    BY <1>1, <1>2 DEF I2CReadContinuously
  <2> HIDE DEF q
  <2>2. Sound(I2CReadContinuously(b, addr)) /\ I2CReadContinuously(b, addr).query = q
    BY <2>1, QueriesSet
  <2> QED
    BY <1>2, <2>2 DEF q
<1>3. CASE Len(b.query) >= I2C_MAX_QUERIES
  BY <1>1, <1>3 DEF I2CReadContinuously
<1> QED
  BY <1>1, <1>2, <1>3

\* What the first of a value's places in a sequence is.
LEMMA FirstPlace ==
  ASSUME NEW S, NEW s \in Seq(S), NEW i \in 1 .. Len(s), \A j \in 1 .. i - 1 : s[j] # s[i],
         NEW hits, hits = {k \in 1 .. Len(s) : s[k] = s[i]}
  PROVE  hits # {} /\ (CHOOSE k \in hits : \A j \in hits : k <= j) = i
<1>1. i \in hits /\ \A j \in hits : i <= j /\ j \in Int /\ i \in Int
  OBVIOUS
<1>2. \A k \in hits : (\A j \in hits : k <= j) => k = i
  BY <1>1
<1> QED
  BY <1>1, <1>2

\* I2C_REQUEST, to stop reading: the queries left are some of those there were.
LEMMA StopSound ==
  ASSUME NEW b, Sound(b), NEW addr
  PROVE  /\ Sound(I2CStopReading(b, addr))
         /\ Len(b.query) <= 1 => I2CStopReading(b, addr).query = <<>>
         /\ \A i \in 1 .. Len(b.query) :
               b.query[i] = addr /\ (\A j \in 1 .. i - 1 : b.query[j] # addr)
                  => I2CStopReading(b, addr).query = RemoveAt(b.query, i)
<1>1. b.query \in Seq(Addresses) /\ Len(b.query) \in Nat
  BY DEF Sound, Kept, Boards
<1> DEFINE none == <<>>
           hits == {k \in 1 .. Len(b.query) : b.query[k] = addr}
           at == IF hits = {} THEN 1 ELSE CHOOSE k \in hits : \A j \in hits : k <= j
           q == IF Len(b.query) <= 1 THEN none ELSE RemoveAt(b.query, at)
<1>2. ASSUME Len(b.query) > 1 PROVE at \in 1 .. Len(b.query)
  <2>1. hits \subseteq Nat /\ (hits # {} => \E k \in hits : \A j \in hits : k <= j)
    <3>1. hits \subseteq Nat
      OBVIOUS
    <3> HIDE DEF hits
    <3> QED
      BY <3>1, LeastElement
  <2> QED
    BY <1>1, <1>2, <2>1
<1>3. none \in Seq(Addresses)
  OBVIOUS
<1> HIDE DEF at, none
<1>4. q \in Seq(Addresses)
  BY <1>1, <1>2, <1>3 DEF RemoveAt
<1>5. I2CStopReading(b, addr) = [b EXCEPT !.query = q]
  BY DEF I2CStopReading, at, none
<1> HIDE DEF q
<1>6. Sound(I2CStopReading(b, addr)) /\ I2CStopReading(b, addr).query = q
  BY <1>4, <1>5, QueriesSet
<1>7. ASSUME NEW i \in 1 .. Len(b.query), b.query[i] = addr, \A j \in 1 .. i - 1 : b.query[j] # addr
      PROVE  q = RemoveAt(b.query, i)
  <2>1. at = i
    BY <1>1, <1>7, FirstPlace DEF at
  <2>2. Len(b.query) <= 1 => RemoveAt(b.query, i) = none
    BY <1>1 DEF RemoveAt, none
  <2> QED
    BY <2>1, <2>2 DEF q
<1> QED
  BY <1>6, <1>7 DEF q, none

\* SAMPLING_INTERVAL.
LEMMA IntervalSound ==
  ASSUME NEW b, Sound(b), NEW n \in Nat, NEW c, c = [b EXCEPT !.interval = n]
  PROVE  Sound(c) /\ c.query = b.query
<1>1. b \in Boards
  BY DEF Sound, Kept
<1>2. /\ c \in Boards /\ SameServos(b, c) /\ SameReports(b, c) /\ SameReads(b, c)
      /\ c.mode = b.mode /\ c.inputs = b.inputs /\ c.hw = b.hw
  BY <1>1 DEF Boards, SameServos, SameReports, SameReads
<1>3. c \in Kept
  BY <1>2 DEF Sound, Kept, KeptOff
<1> QED
  BY <1>2, <1>3, OnlyLevels

\* I2C_CONFIG.
LEMMA EnableSound ==
  ASSUME NEW b, Sound(b)
  PROVE  Sound(EnableI2CPins(b)) /\ EnableI2CPins(b).query = b.query
<1> DEFINE c == EnableI2CPins(b)
<1>1. /\ c \in Kept /\ SameReports(b, c) /\ c.query = b.query /\ c.i2c = TRUE
      /\ Exclusive(b) => Exclusive(c)
      /\ \A p \in Digital \ Ignored : Config(b, p) => Config(c, p)
  BY Enabled DEF Sound
<1> HIDE DEF c
<1>2. Sound(c) /\ c.query = b.query
  BY <1>1 DEF Sound, SameReports
<1> QED
  BY <1>2 DEF c

\* SYSTEM_RESET, of a board in any state.
LEMMA ResetSound ==
  ASSUME NEW b \in Kept
  PROVE  Sound(SystemResetCallback(b)) /\ SystemResetCallback(b).query = IF b.i2c THEN <<>> ELSE b.query
<1> DEFINE c == SystemResetCallback(b)
<1>1. /\ c \in Kept /\ c.i2c = FALSE /\ c.query = (IF b.i2c THEN <<>> ELSE b.query) /\ Exclusive(c)
      /\ \A port \in Ports : ~c.report[port]
      /\ \A p \in Digital \ Ignored : Config(c, p)
  BY ResetAll
<1> HIDE DEF c
<1>2. Sound(c) /\ c.query = IF b.i2c THEN <<>> ELSE b.query
  BY <1>1 DEF Sound
<1> QED
  BY <1>2 DEF c

-----------------------------------------------------------------------------
(* The theorems about the board. *)

BoardInv == /\ Sound(board) /\ QueriesAsAsked
            /\ fresh => \A port \in Ports : board.report[port] =>
                  board.told[port] = ReadPort(board, port, level)

\* setup() resets the board.
LEMMA BoardInitInv == BoardInit => BoardInv
<1> SUFFICES ASSUME BoardInit PROVE BoardInv
  OBVIOUS
<1> DEFINE none == <<>>
           slots == <<>>
           modes == [pin \in Pins |-> IF pin \in Ignored THEN "IGNORE" ELSE "INPUT"]
           on == [mode |-> modes, state |-> [pin \in Pins |-> 0],
                  hw |-> [pin \in Pins |-> [out |-> FALSE, high |-> FALSE]],
                  report |-> [port \in Ports |-> FALSE], previous |-> [port \in Ports |-> {}], inputs |-> {},
                  analogReport |-> {}, servoPinMap |-> [pin \in Pins |-> 0], detached |-> slots,
                  servoCount |-> 0, servos |-> [slot \in 0 .. MAX_SERVOS - 1 |-> NoServo], i2c |-> FALSE,
                  query |-> none, interval |-> 1, told |-> [port \in Ports |-> {}], stray |-> FALSE]
<1>1. none \in Seq(Addresses) /\ slots \in Seq(Slots) /\ 0 \in Slots /\ 0 \in 0 .. MAX_SERVOS /\ 1 \in Nat
  BY PinAssumption DEF Slots
<1>2. on = PowerOn
  BY DEF PowerOn
<1> HIDE DEF none, slots
<1>3. modes \in [Pins -> Modes]
  BY DEF Modes
<1>4. on \in Boards
  <2>1. [slot \in 0 .. MAX_SERVOS - 1 |-> NoServo] \in [Slots -> Pins \cup {NoServo}]
    BY DEF Slots
  <2> HIDE DEF modes
  <2> QED
    BY <1>1, <1>3, <2>1 DEF Boards
<1>5. on.i2c = FALSE /\ on.query = none /\ on.mode = modes
  OBVIOUS
<1>6. \A pin \in Pins : modes[pin] = "IGNORE" <=> pin \in Ignored
  OBVIOUS
<1> HIDE DEF on, modes
<1>7. PowerOn \in Kept
  BY <1>2, <1>4, <1>5, <1>6 DEF Kept, KeptOff
<1>8. Sound(SystemResetCallback(PowerOn)) /\ SystemResetCallback(PowerOn).query = <<>>
  BY <1>2, <1>5, <1>7, ResetSound DEF none
<1> QED
  BY <1>8 DEF BoardInit, BoardInv, QueriesAsAsked

\* A message is handled by a callback that keeps the board sound.
LEMMA Handled ==
  ASSUME BoardInv, NEW b, Handle(b), Sound(b), ~adrift' => b.query = asked'
  PROVE  BoardInv'
<1>1. board' = b /\ fresh' = FALSE
  BY DEF Handle
<1>2. Sound(board')
  BY <1>1
<1> QED
  BY <1>1, <1>2 DEF BoardInv, QueriesAsAsked, Sound

\* Every step of the sketch and of its surroundings keeps the invariant.
LEMMA BoardStep == BoardInv /\ [BoardNext]_boardVars => BoardInv'
<1> SUFFICES ASSUME BoardInv, [BoardNext]_boardVars PROVE BoardInv'
  OBVIOUS
<1>1. Sound(board) /\ (~adrift => board.query = asked)
  BY DEF BoardInv, QueriesAsAsked
<1>2. ASSUME NEW b, Quietly(b), Sound(b), b.query = board.query PROVE BoardInv'
  BY <1>1, <1>2, Handled DEF Quietly
<1>3. CASE Check
  <2> DEFINE c == CheckDigitalInputs(board, level)
  <2>1. board' = c /\ UNCHANGED <<level, asked, adrift>>
    BY <1>3 DEF Check
  <2>2. /\ Sound(c) /\ c.query = board.query
        /\ \A port \in Ports : c.report[port] => c.told[port] = ReadPort(c, port, level)
    BY <1>1, CheckedInputs
  <2> HIDE DEF c
  <2>3. Sound(board') /\ (~adrift' => board'.query = asked')
        /\ \A port \in Ports : board'.report[port] => board'.told[port] = ReadPort(board', port, level')
    BY <1>1, <2>1, <2>2
  <2> QED
    BY <2>3 DEF BoardInv, QueriesAsAsked, Sound, ReadPort
<1>4. CASE OnPinMode
  <2>1. PICK r \in Requests : Handle(SetPinModeCallback(board, r[1], r[2])) /\ ReadsAfter(r)
    BY <1>4 DEF OnPinMode
  <2>2. Capable(r[1], r[2])
    BY RequestsAssumption
  <2>3. r[1] \in Pins /\ r[2] \in Modes
    BY <2>2, PinAssumption DEF Capable, Modes
  <2>4. /\ Sound(SetPinModeCallback(board, r[1], r[2]))
        /\ ~adrift' => SetPinModeCallback(board, r[1], r[2]).query = asked'
    BY <1>1, <2>1, <2>2, <2>3, SetModeSound DEF ReadsAfter, StopsReads
  <2> QED
    BY <2>1, <2>4, Handled
<1>5. CASE OnPinValue
  BY <1>1, <1>2, <1>5, SetValueSound DEF OnPinValue
<1>6. CASE OnAnalog
  BY <1>1, <1>2, <1>6, AnalogWriteSound DEF OnAnalog
<1>7. CASE OnDigital
  BY <1>1, <1>2, <1>7, DigitalWriteSound DEF OnDigital
<1>8. CASE OnReportAnalog
  BY <1>1, <1>2, <1>8, ReportAnalogSound, PinAssumption DEF OnReportAnalog
<1>9. CASE OnReportDigital
  BY <1>1, <1>2, <1>9, ReportDigitalSound DEF OnReportDigital
<1>10. CASE OnServoConfig
  <2>1. PICK r \in Requests : r[2] = "SERVO" /\ Handle(ServoConfig(board, r[1])) /\ ReadsAfter(r)
    BY <1>10 DEF OnServoConfig
  <2>2. r[1] \in Digital
    BY <2>1, RequestsAssumption DEF Capable
  <2>3. Sound(ServoConfig(board, r[1])) /\ (~adrift' => ServoConfig(board, r[1]).query = asked')
    BY <1>1, <2>1, <2>2, ServoConfigSound DEF ReadsAfter, StopsReads
  <2> QED
    BY <2>1, <2>3, Handled
<1>11. CASE OnI2CConfig
  BY <1>1, <1>2, <1>11, EnableSound DEF OnI2CConfig
<1>12. CASE OnI2CRead
  <2>1. PICK addr \in Addresses :
           /\ Handle(I2CReadContinuously(board, addr))
           /\ asked' = IF Len(board.query) < I2C_MAX_QUERIES THEN Append(asked, addr) ELSE asked
           /\ UNCHANGED adrift
    BY <1>12 DEF OnI2CRead
  <2>2. Sound(I2CReadContinuously(board, addr)) /\ (~adrift' => I2CReadContinuously(board, addr).query = asked')
    BY <1>1, <2>1, ReadSound
  <2> QED
    BY <2>1, <2>2, Handled
<1>13. CASE OnI2CStop
  <2>1. PICK addr \in Addresses :
           /\ Handle(I2CStopReading(board, addr))
           /\ \/ \E i \in 1 .. Len(asked) :
                    /\ asked[i] = addr /\ \A j \in 1 .. i - 1 : asked[j] # addr
                    /\ asked' = RemoveAt(asked, i) /\ UNCHANGED adrift
              \/ /\ \A i \in 1 .. Len(asked) : asked[i] # addr
                 /\ adrift' = (adrift \/ board.query # <<>>) /\ UNCHANGED asked
    BY <1>13 DEF OnI2CStop
  <2> DEFINE c == I2CStopReading(board, addr)
  <2>2. /\ Sound(c) /\ (Len(board.query) <= 1 => c.query = <<>>)
        /\ \A i \in 1 .. Len(board.query) :
              board.query[i] = addr /\ (\A j \in 1 .. i - 1 : board.query[j] # addr)
                 => c.query = RemoveAt(board.query, i)
    BY <1>1, StopSound
  <2> HIDE DEF c
  <2>3. ASSUME ~adrift' PROVE c.query = asked'
    <3>1. ~adrift /\ board.query = asked
      <4>1. UNCHANGED adrift \/ adrift' = (adrift \/ board.query # <<>>)
        BY <2>1, Zenon
      <4>2. ~adrift
        BY <2>3, <4>1, Zenon
      <4> QED
        BY <1>1, <4>2, Zenon
    <3>2. CASE \E i \in 1 .. Len(asked) :
                 /\ asked[i] = addr /\ \A j \in 1 .. i - 1 : asked[j] # addr
                 /\ asked' = RemoveAt(asked, i) /\ UNCHANGED adrift
      <4>1. PICK i \in 1 .. Len(board.query) :
               /\ board.query[i] = addr /\ \A j \in 1 .. i - 1 : board.query[j] # addr
               /\ asked' = RemoveAt(board.query, i)
        BY <3>1, <3>2, Zenon
      <4> QED
        BY <2>2, <4>1, Zenon
    <3>3. CASE adrift' = (adrift \/ board.query # <<>>) /\ UNCHANGED asked
      <4>1. board.query = <<>>
        BY <2>3, <3>3, Zenon
      <4>2. Len(board.query) <= 1
        BY <4>1
      <4> QED
        BY <2>2, <3>1, <3>3, <4>1, <4>2, Zenon
    <3> QED
      BY <2>1, <3>2, <3>3
  <2> QED
    BY <2>1, <2>2, <2>3, Handled DEF c
<1>14. CASE OnSamplingInterval
  BY <1>1, <1>2, <1>14, IntervalSound, PinAssumption DEF OnSamplingInterval
<1>15. CASE OnSystemReset
  <2>1. /\ Sound(SystemResetCallback(board))
        /\ SystemResetCallback(board).query = IF board.i2c THEN <<>> ELSE board.query
    BY <1>1, ResetSound DEF Sound
  <2>2. /\ Handle(SystemResetCallback(board)) /\ asked' = <<>>
        /\ adrift' = (~board.i2c /\ board.query # <<>>)
    BY <1>15 DEF OnSystemReset
  <2> QED
    BY <2>1, <2>2, Handled
<1>16. CASE EndInput \/ Sample \/ Tick
  <2>1. UNCHANGED <<board, level, fresh, asked, adrift>>
    BY <1>16 DEF EndInput, Sample, Tick
  <2> QED
    BY <2>1 DEF BoardInv, QueriesAsAsked
<1>17. CASE Flip
  <2>1. UNCHANGED <<board, asked, adrift>> /\ fresh' = FALSE
    BY <1>17 DEF Flip
  <2> QED
    BY <2>1 DEF BoardInv, QueriesAsAsked
<1>18. CASE UNCHANGED boardVars
  BY <1>18 DEF boardVars, BoardInv, QueriesAsAsked
<1> QED
  BY <1>3, <1>4, <1>5, <1>6, <1>7, <1>8, <1>9, <1>10, <1>11, <1>12, <1>13, <1>14, <1>15, <1>16, <1>17, <1>18
  DEF BoardNext

\* The invariant of the board, in every state that is reached.
LEMMA BoardAlways == BoardInit /\ [][BoardNext]_boardVars => []BoardInv
  BY BoardInitInv, BoardStep, PTL

\* The host's picture of the inputs is the sketch's, and after a check that of the pins, whatever
\* is reported, set and reset (outputPort, checkDigitalInputs, reportDigitalCallback,
\* systemResetCallback).
THEOREM HostKnowsInputsHolds == BoardInit /\ [][BoardNext]_boardVars => []HostKnowsInputs
<1>1. BoardInv => HostKnowsInputs
  BY DEF BoardInv, Sound, HostKnowsInputs
<1> QED
  BY <1>1, BoardAlways, PTL

\* After any sequence of messages a pin's mode, its place in the mask of inputs, its direction
\* and its servo agree (setPinModeCallback, systemResetCallback, enableI2CPins).
THEOREM ConfigAgreesHolds == BoardInit /\ [][BoardNext]_boardVars => []ConfigAgrees
<1>1. BoardInv => ConfigAgrees
  BY DEF BoardInv, Sound, Config, ConfigAgrees
<1> QED
  BY <1>1, BoardAlways, PTL

\* No index of a servo is used twice, none that is used waits to be used again, and none is lost
\* (attachServo, detachServo), for every number of pins and servos.
THEOREM ServosExclusiveHolds == BoardInit /\ [][BoardNext]_boardVars => []ServosExclusive
<1>1. BoardInv => ServosExclusive
  <2> SUFFICES ASSUME BoardInv PROVE ServosExclusive
    OBVIOUS
  <2> DEFINE n == Len(board.detached)
             used == {board.servoPinMap[pin] : pin \in Pins} \ {NoServo}
             free == {board.detached[i] : i \in 1 .. n}
             at == [i \in 1 .. n |-> board.detached[i]]
  <2>1. Exclusive(board) /\ n \in Nat /\ board.servoCount \in 0 .. MAX_SERVOS
    BY DEF BoardInv, Sound, Kept, Boards
  <2>2. Cardinality(free) = n
    <3>1. at \in Bijection(1 .. n, free)
      <4>1. at \in [1 .. n -> free] /\ \A x \in free : \E i \in 1 .. n : at[i] = x
        OBVIOUS
      <4>2. \A i, j \in 1 .. n : at[i] = at[j] => i = j
        BY <2>1 DEF Exclusive
      <4> HIDE DEF at, free, n
      <4> QED
        BY <4>1, <4>2 DEF Bijection, Injection, Surjection, IsInjective
    <3>2. ExistsBijection(1 .. n, free)
      BY <3>1 DEF ExistsBijection
    <3>3. IsFiniteSet(1 .. n) /\ Cardinality(1 .. n) = n
      <4> HIDE DEF n
      <4>1. IsFiniteSet(1 .. n) /\ Cardinality(1 .. n) = IF 1 > n THEN 0 ELSE n - 1 + 1
        BY <2>1, FS_Interval
      <4> QED
        BY <2>1, <4>1
    <3> HIDE DEF free, n
    <3> QED
      BY <3>2, <3>3, FS_Bijection
  <2>3. used \cap free = {} /\ used \cup free = 0 .. board.servoCount - 1
    <3>1. \A s \in 0 .. board.servoCount - 1 : s # NoServo
      BY <2>1, PinAssumption
    <3> QED
      BY <2>1, <3>1 DEF Exclusive
  <2> QED
    BY <2>1, <2>2, <2>3 DEF ServosExclusive, Exclusive
<1> QED
  BY <1>1, BoardAlways, PTL

\* The reads that are repeated are those the host has asked for and not stopped, through resets
\* and pins put to another use, whether the bus was on or off; only a stop of a read that was not
\* asked for, and a reset that finds reads of a bus that is off, make them others, until all are
\* given up (sysexCallback, disableI2CPins).
THEOREM QueriesAsAskedHolds == BoardInit /\ [][BoardNext]_boardVars => []QueriesAsAsked
<1>1. BoardInv => QueriesAsAsked
  BY DEF BoardInv
<1> QED
  BY <1>1, BoardAlways, PTL

-----------------------------------------------------------------------------
(* The serial ports. *)

PolledInv == reportSerial \in Seq(SerialPorts) /\ PolledAsAsked

\* The place the code stops at is that of the request, if there is one.
LEMMA StoppedPlace ==
  ASSUME PolledInv, NEW p \in SerialPorts, SerialStop(p)
  PROVE  PolledInv'
<1> DEFINE n == Len(reportSerial)
           none == <<>>
           hits == {i \in 1 .. n : reportSerial[i] = p}
           at == IF hits = {} THEN 1 ELSE CHOOSE k \in hits : \A j \in hits : k <= j
<1>1. reportSerial \in Seq(SerialPorts) /\ n \in Nat /\ (~serialAdrift => reportSerial = polled)
  BY DEF PolledInv, PolledAsAsked
<1>2. ASSUME n > 1 PROVE at \in 1 .. n
  <2>1. hits \subseteq Nat /\ (hits # {} => \E k \in hits : \A j \in hits : k <= j)
    <3>1. hits \subseteq Nat
      OBVIOUS
    <3> HIDE DEF hits
    <3> QED
      BY <3>1, LeastElement
  <2> QED
    BY <1>1, <1>2, <2>1
<1>3. none \in Seq(SerialPorts)
  OBVIOUS
<1>4. reportSerial' = IF n <= 1 THEN none ELSE RemoveAt(reportSerial, at)
  BY DEF SerialStop
<1>5. \/ \E k \in 1 .. Len(polled) :
            /\ polled[k] = p /\ \A j \in 1 .. k - 1 : polled[j] # p
            /\ polled' = RemoveAt(polled, k) /\ UNCHANGED serialAdrift
      \/ serialAdrift' = (serialAdrift \/ reportSerial # none) /\ UNCHANGED polled
  BY DEF SerialStop
<1> HIDE DEF at, none
<1>6. reportSerial' \in Seq(SerialPorts)
  BY <1>1, <1>2, <1>3, <1>4 DEF RemoveAt
<1>7. ASSUME ~serialAdrift' PROVE reportSerial' = polled'
  <2>1. reportSerial = polled
    BY <1>1, <1>5, <1>7
  <2>2. CASE \E k \in 1 .. Len(polled) :
               /\ polled[k] = p /\ \A j \in 1 .. k - 1 : polled[j] # p
               /\ polled' = RemoveAt(polled, k) /\ UNCHANGED serialAdrift
    <3>1. PICK k \in 1 .. n : /\ reportSerial[k] = p /\ \A j \in 1 .. k - 1 : reportSerial[j] # p
                              /\ polled' = RemoveAt(reportSerial, k)
      BY <2>1, <2>2
    <3>2. at = k
      BY <1>1, <3>1, FirstPlace DEF at
    <3>3. n <= 1 => RemoveAt(reportSerial, k) = none
      BY <1>1 DEF RemoveAt, none
    <3> QED
      BY <1>4, <3>1, <3>2, <3>3
  <2>3. CASE serialAdrift' = (serialAdrift \/ reportSerial # none) /\ UNCHANGED polled
    <3>1. reportSerial = none /\ n = 0
      BY <1>7, <2>3 DEF none
    <3> QED
      BY <1>4, <2>1, <2>3, <3>1
  <2> QED
    BY <1>5, <2>2, <2>3
<1> QED
  BY <1>6, <1>7 DEF PolledInv, PolledAsAsked

\* Every step of the serial ports keeps the list of polled ports as asked.
LEMMA SerialStep == PolledInv /\ [SerialNext]_serialVars => PolledInv'
<1> SUFFICES ASSUME PolledInv, [SerialNext]_serialVars PROVE PolledInv'
  OBVIOUS
<1>1. ASSUME NEW p \in SerialPorts,
             SerialConfig(p) \/ SerialUse(p) \/ SerialListen(p) \/ SerialClose(p) \/ SerialReceives(p)
      PROVE  PolledInv'
  <2>1. UNCHANGED <<reportSerial, polled, serialAdrift>>
    BY <1>1 DEF SerialConfig, SerialUse, SerialListen, SerialClose, SerialReceives
  <2> QED
    BY <2>1 DEF PolledInv, PolledAsAsked
<1>2. ASSUME NEW p \in SerialPorts, NEW n \in Limits, SerialRead(p, n) PROVE PolledInv'
  <2>1. /\ \/ reportSerial' = Append(reportSerial, p) /\ polled' = Append(polled, p)
           \/ reportSerial' = reportSerial /\ polled' = polled
        /\ serialAdrift' = serialAdrift
    BY <1>2 DEF SerialRead
  <2>2. reportSerial' \in Seq(SerialPorts)
    BY <2>1 DEF PolledInv
  <2>3. PolledAsAsked'
    <3> SUFFICES ASSUME ~serialAdrift' PROVE reportSerial' = polled'
      BY DEF PolledAsAsked
    <3>1. ~serialAdrift
      BY <2>1, Zenon
    <3>2. reportSerial = polled
      BY <3>1 DEF PolledInv, PolledAsAsked
    <3> QED
      BY <2>1, <3>2
  <2> QED
    BY <2>2, <2>3 DEF PolledInv
<1>3. CASE SerialReset
  BY <1>3 DEF SerialReset, PolledInv, PolledAsAsked
<1>4. CASE CheckSerial \/ UNCHANGED serialVars
  <2>1. UNCHANGED <<reportSerial, polled, serialAdrift>>
    BY <1>4 DEF CheckSerial, serialVars
  <2> QED
    BY <2>1 DEF PolledInv, PolledAsAsked
<1> QED
  BY <1>1, <1>2, <1>3, <1>4, StoppedPlace DEF SerialNext

\* The list of polled ports is that of the requests that found room, whatever is opened, closed,
\* stopped and reset, until a port is stopped that is not polled, and again after a reset
\* (SerialFirmata::handleSysex, reset).
THEOREM PolledAsAskedHolds == SerialInit /\ [][SerialNext]_serialVars => []PolledAsAsked
<1>1. SerialInit => PolledInv
  BY DEF SerialInit, PolledInv, PolledAsAsked
<1>2. PolledInv => PolledAsAsked
  BY DEF PolledInv
<1> QED
  BY <1>1, <1>2, SerialStep, PTL

\* What SYSEX_I2C_REQUEST and SERIAL_READ have asked for, with room for it, is read in every round,
\* each query once, until it is stopped or the board is reset, and nothing else is, as long as no
\* stop names what is not read and no reset finds queries of a bus that is off
\* (StandardFirmata.ino, lines 489-585, 785-823; SerialFirmata.cpp, lines 52-208, 296-342).
ReadsAsAsked == QueriesAsAsked /\ PolledAsAsked

\* Both lists, of the queries over I2C and of the serial ports, for every number of addresses, ports
\* and queries: through asks that are refused, buses that are off, and, once all is given up, after
\* stops of what was not read.
THEOREM ReadsAsAskedHolds ==
  /\ BoardInit /\ [][BoardNext]_boardVars
  /\ SerialInit /\ [][SerialNext]_serialVars
  => []ReadsAsAsked
<1>1. QueriesAsAsked /\ PolledAsAsked => ReadsAsAsked
  BY DEF ReadsAsAsked
<1> QED
  BY <1>1, QueriesAsAskedHolds, PolledAsAskedHolds, PTL

-----------------------------------------------------------------------------
(* The wire. *)

\* What callbacks are called with.
Names == {"overrun", "firmware", "string", "sysex", "analog", "digital", "pinMode", "pinValue",
          "reportAnalog", "reportDigital", "version", "reset"}
Callbacks ==
    UNION {{<<n>> : n \in Names}, Names \X Int, Names \X Int \X Int, Names \X Seq(Int),
           Names \X Int \X Seq(Int), Names \X Int \X Int \X Seq(Int)}
Parsers == [buf : [0 .. BufferSize - 1 -> Int], wait : Int, cmd : Int, chan : Int, sysex : BOOLEAN,
            n : Nat, call : Seq(Callbacks)]

Codes == {DIGITAL_MESSAGE, REPORT_ANALOG, REPORT_DIGITAL, ANALOG_MESSAGE, SET_PIN_MODE, SET_DIGITAL_PIN_VALUE}

-----------------------------------------------------------------------------
LEMMA WithCall ==
  ASSUME NEW p \in Parsers, NEW c \in Seq(Callbacks)
  PROVE  /\ [p EXCEPT !.call = c] \in Parsers
         /\ [p EXCEPT !.call = c, !.cmd = 0] \in Parsers
         /\ [p EXCEPT !.sysex = FALSE, !.call = c] \in Parsers
         /\ [p EXCEPT !.sysex = TRUE, !.n = 0] \in Parsers
<1>1. [p EXCEPT !.call = c] \in Parsers
  BY DEF Parsers
<1>2. [p EXCEPT !.call = c, !.cmd = 0] \in Parsers
  <2> DEFINE q == [p EXCEPT !.call = c]
  <2>1. [p EXCEPT !.call = c, !.cmd = 0] = [q EXCEPT !.cmd = 0]
    BY DEF Parsers
  <2> HIDE DEF q
  <2>2. q \in Parsers
    BY <1>1 DEF q
  <2>3. ASSUME NEW k \in Int PROVE [q EXCEPT !.cmd = k] \in Parsers
    BY <2>2 DEF Parsers
  <2>4. [q EXCEPT !.cmd = 0] \in Parsers
    <3>1. PICK z \in Int : z = 0
      OBVIOUS
    <3> QED
      BY <2>3, <3>1, Zenon
  <2> QED
    BY <2>1, <2>4, Zenon
<1>3. ASSUME NEW b \in BOOLEAN, NEW k \in Nat
      PROVE  [p EXCEPT !.sysex = b, !.call = c] \in Parsers /\ [p EXCEPT !.sysex = b, !.n = k] \in Parsers
  BY DEF Parsers
<1> QED
  BY <1>1, <1>2, <1>3

\* A byte is put into the buffer, or behind it and nowhere.
LEMMA Buffered ==
  ASSUME NEW p \in Parsers, NEW b \in Int, NEW k \in Int, k >= 0
  PROVE  BufferDataAtPosition(p, b, k) \in Parsers
  BY WireAssumption DEF BufferDataAtPosition, Parsers

\* Two bytes of the buffer make one, and the result is a sequence of as many.
LEMMA Decoded ==
  ASSUME NEW p \in Parsers, NEW from \in Nat, NEW count \in Nat, from + count <= BufferSize
  PROVE  DecodeByteStream(p, from, count) \in Seq(Int)
<1> DEFINE Byte(i) == Joined(p.buf[from + 2 * i - 2], p.buf[(from + 2 * i - 1) % BufferSize])
<1>1. ASSUME NEW i \in 1 .. (count + 1) \div 2 PROVE Byte(i) \in Int
  <2>1. from + 2 * i - 2 \in 0 .. BufferSize - 1
    BY <1>1, WireAssumption
  <2>2. (from + 2 * i - 1) % BufferSize \in 0 .. BufferSize - 1
    BY <1>1, WireAssumption
  <2>3. \A j \in 0 .. BufferSize - 1 : p.buf[j] \in Int
    BY DEF Parsers
  <2>4. p.buf[from + 2 * i - 2] \in Int /\ p.buf[(from + 2 * i - 1) % BufferSize] \in Int
    BY <2>1, <2>2, <2>3
  <2>5. \A low, high \in Int : Joined(low, high) \in Int
    BY DEF Joined
  <2> QED
    BY <2>4, <2>5
<1>2. (count + 1) \div 2 \in Nat
  OBVIOUS
<1>3. DecodeByteStream(p, from, count) = [i \in 1 .. (count + 1) \div 2 |-> Byte(i)]
  BY DEF DecodeByteStream
<1> HIDE DEF Byte
<1> QED
  BY <1>1, <1>2, <1>3

LEMMA SysexCallback ==
  ASSUME NEW p \in Parsers
  PROVE  ProcessSysexMessage(p) \in Callbacks
<1>1. p.buf[0] \in Int /\ p.n \in Nat /\ \A i \in 0 .. BufferSize - 1 : p.buf[i] \in Int
  BY WireAssumption DEF Parsers
<1>2. CASE p.n > BufferSize
  <2>1. ProcessSysexMessage(p) = <<"overrun", p.buf[0]>>
    BY <1>2 DEF ProcessSysexMessage
  <2> QED
    BY <1>1, <2>1 DEF Callbacks, Names
<1>3. CASE p.n <= BufferSize /\ p.buf[0] = REPORT_FIRMWARE /\ p.n < 3
  <2>1. ProcessSysexMessage(p) = <<"firmware", 0, 0, <<>>>>
    BY <1>1, <1>3, WireAssumption DEF ProcessSysexMessage
  <2> DEFINE none == <<>>
  <2>2. "firmware" \in Names /\ none \in Seq(Int) /\ ProcessSysexMessage(p) = <<"firmware", 0, 0, none>>
    BY <2>1 DEF Names
  <2> HIDE DEF none
  <2> QED
    BY <2>2 DEF Callbacks
<1>4. CASE p.n <= BufferSize /\ p.buf[0] = REPORT_FIRMWARE /\ p.n >= 3
  <2>1. ProcessSysexMessage(p) = <<"firmware", p.buf[1], p.buf[2], DecodeByteStream(p, 3, p.n - 3)>>
    BY <1>1, <1>4, WireAssumption DEF ProcessSysexMessage
  <2>2. DecodeByteStream(p, 3, p.n - 3) \in Seq(Int)
    <3>1. 3 \in Nat /\ p.n - 3 \in Nat /\ 3 + (p.n - 3) <= BufferSize
      BY <1>1, <1>4, WireAssumption
    <3> QED
      BY <3>1, Decoded
  <2>3. p.buf[1] \in Int /\ p.buf[2] \in Int
    BY <1>1, WireAssumption
  <2> QED
    BY <2>1, <2>2, <2>3 DEF Callbacks, Names
<1>5. CASE p.n <= BufferSize /\ p.buf[0] # REPORT_FIRMWARE /\ p.n = 0
  <2>1. ProcessSysexMessage(p) = <<"overrun", p.buf[0]>>
    BY <1>1, <1>5, WireAssumption DEF ProcessSysexMessage
  <2> QED
    BY <1>1, <2>1 DEF Callbacks, Names
<1>6. CASE p.n <= BufferSize /\ p.buf[0] # REPORT_FIRMWARE /\ p.n # 0 /\ p.buf[0] = STRING_DATA
  <2>1. ProcessSysexMessage(p) = <<"string", DecodeByteStream(p, 1, p.n - 1)>>
    BY <1>1, <1>6, WireAssumption DEF ProcessSysexMessage
  <2>2. DecodeByteStream(p, 1, p.n - 1) \in Seq(Int)
    <3>1. 1 \in Nat /\ p.n - 1 \in Nat /\ 1 + (p.n - 1) <= BufferSize
      BY <1>1, <1>6, WireAssumption
    <3> QED
      BY <3>1, Decoded
  <2> QED
    BY <2>1, <2>2 DEF Callbacks, Names
<1>7. CASE p.n <= BufferSize /\ p.buf[0] # REPORT_FIRMWARE /\ p.n # 0 /\ p.buf[0] # STRING_DATA
  <2> DEFINE rest == [i \in 1 .. p.n - 1 |-> p.buf[i]]
  <2>0. ~(p.n > BufferSize)
    BY <1>1, <1>7, WireAssumption
  <2>1. ProcessSysexMessage(p) = <<"sysex", p.buf[0], rest>>
    BY <2>0, <1>7, Zenon DEF ProcessSysexMessage
  <2>2. rest \in Seq(Int)
    <3>1. p.n - 1 \in Nat /\ \A i \in 1 .. p.n - 1 : p.buf[i] \in Int
      BY <1>1, <1>7, WireAssumption
    <3> QED
      BY <3>1
  <2> HIDE DEF rest
  <2> QED
    BY <1>1, <2>1, <2>2 DEF Callbacks, Names
<1> QED
  BY <1>1, <1>2, <1>3, <1>4, <1>5, <1>6, <1>7, WireAssumption

\* The command that is waited for decides on the callback.
LEMMA FixedCallback ==
  ASSUME NEW p \in Parsers, p.cmd \in Codes
  PROVE  MultiByteMessage(p) \in Callbacks
<1>1. p.buf[0] \in Int /\ p.buf[1] \in Int /\ p.chan \in Int
  BY WireAssumption DEF Parsers
<1>2. p.buf[0] * 128 + p.buf[1] \in Int
  BY <1>1
<1> QED
  BY <1>1, <1>2 DEF MultiByteMessage, Callbacks, Names, Codes, DIGITAL_MESSAGE, REPORT_ANALOG, REPORT_DIGITAL,
     ANALOG_MESSAGE, SET_PIN_MODE, SET_DIGITAL_PIN_VALUE

\* What the parser knows stays of its types, whatever is read.
LEMMA DataType ==
  ASSUME NEW p \in Parsers, NEW b \in Int, p.cmd \in Codes \cup {0}, p.wait > 0
  PROVE  Data(p, b) \in Parsers /\ Data(p, b).cmd \in Codes \cup {0}
<1> DEFINE w == [p EXCEPT !.wait = @ - 1]
           q == BufferDataAtPosition(w, b, p.wait - 1)
<1>1. w \in Parsers /\ p.wait - 1 \in Int /\ p.wait - 1 >= 0
  BY DEF Parsers
<1>2. q \in Parsers
  <2> HIDE DEF w
  <2> QED
    BY <1>1, Buffered
<1>3. q.cmd = p.cmd
  BY DEF BufferDataAtPosition, Parsers
<1>4. Data(p, b) = IF q.wait = 0 /\ q.cmd # 0 THEN [q EXCEPT !.call = <<MultiByteMessage(q)>>, !.cmd = 0] ELSE q
  BY DEF Data
<1> HIDE DEF q
<1>5. CASE q.wait = 0 /\ q.cmd # 0
  <2>1. MultiByteMessage(q) \in Callbacks
    BY <1>2, <1>3, <1>5, FixedCallback
  <2> DEFINE c == <<MultiByteMessage(q)>>
  <2>2. c \in Seq(Callbacks)
    BY <2>1
  <2>3. Data(p, b) = [q EXCEPT !.call = c, !.cmd = 0]
    BY <1>4, <1>5
  <2> HIDE DEF c
  <2>4. Data(p, b) \in Parsers
    BY <1>2, <2>2, <2>3, WithCall
  <2>5. Data(p, b).cmd = 0
    BY <1>2, <2>3 DEF Parsers
  <2> QED
    BY <2>4, <2>5
<1>6. CASE ~(q.wait = 0 /\ q.cmd # 0)
  BY <1>2, <1>3, <1>4, <1>6
<1> QED
  BY <1>5, <1>6

LEMMA IdleType == Idle \in Parsers /\ Idle.cmd = 0
  BY WireAssumption DEF Idle, Parsers

LEMMA CommandType ==
  ASSUME NEW p \in Parsers, NEW b \in Int, p.cmd \in Codes \cup {0}
  PROVE  Command(p, b) \in Parsers /\ Command(p, b).cmd \in Codes \cup {0}
<1> DEFINE command == IF b < 240 THEN b - (b % 16) ELSE b
           q == IF b < 240 THEN [p EXCEPT !.chan = b % 16] ELSE p
           Expect(k) == [q EXCEPT !.wait = k, !.cmd = command]
<1>1. command \in Int /\ q \in Parsers /\ q.cmd = p.cmd
  <2>1. b % 16 \in Int /\ command \in Int
    OBVIOUS
  <2>2. \A c \in Int : [p EXCEPT !.chan = c] \in Parsers /\ [p EXCEPT !.chan = c].cmd = p.cmd
    BY DEF Parsers
  <2> QED
    BY <2>1, <2>2
<1>2. Command(p, b) = CASE command \in {ANALOG_MESSAGE, DIGITAL_MESSAGE, SET_PIN_MODE, SET_DIGITAL_PIN_VALUE} -> Expect(2)
         [] command \in {REPORT_ANALOG, REPORT_DIGITAL} -> Expect(1)
         [] command = START_SYSEX    -> [q EXCEPT !.sysex = TRUE, !.n = 0]
         [] command = SYSTEM_RESET   -> [Idle EXCEPT !.call = <<<<"reset">>>>]
         [] command = REPORT_VERSION -> [q EXCEPT !.call = <<<<"version">>>>]
         [] OTHER -> q
  BY DEF Command
<1> HIDE DEF command, q
<1>3. CASE command \in Codes
  <2>1. Command(p, b) = Expect(2) \/ Command(p, b) = Expect(1)
    BY <1>2, <1>3 DEF Codes, DIGITAL_MESSAGE, REPORT_ANALOG, REPORT_DIGITAL, ANALOG_MESSAGE, SET_PIN_MODE,
       SET_DIGITAL_PIN_VALUE, START_SYSEX, SYSTEM_RESET, REPORT_VERSION
  <2>2. \A k \in Int : Expect(k) \in Parsers /\ Expect(k).cmd = command
    BY <1>1 DEF Parsers
  <2> HIDE DEF Expect
  <2> QED
    BY <1>3, <2>1, <2>2
<1>4. CASE command = START_SYSEX
  <2>1. Command(p, b) = [q EXCEPT !.sysex = TRUE, !.n = 0]
    BY <1>2, <1>4 DEF DIGITAL_MESSAGE, REPORT_ANALOG, REPORT_DIGITAL, ANALOG_MESSAGE, SET_PIN_MODE,
       SET_DIGITAL_PIN_VALUE, START_SYSEX, SYSTEM_RESET, REPORT_VERSION
  <2>2. Command(p, b) \in Parsers
    <3>1. <<>> \in Seq(Callbacks)
      OBVIOUS
    <3>2. PICK c \in Seq(Callbacks) : TRUE
      BY <3>1, Zenon
    <3> QED
      BY <1>1, <2>1, <3>2, WithCall
  <2>3. Command(p, b).cmd = q.cmd
    BY <1>1, <2>1 DEF Parsers
  <2> QED
    BY <1>1, <2>2, <2>3
<1> DEFINE reset == <<<<"reset">>>>
           version == <<<<"version">>>>
<1>t. reset \in Seq(Callbacks) /\ version \in Seq(Callbacks)
  BY DEF Callbacks, Names
<1>5. CASE command = SYSTEM_RESET
  <2>1. Command(p, b) = [Idle EXCEPT !.call = reset]
    BY <1>2, <1>5 DEF DIGITAL_MESSAGE, REPORT_ANALOG, REPORT_DIGITAL, ANALOG_MESSAGE, SET_PIN_MODE,
       SET_DIGITAL_PIN_VALUE, START_SYSEX, SYSTEM_RESET, REPORT_VERSION
  <2> HIDE DEF reset
  <2>2. Command(p, b) \in Parsers
    BY <1>t, <2>1, IdleType, WithCall
  <2>3. Command(p, b).cmd = Idle.cmd
    BY <2>1, IdleType DEF Parsers
  <2> QED
    BY <2>2, <2>3, IdleType
<1>6. CASE command = REPORT_VERSION
  <2>1. Command(p, b) = [q EXCEPT !.call = version]
    BY <1>2, <1>6 DEF DIGITAL_MESSAGE, REPORT_ANALOG, REPORT_DIGITAL, ANALOG_MESSAGE, SET_PIN_MODE,
       SET_DIGITAL_PIN_VALUE, START_SYSEX, SYSTEM_RESET, REPORT_VERSION
  <2> HIDE DEF version
  <2>2. Command(p, b) \in Parsers
    BY <1>1, <1>t, <2>1, WithCall
  <2>3. Command(p, b).cmd = q.cmd
    BY <1>1, <2>1 DEF Parsers
  <2> QED
    BY <1>1, <2>2, <2>3
<1>7. CASE command \notin Codes \cup {START_SYSEX, SYSTEM_RESET, REPORT_VERSION}
  <2>1. Command(p, b) = q
    BY <1>2, <1>7 DEF Codes
  <2> QED
    BY <1>1, <2>1
<1> QED
  BY <1>3, <1>4, <1>5, <1>6, <1>7

\* The states that reading can lead to.
States == {p \in Parsers : p.cmd \in Codes \cup {0}}

LEMMA ParseType ==
  ASSUME NEW was \in States, NEW b \in Int
  PROVE  ParseByte(was, b) \in States
<1> DEFINE p == [was EXCEPT !.call = <<>>]
<1>1. p \in Parsers /\ p.cmd \in Codes \cup {0}
  <2> DEFINE none == <<>>
  <2>1. none \in Seq(Callbacks) /\ p = [was EXCEPT !.call = none]
    OBVIOUS
  <2>2. was \in Parsers /\ was.cmd \in Codes \cup {0}
    BY DEF States
  <2> HIDE DEF none, p
  <2>3. p \in Parsers
    BY <2>1, <2>2, WithCall
  <2>4. p.cmd = was.cmd
    BY <2>1, <2>2 DEF Parsers
  <2> QED
    BY <2>2, <2>3, <2>4
<1>2. ParseByte(was, b) =
        CASE p.sysex /\ b = END_SYSEX -> [p EXCEPT !.sysex = FALSE, !.call = <<ProcessSysexMessage(p)>>]
          [] p.sysex /\ b # END_SYSEX -> [BufferDataAtPosition(p, b, p.n) EXCEPT !.n = IF @ > BufferSize THEN @ ELSE @ + 1]
          [] ~p.sysex /\ p.wait > 0 /\ b < 128 -> Data(p, b)
          [] OTHER -> Command(p, b)
  BY DEF ParseByte
<1> HIDE DEF p
<1>3. CASE p.sysex /\ b = END_SYSEX
  <2> DEFINE c == <<ProcessSysexMessage(p)>>
  <2>1. c \in Seq(Callbacks)
    BY <1>1, SysexCallback
  <2>2. ParseByte(was, b) = [p EXCEPT !.sysex = FALSE, !.call = c]
    BY <1>2, <1>3
  <2> HIDE DEF c
  <2>3. ParseByte(was, b) \in Parsers
    BY <1>1, <2>1, <2>2, WithCall
  <2>4. ParseByte(was, b).cmd = p.cmd
    BY <1>1, <2>2 DEF Parsers
  <2> QED
    BY <1>1, <2>3, <2>4 DEF States
<1>4. CASE p.sysex /\ b # END_SYSEX
  <2> DEFINE q == BufferDataAtPosition(p, b, p.n)
  <2>1. q \in Parsers
    <3>1. p.n \in Int /\ p.n >= 0
      BY <1>1 DEF Parsers
    <3> QED
      BY <1>1, <3>1, Buffered
  <2>2. q.cmd = p.cmd
    BY <1>1 DEF BufferDataAtPosition, Parsers
  <2>3. ParseByte(was, b) = [q EXCEPT !.n = IF @ > BufferSize THEN @ ELSE @ + 1]
    BY <1>2, <1>4
  <2> HIDE DEF q
  <2> DEFINE m == IF q.n > BufferSize THEN q.n ELSE q.n + 1
  <2>4. m \in Nat
    BY <2>1, WireAssumption DEF Parsers
  <2>5. ParseByte(was, b) = [q EXCEPT !.n = m]
    BY <2>3
  <2> HIDE DEF m
  <2>6. ParseByte(was, b) \in Parsers
    BY <2>1, <2>4, <2>5 DEF Parsers
  <2>7. ParseByte(was, b).cmd = q.cmd
    BY <2>1, <2>5 DEF Parsers
  <2> QED
    BY <1>1, <2>2, <2>6, <2>7 DEF States
<1>5. CASE ~p.sysex /\ p.wait > 0 /\ b < 128
  <2>1. ParseByte(was, b) = Data(p, b)
    BY <1>2, <1>5
  <2> QED
    BY <1>1, <1>5, <2>1, DataType DEF States
<1>6. CASE ~p.sysex /\ ~(p.wait > 0 /\ b < 128)
  <2>1. ParseByte(was, b) = Command(p, b)
    BY <1>2, <1>6
  <2> QED
    BY <1>1, <2>1, CommandType DEF States
<1> QED
  BY <1>1, <1>3, <1>4, <1>5, <1>6 DEF Parsers

-----------------------------------------------------------------------------
\* Reading to the end.  The function that AtEnd chooses is the one the definition names.
Reached == [parser : States, calls : Seq(Callbacks)]
Reading(f, p, s) == f = [i \in 0 .. Len(s) |-> IF i = 0 THEN [parser |-> p, calls |-> <<>>] ELSE ReadOn(f[i - 1], s[i])]

LEMMA ReadOnType ==
  ASSUME NEW r \in Reached, NEW b \in Int
  PROVE  ReadOn(r, b) \in Reached
<1> DEFINE q == ParseByte(r.parser, b)
<1>1. q \in States
  BY ParseType DEF Reached
<1>2. q.call \in Seq(Callbacks) /\ r.calls \in Seq(Callbacks)
  BY <1>1 DEF States, Parsers, Reached
<1> DEFINE c == r.calls \o q.call
<1>3. c \in Seq(Callbacks)
  <2> HIDE DEF q
  <2> QED
    BY <1>2
<1>4. ReadOn(r, b) = [parser |-> q, calls |-> c]
  BY DEF ReadOn
<1> HIDE DEF q, c
<1> QED
  BY <1>1, <1>3, <1>4 DEF Reached

LEMMA StartReached ==
  ASSUME NEW p \in States
  PROVE  [parser |-> p, calls |-> <<>>] \in Reached
<1> DEFINE none == <<>>
<1>1. none \in Seq(Callbacks)
  OBVIOUS
<1> HIDE DEF none
<1>2. [parser |-> p, calls |-> none] \in Reached
  BY <1>1 DEF Reached
<1> QED
  BY <1>2 DEF none

LEMMA ReadingRuns ==
  ASSUME NEW p \in States, NEW s \in Seq(Int)
  PROVE  \E f : Reading(f, p, s)
<1> DEFINE N == Len(s)
           base == [parser |-> p, calls |-> <<>>]
           step == [i \in 0 .. N - 1 |-> [r \in Reached |-> ReadOn(r, s[i + 1])]]
<1>1. N \in Nat /\ \A i \in 1 .. N : s[i] \in Int
  OBVIOUS
<1>2. base \in Reached
  BY StartReached
<1>3. step \in [0 .. N - 1 -> [Reached -> Reached]]
  <2> HIDE DEF N
  <2>1. ASSUME NEW i \in 0 .. N - 1, NEW r \in Reached PROVE ReadOn(r, s[i + 1]) \in Reached
    <3>1. s[i + 1] \in Int
      BY <1>1
    <3> QED
      BY <3>1, ReadOnType
  <2> QED
    BY <2>1
<1> HIDE DEF base, N
<1>4. PICK f \in [0 .. N -> Reached] : f[0] = base /\ \A i \in 0 .. N - 1 : f[i + 1] = step[i][f[i]]
  <2> HIDE DEF step
  <2>1. \E f : LoopRun(f, N, Reached, base, step)
    BY <1>1, <1>2, <1>3, LoopExists
  <2> QED
    BY <2>1 DEF LoopRun
<1>5. ASSUME NEW n \in 0 .. N, n # 0 PROVE f[n] = ReadOn(f[n - 1], s[n])
  <2>1. n - 1 \in 0 .. N - 1 /\ n - 1 \in 0 .. N /\ (n - 1) + 1 = n
    BY <1>1, <1>5
  <2>2. f[(n - 1) + 1] = step[n - 1][f[n - 1]] /\ f[n - 1] \in Reached
    BY <1>4, <2>1
  <2> QED
    BY <2>1, <2>2
<1> QED
  BY <1>4, <1>5 DEF Reading, base, N

\* What is known of it: where it begins, what a byte adds, and its type.
LEMMA ReadingSteps ==
  ASSUME NEW p \in States, NEW s \in Seq(Int), NEW f, Reading(f, p, s)
  PROVE  /\ f[0] = [parser |-> p, calls |-> <<>>]
         /\ \A i \in 1 .. Len(s) : f[i] = ReadOn(f[i - 1], s[i])
         /\ \A i \in 0 .. Len(s) : f[i] \in Reached
<1>1. Len(s) \in Nat /\ \A i \in 1 .. Len(s) : s[i] \in Int
  OBVIOUS
<1>2. \A i \in 0 .. Len(s) : f[i] = IF i = 0 THEN [parser |-> p, calls |-> <<>>] ELSE ReadOn(f[i - 1], s[i])
  BY DEF Reading
<1>3. f[0] = [parser |-> p, calls |-> <<>>]
  BY <1>1, <1>2
<1>4. ASSUME NEW i \in 1 .. Len(s) PROVE f[i] = ReadOn(f[i - 1], s[i])
  <2>1. i \in 0 .. Len(s) /\ i # 0
    BY <1>1
  <2> QED
    BY <1>2, <2>1
<1> DEFINE R == {n \in Nat : n <= Len(s) => f[n] \in Reached}
<1>5. 0 \in R
  BY <1>3, StartReached
<1>6. ASSUME NEW n \in Nat, n \in R PROVE n + 1 \in R
  <2> SUFFICES ASSUME n + 1 <= Len(s) PROVE f[n + 1] \in Reached
    OBVIOUS
  <2>1. n + 1 \in 1 .. Len(s) /\ (n + 1) - 1 = n /\ f[n] \in Reached
    BY <1>1, <1>6
  <2>2. f[n + 1] = ReadOn(f[n], s[n + 1])
    BY <1>4, <2>1
  <2>3. s[n + 1] \in Int
    BY <1>1, <2>1
  <2> QED
    BY <2>1, <2>2, <2>3, ReadOnType
<1>7. Nat \subseteq R
  <2> HIDE DEF R
  <2> QED
    BY <1>5, <1>6, SetInduction
<1> QED
  BY <1>1, <1>3, <1>4, <1>7

LEMMA AtEndIs ==
  ASSUME NEW p \in States, NEW s \in Seq(Int)
  PROVE  \E f : Reading(f, p, s) /\ AtEnd(p, s) = f[Len(s)]
<1> DEFINE g == CHOOSE f : Reading(f, p, s)
<1>1. Reading(g, p, s)
  BY ReadingRuns
<1>2. AtEnd(p, s) = g[Len(s)]
  BY DEF AtEnd, Reading
<1> HIDE DEF g
<1> QED
  BY <1>1, <1>2

LEMMA AtEndType ==
  ASSUME NEW p \in States, NEW s \in Seq(Int)
  PROVE  AtEnd(p, s) \in Reached
<1>1. PICK f : Reading(f, p, s) /\ AtEnd(p, s) = f[Len(s)]
  BY AtEndIs
<1>2. Len(s) \in 0 .. Len(s)
  OBVIOUS
<1> QED
  BY <1>1, <1>2, ReadingSteps

\* One byte more is read behind all that was read before.
LEMMA AtEndAppend ==
  ASSUME NEW p \in States, NEW s \in Seq(Int), NEW b \in Int
  PROVE  AtEnd(p, Append(s, b)) = ReadOn(AtEnd(p, s), b)
<1> DEFINE t == Append(s, b)
<1>1. /\ t \in Seq(Int) /\ Len(t) = Len(s) + 1 /\ Len(s) \in Nat
      /\ t[Len(s) + 1] = b /\ \A i \in 1 .. Len(s) : t[i] = s[i]
  OBVIOUS
<1> HIDE DEF t
<1>2. PICK f : Reading(f, p, s) /\ AtEnd(p, s) = f[Len(s)]
  BY AtEndIs
<1>3. PICK g : Reading(g, p, t) /\ AtEnd(p, t) = g[Len(t)]
  BY <1>1, AtEndIs
<1>4. /\ f[0] = [parser |-> p, calls |-> <<>>]
      /\ \A i \in 1 .. Len(s) : f[i] = ReadOn(f[i - 1], s[i])
  BY <1>2, ReadingSteps
<1>5. /\ g[0] = [parser |-> p, calls |-> <<>>]
      /\ \A i \in 1 .. Len(t) : g[i] = ReadOn(g[i - 1], t[i])
  BY <1>1, <1>3, ReadingSteps
<1> DEFINE R == {n \in Nat : n <= Len(s) => f[n] = g[n]}
<1>6. 0 \in R
  BY <1>4, <1>5
<1>7. ASSUME NEW n \in Nat, n \in R PROVE n + 1 \in R
  <2> SUFFICES ASSUME n + 1 <= Len(s) PROVE f[n + 1] = g[n + 1]
    OBVIOUS
  <2>1. n + 1 \in 1 .. Len(s) /\ n + 1 \in 1 .. Len(t) /\ (n + 1) - 1 = n /\ f[n] = g[n]
    BY <1>1, <1>7
  <2>2. f[n + 1] = ReadOn(f[n], s[n + 1])
    BY <1>4, <2>1
  <2>3. g[n + 1] = ReadOn(g[n], t[n + 1])
    BY <1>5, <2>1
  <2>4. t[n + 1] = s[n + 1]
    BY <1>1, <2>1
  <2> QED
    BY <2>1, <2>2, <2>3, <2>4
<1>8. Nat \subseteq R
  <2> HIDE DEF R
  <2> QED
    BY <1>6, <1>7, SetInduction
<1>9. f[Len(s)] = g[Len(s)]
  BY <1>1, <1>8
<1>10. Len(t) \in 1 .. Len(t) /\ Len(t) - 1 = Len(s)
  BY <1>1
<1>11. g[Len(t)] = ReadOn(g[Len(s)], b)
  BY <1>1, <1>5, <1>10
<1> QED
  BY <1>2, <1>3, <1>9, <1>11 DEF t

LEMMA ThreeBytes ==
  ASSUME NEW s \in Seq(Int), NEW a \in Int, NEW b \in Int, NEW c \in Int
  PROVE  /\ s \o <<a>> = Append(s, a)
         /\ s \o <<a, b>> = Append(Append(s, a), b)
         /\ s \o <<a, b, c>> = Append(Append(Append(s, a), b), c)
  OBVIOUS

\* Of a sequence that grows at its end.
LEMMA ConcatAppend ==
  ASSUME NEW s \in Seq(Int), NEW t \in Seq(Int), NEW b \in Int
  PROVE  s \o Append(t, b) = Append(s \o t, b)
  OBVIOUS

-----------------------------------------------------------------------------
\* Bytes of the messages of fixed length.
Kind(b) == IF b < 240 THEN b - (b % 16) ELSE b

LEMMA CommandRead ==
  ASSUME NEW r \in Reached, ~r.parser.sysex, NEW b \in Int, b >= 128, Kind(b) \in Codes
  PROVE  LET q == ReadOn(r, b)
         IN /\ q.calls = r.calls /\ ~q.parser.sysex /\ q.parser.cmd = Kind(b)
            /\ b < 240 => q.parser.chan = b % 16
            /\ q.parser.wait = IF Kind(b) \in {REPORT_ANALOG, REPORT_DIGITAL} THEN 1 ELSE 2
<1> DEFINE none == <<>>
           p == [r.parser EXCEPT !.call = none]
           o == IF b < 240 THEN [p EXCEPT !.chan = b % 16] ELSE p
           q == ParseByte(r.parser, b)
           k == IF Kind(b) \in {REPORT_ANALOG, REPORT_DIGITAL} THEN 1 ELSE 2
<1>1. none \in Seq(Callbacks) /\ r.parser \in Parsers /\ r.calls \in Seq(Callbacks) /\ r.calls \o none = r.calls
  BY DEF Reached, States
<1>2. q = Command(p, b)
  <2>1. p.sysex = r.parser.sysex
    BY <1>1 DEF Parsers
  <2>2. ~(b < 128)
    OBVIOUS
  <2> HIDE DEF p
  <2>3. /\ ~(p.sysex /\ b = END_SYSEX) /\ ~(p.sysex /\ b # END_SYSEX) /\ ~(~p.sysex /\ p.wait > 0 /\ b < 128)
    BY <2>1, <2>2
  <2> QED
    BY <2>3 DEF ParseByte, p
<1> HIDE DEF none
<1>3. p \in Parsers /\ p.call = none /\ p.sysex = r.parser.sysex
  <2>1. p \in Parsers
    BY <1>1, WithCall
  <2> QED
    BY <1>1, <2>1 DEF Parsers
<1> HIDE DEF p
<1>4. o \in Parsers /\ o.call = none /\ ~o.sysex /\ (b < 240 => o.chan = b % 16)
  BY <1>3 DEF Parsers
<1>5. Command(p, b) = [o EXCEPT !.wait = k, !.cmd = Kind(b)]
  <2> DEFINE command == Kind(b)
             Expect(n) == [o EXCEPT !.wait = n, !.cmd = command]
  <2>1. Command(p, b) = CASE command \in {ANALOG_MESSAGE, DIGITAL_MESSAGE, SET_PIN_MODE, SET_DIGITAL_PIN_VALUE} -> Expect(2)
         [] command \in {REPORT_ANALOG, REPORT_DIGITAL} -> Expect(1)
         [] command = START_SYSEX    -> [o EXCEPT !.sysex = TRUE, !.n = 0]
         [] command = SYSTEM_RESET   -> [Idle EXCEPT !.call = <<<<"reset">>>>]
         [] command = REPORT_VERSION -> [o EXCEPT !.call = <<<<"version">>>>]
         [] OTHER -> o
    BY DEF Command, Kind
  <2> HIDE DEF command, o
  <2>2. CASE command \in {REPORT_ANALOG, REPORT_DIGITAL}
    <3>1. Command(p, b) = Expect(1)
      BY <2>1, <2>2 DEF DIGITAL_MESSAGE, REPORT_ANALOG, REPORT_DIGITAL, ANALOG_MESSAGE, SET_PIN_MODE,
         SET_DIGITAL_PIN_VALUE, START_SYSEX, SYSTEM_RESET, REPORT_VERSION
    <3>2. k = 1
      BY <2>2 DEF command
    <3> QED
      BY <3>1, <3>2 DEF command
  <2>3. CASE command \in {ANALOG_MESSAGE, DIGITAL_MESSAGE, SET_PIN_MODE, SET_DIGITAL_PIN_VALUE}
    <3>1. Command(p, b) = Expect(2)
      BY <2>1, <2>3 DEF DIGITAL_MESSAGE, REPORT_ANALOG, REPORT_DIGITAL, ANALOG_MESSAGE, SET_PIN_MODE,
         SET_DIGITAL_PIN_VALUE, START_SYSEX, SYSTEM_RESET, REPORT_VERSION
    <3>2. k = 2
      BY <2>3 DEF command, DIGITAL_MESSAGE, REPORT_ANALOG, REPORT_DIGITAL, ANALOG_MESSAGE, SET_PIN_MODE,
         SET_DIGITAL_PIN_VALUE
    <3> QED
      BY <3>1, <3>2 DEF command
  <2> QED
    BY <2>2, <2>3 DEF Codes, command
<1> HIDE DEF o, k
<1>6. /\ q.cmd = Kind(b) /\ q.wait = k /\ q.sysex = o.sysex /\ q.chan = o.chan /\ q.call = o.call
  <2> HIDE DEF q
  <2> QED
    BY <1>2, <1>4, <1>5 DEF Parsers
<1>7. ReadOn(r, b) = [parser |-> q, calls |-> r.calls \o q.call]
  BY DEF ReadOn
<1> HIDE DEF q
<1>8. ReadOn(r, b).parser = q /\ ReadOn(r, b).calls = r.calls
  BY <1>1, <1>4, <1>6, <1>7
<1> QED
  BY <1>4, <1>6, <1>8 DEF k

\* The first of two bytes is kept behind the place of the second.
LEMMA DataRead ==
  ASSUME NEW r \in Reached, ~r.parser.sysex, r.parser.wait = 2, NEW d \in 0 .. 127
  PROVE  LET q == ReadOn(r, d)
         IN /\ q.calls = r.calls /\ ~q.parser.sysex /\ q.parser.wait = 1
            /\ q.parser.cmd = r.parser.cmd /\ q.parser.chan = r.parser.chan /\ q.parser.buf[1] = d
<1> DEFINE none == <<>>
           p == [r.parser EXCEPT !.call = none]
           w == [p EXCEPT !.wait = @ - 1]
           o == BufferDataAtPosition(w, d, p.wait - 1)
           q == ParseByte(r.parser, d)
<1>1. none \in Seq(Callbacks) /\ r.parser \in Parsers /\ r.calls \in Seq(Callbacks) /\ r.calls \o none = r.calls
  BY DEF Reached, States
<1>2. q = Data([r.parser EXCEPT !.call = <<>>], d)
  <2>1. p.sysex = r.parser.sysex /\ p.wait = r.parser.wait
    BY <1>1 DEF Parsers
  <2>2. d < 128
    OBVIOUS
  <2> HIDE DEF p
  <2>3. /\ ~(p.sysex /\ d = END_SYSEX) /\ ~(p.sysex /\ d # END_SYSEX) /\ ~p.sysex /\ p.wait > 0 /\ d < 128
    BY <2>1, <2>2
  <2> QED
    BY <2>3 DEF ParseByte, p
<1>3. Data(p, d) = IF o.wait = 0 /\ o.cmd # 0 THEN [o EXCEPT !.call = <<MultiByteMessage(o)>>, !.cmd = 0] ELSE o
  BY DEF Data
<1>4. q = Data(p, d)
  BY <1>2
<1> HIDE DEF none
<1>5. /\ p \in Parsers /\ p.call = none /\ p.sysex = r.parser.sysex /\ p.wait = 2
      /\ p.cmd = r.parser.cmd /\ p.chan = r.parser.chan
  <2>1. p \in Parsers
    BY <1>1, WithCall
  <2> QED
    BY <1>1, <2>1 DEF Parsers
<1> HIDE DEF p
<1>6. w \in Parsers /\ w.call = none /\ w.sysex = p.sysex /\ w.wait = 1 /\ w.cmd = p.cmd /\ w.chan = p.chan
  BY <1>5 DEF Parsers
<1> HIDE DEF w
<1>7. o = [w EXCEPT !.buf[1] = d]
  BY <1>5, WireAssumption DEF BufferDataAtPosition
<1> HIDE DEF o
<1>8. /\ o.call = none /\ o.sysex = p.sysex /\ o.wait = 1 /\ o.cmd = p.cmd /\ o.chan = p.chan
      /\ o.buf[1] = d
  BY <1>6, <1>7, WireAssumption DEF Parsers
<1>9. q = o
  BY <1>3, <1>4, <1>8
<1>10. ReadOn(r, d) = [parser |-> q, calls |-> r.calls \o q.call]
  BY DEF ReadOn
<1> HIDE DEF q
<1>11. ReadOn(r, d).parser = q /\ ReadOn(r, d).calls = r.calls
  BY <1>1, <1>8, <1>9, <1>10
<1> QED
  BY <1>5, <1>8, <1>9, <1>11

\* With the last one the callback is made.
LEMMA LastRead ==
  ASSUME NEW r \in Reached, ~r.parser.sysex, r.parser.wait = 1, r.parser.cmd \in Codes, NEW d \in 0 .. 127
  PROVE  \E x \in Parsers :
            /\ ReadOn(r, d).calls = Append(r.calls, MultiByteMessage(x))
            /\ x.cmd = r.parser.cmd /\ x.chan = r.parser.chan
            /\ x.buf[0] = d /\ x.buf[1] = r.parser.buf[1]
<1> DEFINE none == <<>>
           p == [r.parser EXCEPT !.call = none]
           w == [p EXCEPT !.wait = @ - 1]
           o == BufferDataAtPosition(w, d, p.wait - 1)
           q == ParseByte(r.parser, d)
           c == <<MultiByteMessage(o)>>
<1>1. none \in Seq(Callbacks) /\ r.parser \in Parsers /\ r.calls \in Seq(Callbacks)
  BY DEF Reached, States
<1>2. q = Data([r.parser EXCEPT !.call = <<>>], d)
  <2>1. p.sysex = r.parser.sysex /\ p.wait = r.parser.wait
    BY <1>1 DEF Parsers
  <2>2. d < 128
    OBVIOUS
  <2> HIDE DEF p
  <2>3. /\ ~(p.sysex /\ d = END_SYSEX) /\ ~(p.sysex /\ d # END_SYSEX) /\ ~p.sysex /\ p.wait > 0 /\ d < 128
    BY <2>1, <2>2
  <2> QED
    BY <2>3 DEF ParseByte, p
<1>3. Data(p, d) = IF o.wait = 0 /\ o.cmd # 0 THEN [o EXCEPT !.call = c, !.cmd = 0] ELSE o
  BY DEF Data
<1>4. q = Data(p, d)
  BY <1>2
<1> HIDE DEF none
<1>5. /\ p \in Parsers /\ p.sysex = r.parser.sysex /\ p.wait = 1
      /\ p.cmd = r.parser.cmd /\ p.chan = r.parser.chan /\ p.buf = r.parser.buf
  <2>1. p \in Parsers
    BY <1>1, WithCall
  <2> QED
    BY <1>1, <2>1 DEF Parsers
<1> HIDE DEF p
<1>6. w \in Parsers /\ w.wait = 0 /\ w.cmd = p.cmd /\ w.chan = p.chan /\ w.buf = p.buf
  BY <1>5 DEF Parsers
<1> HIDE DEF w
<1>7. o = [w EXCEPT !.buf[0] = d]
  BY <1>5, WireAssumption DEF BufferDataAtPosition
<1>8. o \in Parsers
  BY <1>5, <1>6, Buffered
<1> HIDE DEF o
<1>9. /\ o.wait = 0 /\ o.cmd = p.cmd /\ o.chan = p.chan /\ o.buf[0] = d /\ o.buf[1] = p.buf[1]
  BY <1>6, <1>7, WireAssumption DEF Parsers
<1>10. MultiByteMessage(o) \in Callbacks
  BY <1>5, <1>8, <1>9, FixedCallback
<1>11. c \in Seq(Callbacks) /\ r.calls \o c = Append(r.calls, MultiByteMessage(o))
  BY <1>1, <1>10
<1>12. q = [o EXCEPT !.call = c, !.cmd = 0]
  <2>1. o.cmd # 0
    BY <1>5, <1>9 DEF Codes, DIGITAL_MESSAGE, REPORT_ANALOG, REPORT_DIGITAL, ANALOG_MESSAGE, SET_PIN_MODE, SET_DIGITAL_PIN_VALUE
  <2> QED
    BY <1>3, <1>4, <1>9, <2>1
<1> HIDE DEF c
<1>13. q.call = c
  BY <1>8, <1>12 DEF Parsers
<1>14. ReadOn(r, d) = [parser |-> q, calls |-> r.calls \o q.call]
  BY DEF ReadOn
<1> HIDE DEF q
<1>15. ReadOn(r, d).calls = Append(r.calls, MultiByteMessage(o))
  BY <1>11, <1>13, <1>14
<1> QED
  BY <1>5, <1>8, <1>9, <1>15

\* A command with two bytes of data.
Called(p, s, b, d1, d0) ==
    \E x \in Parsers : /\ AtEnd(p, s \o <<b, d1, d0>>).calls = Append(AtEnd(p, s).calls, MultiByteMessage(x))
                       /\ x.cmd = Kind(b) /\ (b < 240 => x.chan = b % 16) /\ x.buf[0] = d0 /\ x.buf[1] = d1

LEMMA TwoData ==
  ASSUME NEW p \in States, NEW s \in Seq(Int), ~AtEnd(p, s).parser.sysex,
         NEW b \in 128 .. 255, NEW d1 \in 0 .. 127, NEW d0 \in 0 .. 127,
         Kind(b) \in Codes \ {REPORT_ANALOG, REPORT_DIGITAL}
  PROVE  Called(p, s, b, d1, d0)
<1> DEFINE r == AtEnd(p, s)
           s1 == Append(s, b)
           s2 == Append(s1, d1)
           q1 == ReadOn(r, b)
           q2 == ReadOn(q1, d1)
<1>1. b \in Int /\ b >= 128 /\ d1 \in Int /\ d0 \in Int
  OBVIOUS
<1>2. s1 \in Seq(Int) /\ s2 \in Seq(Int) /\ s \o <<b, d1, d0>> = Append(s2, d0)
  <2>1. s1 \in Seq(Int)
    BY <1>1
  <2>2. s2 \in Seq(Int)
    BY <1>1, <2>1
  <2> QED
    BY <1>1, <2>1, <2>2, ThreeBytes
<1>3. AtEnd(p, s1) = q1
  BY <1>1, AtEndAppend
<1> HIDE DEF s1
<1>4. AtEnd(p, s2) = q2
  BY <1>1, <1>2, <1>3, AtEndAppend
<1> HIDE DEF s2
<1>5. AtEnd(p, s \o <<b, d1, d0>>) = ReadOn(q2, d0)
  BY <1>1, <1>2, <1>4, AtEndAppend
<1>6. r \in Reached
  BY AtEndType
<1> HIDE DEF r
<1>7. q1 \in Reached /\ q1.calls = r.calls /\ ~q1.parser.sysex /\ q1.parser.cmd = Kind(b)
      /\ (b < 240 => q1.parser.chan = b % 16) /\ q1.parser.wait = 2
  <2>0. ~r.parser.sysex
    BY DEF r
  <2>1. q1 \in Reached
    BY <1>1, <1>6, ReadOnType
  <2>2. /\ q1.calls = r.calls /\ ~q1.parser.sysex /\ q1.parser.cmd = Kind(b)
        /\ b < 240 => q1.parser.chan = b % 16
        /\ q1.parser.wait = IF Kind(b) \in {REPORT_ANALOG, REPORT_DIGITAL} THEN 1 ELSE 2
    BY <2>0, <1>1, <1>6, CommandRead
  <2> QED
    BY <2>1, <2>2
<1> HIDE DEF q1
<1>8. q2 \in Reached /\ q2.calls = r.calls /\ ~q2.parser.sysex /\ q2.parser.cmd = Kind(b)
      /\ (b < 240 => q2.parser.chan = b % 16) /\ q2.parser.wait = 1 /\ q2.parser.buf[1] = d1
  <2>1. q2 \in Reached
    BY <1>1, <1>7, ReadOnType
  <2>2. /\ q2.calls = q1.calls /\ ~q2.parser.sysex /\ q2.parser.wait = 1
        /\ q2.parser.cmd = q1.parser.cmd /\ q2.parser.chan = q1.parser.chan /\ q2.parser.buf[1] = d1
    BY <1>7, DataRead
  <2> QED
    BY <1>7, <2>1, <2>2
<1> HIDE DEF q2
<1>9. PICK x \in Parsers : /\ ReadOn(q2, d0).calls = Append(q2.calls, MultiByteMessage(x))
                           /\ x.cmd = q2.parser.cmd /\ x.chan = q2.parser.chan
                           /\ x.buf[0] = d0 /\ x.buf[1] = q2.parser.buf[1]
  BY <1>8, LastRead
<1> QED
  BY <1>5, <1>8, <1>9 DEF r, Called

\* A command with one.
Reported(p, s, b, d0) ==
    \E x \in Parsers : /\ AtEnd(p, s \o <<b, d0>>).calls = Append(AtEnd(p, s).calls, MultiByteMessage(x))
                       /\ x.cmd = Kind(b) /\ x.chan = b % 16 /\ x.buf[0] = d0

LEMMA OneData ==
  ASSUME NEW p \in States, NEW s \in Seq(Int), ~AtEnd(p, s).parser.sysex,
         NEW b \in 128 .. 239, NEW d0 \in 0 .. 127, Kind(b) \in {REPORT_ANALOG, REPORT_DIGITAL}
  PROVE  Reported(p, s, b, d0)
<1> DEFINE r == AtEnd(p, s)
           s1 == Append(s, b)
           q1 == ReadOn(r, b)
<1>1. b \in Int /\ b >= 128 /\ b < 240 /\ d0 \in Int /\ Kind(b) \in Codes
  BY DEF Codes
<1>2. s1 \in Seq(Int) /\ s \o <<b, d0>> = Append(s1, d0)
  <2>1. s1 \in Seq(Int)
    BY <1>1
  <2> QED
    BY <1>1, <2>1, ThreeBytes
<1>3. AtEnd(p, s1) = q1
  BY <1>1, AtEndAppend
<1> HIDE DEF s1
<1>5. AtEnd(p, s \o <<b, d0>>) = ReadOn(q1, d0)
  BY <1>1, <1>2, <1>3, AtEndAppend
<1>6. r \in Reached
  BY AtEndType
<1> HIDE DEF r
<1>7. q1 \in Reached /\ q1.calls = r.calls /\ ~q1.parser.sysex /\ q1.parser.cmd = Kind(b)
      /\ q1.parser.chan = b % 16 /\ q1.parser.wait = 1
  <2>0. ~r.parser.sysex
    BY DEF r
  <2>1. q1 \in Reached
    BY <1>1, <1>6, ReadOnType
  <2>2. /\ q1.calls = r.calls /\ ~q1.parser.sysex /\ q1.parser.cmd = Kind(b)
        /\ b < 240 => q1.parser.chan = b % 16
        /\ q1.parser.wait = IF Kind(b) \in {REPORT_ANALOG, REPORT_DIGITAL} THEN 1 ELSE 2
    BY <2>0, <1>1, <1>6, CommandRead
  <2> QED
    BY <1>1, <2>1, <2>2
<1> HIDE DEF q1
<1>9. PICK x \in Parsers : /\ ReadOn(q1, d0).calls = Append(q1.calls, MultiByteMessage(x))
                           /\ x.cmd = q1.parser.cmd /\ x.chan = q1.parser.chan
                           /\ x.buf[0] = d0 /\ x.buf[1] = q1.parser.buf[1]
  BY <1>1, <1>7, LastRead
<1> QED
  BY <1>5, <1>7, <1>9 DEF r, Reported

\* A command without any is a callback at once.
LEMMA NoData ==
  ASSUME NEW p \in States, NEW s \in Seq(Int), ~AtEnd(p, s).parser.sysex
  PROVE  /\ AtEnd(p, s \o <<REPORT_VERSION>>).calls = Append(AtEnd(p, s).calls, <<"version">>)
         /\ AtEnd(p, s \o <<SYSTEM_RESET>>).calls = Append(AtEnd(p, s).calls, <<"reset">>)
<1> DEFINE r == AtEnd(p, s)
           none == <<>>
           o == [r.parser EXCEPT !.call = none]
           version == <<<<"version">>>>
           reset == <<<<"reset">>>>
<1>1. r \in Reached
  BY AtEndType
<1>2. /\ AtEnd(p, s \o <<REPORT_VERSION>>) = ReadOn(r, REPORT_VERSION)
      /\ AtEnd(p, s \o <<SYSTEM_RESET>>) = ReadOn(r, SYSTEM_RESET)
  <2>1. REPORT_VERSION \in Int /\ SYSTEM_RESET \in Int
    BY DEF REPORT_VERSION, SYSTEM_RESET
  <2>2. ASSUME NEW b \in Int PROVE AtEnd(p, s \o <<b>>) = ReadOn(r, b)
    <3>1. s \o <<b>> = Append(s, b)
      OBVIOUS
    <3> QED
      BY <3>1, AtEndAppend
  <2> QED
    BY <2>1, <2>2
<1> HIDE DEF r
<1>3. /\ none \in Seq(Callbacks) /\ r.parser \in Parsers /\ r.calls \in Seq(Callbacks) /\ ~r.parser.sysex
  BY <1>1 DEF Reached, States, r
<1>4. o.sysex = r.parser.sysex /\ o \in Parsers
  <2>1. o \in Parsers
    <3> HIDE DEF none
    <3> QED
      BY <1>3, WithCall
  <2> QED
    BY <1>3, <2>1 DEF Parsers
<1>5. ASSUME NEW b \in 128 .. 255 PROVE ParseByte(r.parser, b) = Command(o, b)
  <2>1. ~(b < 128)
    OBVIOUS
  <2> HIDE DEF o
  <2>2. /\ ~(o.sysex /\ b = END_SYSEX) /\ ~(o.sysex /\ b # END_SYSEX) /\ ~(~o.sysex /\ o.wait > 0 /\ b < 128)
    BY <1>3, <1>4, <2>1
  <2> QED
    BY <2>2 DEF ParseByte, o
<1> HIDE DEF o
<1>6. Command(o, REPORT_VERSION) = [o EXCEPT !.call = version]
  BY DEF Command, DIGITAL_MESSAGE, REPORT_ANALOG, REPORT_DIGITAL, ANALOG_MESSAGE, SET_PIN_MODE,
     SET_DIGITAL_PIN_VALUE, START_SYSEX, SYSTEM_RESET, REPORT_VERSION
<1>7. Command(o, SYSTEM_RESET) = [Idle EXCEPT !.call = reset]
  BY DEF Command, DIGITAL_MESSAGE, REPORT_ANALOG, REPORT_DIGITAL, ANALOG_MESSAGE, SET_PIN_MODE,
     SET_DIGITAL_PIN_VALUE, START_SYSEX, SYSTEM_RESET, REPORT_VERSION
<1>8. r.calls \o version = Append(r.calls, <<"version">>) /\ r.calls \o reset = Append(r.calls, <<"reset">>)
  BY <1>3
<1> HIDE DEF version, reset
<1>9. ParseByte(r.parser, REPORT_VERSION).call = version
  <2>1. ParseByte(r.parser, REPORT_VERSION) = [o EXCEPT !.call = version]
    <3>1. REPORT_VERSION \in 128 .. 255
      BY DEF REPORT_VERSION
    <3> QED
      BY <3>1, <1>5, <1>6
  <2> QED
    BY <1>4, <2>1 DEF Parsers
<1>10. ParseByte(r.parser, SYSTEM_RESET).call = reset
  <2>1. ParseByte(r.parser, SYSTEM_RESET) = [Idle EXCEPT !.call = reset]
    <3>1. SYSTEM_RESET \in 128 .. 255
      BY DEF SYSTEM_RESET
    <3> QED
      BY <3>1, <1>5, <1>7
  <2> QED
    BY <2>1, IdleType DEF Parsers
<1>11. \A b : ReadOn(r, b).calls = r.calls \o ParseByte(r.parser, b).call
  BY DEF ReadOn
<1> QED
  BY <1>2, <1>8, <1>9, <1>10, <1>11 DEF r

\* A report of the version is a callback, and leaves a wait as it is.
LEMMA VersionRead ==
  ASSUME NEW r \in Reached, ~r.parser.sysex
  PROVE  LET q == ReadOn(r, REPORT_VERSION)
         IN q.calls = Append(r.calls, <<"version">>) /\ ~q.parser.sysex /\ q.parser.wait = r.parser.wait
<1> DEFINE none == <<>>
           version == <<<<"version">>>>
           o == [r.parser EXCEPT !.call = none]
           q == ParseByte(r.parser, REPORT_VERSION)
<1>1. /\ none \in Seq(Callbacks) /\ r.parser \in Parsers /\ r.calls \in Seq(Callbacks)
      /\ r.calls \o version = Append(r.calls, <<"version">>)
  <2>1. none \in Seq(Callbacks) /\ r.parser \in Parsers /\ r.calls \in Seq(Callbacks)
    BY DEF Reached, States
  <2> QED
    BY <2>1
<1>2. o \in Parsers /\ o.sysex = r.parser.sysex /\ o.wait = r.parser.wait
  <2>1. o \in Parsers
    <3> HIDE DEF none
    <3> QED
      BY <1>1, WithCall
  <2> QED
    BY <1>1, <2>1 DEF Parsers
<1>3. q = Command(o, REPORT_VERSION)
  <2>1. ~(REPORT_VERSION < 128)
    BY DEF REPORT_VERSION
  <2> HIDE DEF o
  <2>2. /\ ~(o.sysex /\ REPORT_VERSION = END_SYSEX) /\ ~(o.sysex /\ REPORT_VERSION # END_SYSEX)
        /\ ~(~o.sysex /\ o.wait > 0 /\ REPORT_VERSION < 128)
    BY <1>2, <2>1
  <2> QED
    BY <2>2 DEF ParseByte, o
<1> HIDE DEF o
<1>4. Command(o, REPORT_VERSION) = [o EXCEPT !.call = version]
  BY DEF Command, DIGITAL_MESSAGE, REPORT_ANALOG, REPORT_DIGITAL, ANALOG_MESSAGE, SET_PIN_MODE,
     SET_DIGITAL_PIN_VALUE, START_SYSEX, SYSTEM_RESET, REPORT_VERSION
<1> HIDE DEF version
<1>5. q.call = version /\ q.sysex = o.sysex /\ q.wait = o.wait
  <2> HIDE DEF q
  <2> QED
    BY <1>2, <1>3, <1>4 DEF Parsers
<1>6. ReadOn(r, REPORT_VERSION) = [parser |-> q, calls |-> r.calls \o q.call]
  BY DEF ReadOn
<1> HIDE DEF q
<1>7. ReadOn(r, REPORT_VERSION).parser = q /\ ReadOn(r, REPORT_VERSION).calls = r.calls \o version
  BY <1>5, <1>6
<1> QED
  BY <1>1, <1>2, <1>5, <1>7 DEF version

\* Data that nothing waits for are dropped.
LEMMA StrayRead ==
  ASSUME NEW r \in Reached, ~r.parser.sysex, r.parser.wait = 0, NEW d \in 0 .. 127
  PROVE  LET q == ReadOn(r, d) IN q.calls = r.calls /\ ~q.parser.sysex /\ q.parser.wait = 0
<1> DEFINE none == <<>>
           p == [r.parser EXCEPT !.call = none]
           o == [p EXCEPT !.chan = d % 16]
           q == ParseByte(r.parser, d)
<1>1. none \in Seq(Callbacks) /\ r.parser \in Parsers /\ r.calls \in Seq(Callbacks) /\ r.calls \o none = r.calls
  BY DEF Reached, States
<1>2. p \in Parsers /\ p.call = none /\ p.sysex = r.parser.sysex /\ p.wait = 0
  <2> HIDE DEF none
  <2>1. p \in Parsers
    BY <1>1, WithCall
  <2> QED
    BY <1>1, <2>1 DEF Parsers
<1>3. q = Command(p, d)
  <2> HIDE DEF p
  <2>1. /\ ~(p.sysex /\ d = END_SYSEX) /\ ~(p.sysex /\ d # END_SYSEX) /\ ~(~p.sysex /\ p.wait > 0 /\ d < 128)
    BY <1>2
  <2> QED
    BY <2>1 DEF ParseByte, p
<1> HIDE DEF p, none
<1>4. Command(p, d) = o
  <2> DEFINE command == Kind(d)
             Expect(k) == [o EXCEPT !.wait = k, !.cmd = command]
  <2>0. d < 240
    OBVIOUS
  <2>1. command \in 0 .. 127
    BY DEF Kind
  <2>2. Command(p, d) = CASE command \in {ANALOG_MESSAGE, DIGITAL_MESSAGE, SET_PIN_MODE, SET_DIGITAL_PIN_VALUE} -> Expect(2)
         [] command \in {REPORT_ANALOG, REPORT_DIGITAL} -> Expect(1)
         [] command = START_SYSEX    -> [o EXCEPT !.sysex = TRUE, !.n = 0]
         [] command = SYSTEM_RESET   -> [Idle EXCEPT !.call = <<<<"reset">>>>]
         [] command = REPORT_VERSION -> [o EXCEPT !.call = <<<<"version">>>>]
         [] OTHER -> o
    BY <2>0 DEF Command, Kind
  <2> HIDE DEF command, o
  <2> QED
    BY <2>1, <2>2 DEF DIGITAL_MESSAGE, REPORT_ANALOG, REPORT_DIGITAL, ANALOG_MESSAGE, SET_PIN_MODE,
       SET_DIGITAL_PIN_VALUE, START_SYSEX, SYSTEM_RESET, REPORT_VERSION
<1>5. o.call = none /\ o.sysex = p.sysex /\ o.wait = 0
  BY <1>2 DEF Parsers
<1>6. ReadOn(r, d).parser = q /\ ReadOn(r, d).calls = r.calls \o q.call
  BY DEF ReadOn
<1>7. q = o
  BY <1>3, <1>4
<1> HIDE DEF q, o
<1>8. ReadOn(r, d).parser = o /\ ReadOn(r, d).calls = r.calls
  <2>1. r.calls \o q.call = r.calls
    BY <1>1, <1>5, <1>7, Zenon
  <2> QED
    BY <1>6, <1>7, <2>1, Zenon
<1> QED
  BY <1>2, <1>5, <1>8

-----------------------------------------------------------------------------
\* Sysex messages: what lies in the buffer when their end is read.
LEMMA SysexStart ==
  ASSUME NEW r \in Reached, ~r.parser.sysex
  PROVE  LET q == ReadOn(r, START_SYSEX) IN q.calls = r.calls /\ q.parser.sysex /\ q.parser.n = 0
<1> DEFINE none == <<>>
           o == [r.parser EXCEPT !.call = none]
           q == ParseByte(r.parser, START_SYSEX)
<1>1. none \in Seq(Callbacks) /\ r.parser \in Parsers /\ r.calls \in Seq(Callbacks) /\ r.calls \o none = r.calls
  BY DEF Reached, States
<1>2. q = Command([r.parser EXCEPT !.call = <<>>], START_SYSEX)
  <2>1. o.sysex = r.parser.sysex
    BY <1>1 DEF Parsers
  <2>2. ~(START_SYSEX < 128)
    BY DEF START_SYSEX
  <2> HIDE DEF o
  <2>3. /\ ~(o.sysex /\ START_SYSEX = END_SYSEX) /\ ~(o.sysex /\ START_SYSEX # END_SYSEX)
        /\ ~(~o.sysex /\ o.wait > 0 /\ START_SYSEX < 128)
    BY <2>1, <2>2
  <2> QED
    BY <2>3 DEF ParseByte, o
<1>3. q = Command(o, START_SYSEX)
  BY <1>2
<1> HIDE DEF none, q
<1>4. o \in Parsers /\ o.call = none
  <2>1. o \in Parsers
    BY <1>1, WithCall
  <2> QED
    BY <1>1, <2>1 DEF Parsers
<1> HIDE DEF o
<1>5. Command(o, START_SYSEX) = [o EXCEPT !.sysex = TRUE, !.n = 0]
  BY DEF Command, DIGITAL_MESSAGE, REPORT_ANALOG, REPORT_DIGITAL, ANALOG_MESSAGE, SET_PIN_MODE,
     SET_DIGITAL_PIN_VALUE, START_SYSEX, SYSTEM_RESET, REPORT_VERSION
<1>6. q.sysex /\ q.n = 0 /\ q.call = none
  BY <1>3, <1>4, <1>5 DEF Parsers
<1>7. ReadOn(r, START_SYSEX) = [parser |-> q, calls |-> r.calls \o q.call]
  BY DEF ReadOn, q
<1> QED
  BY <1>1, <1>6, <1>7

LEMMA SysexByte ==
  ASSUME NEW r \in Reached, r.parser.sysex, r.parser.n < BufferSize, NEW b \in Int, b # END_SYSEX
  PROVE  LET q == ReadOn(r, b)
         IN /\ q.calls = r.calls /\ q.parser.sysex /\ q.parser.n = r.parser.n + 1
            /\ q.parser.buf[r.parser.n] = b
            /\ \A i \in 0 .. r.parser.n - 1 : q.parser.buf[i] = r.parser.buf[i]
<1> DEFINE none == <<>>
           o == [r.parser EXCEPT !.call = none]
           w == BufferDataAtPosition(o, b, o.n)
           q == ParseByte(r.parser, b)
<1>1. none \in Seq(Callbacks) /\ r.parser \in Parsers /\ r.calls \in Seq(Callbacks) /\ r.calls \o none = r.calls
  BY DEF Reached, States
<1>2. q = [w EXCEPT !.n = IF @ > BufferSize THEN @ ELSE @ + 1]
  <2>1. o.sysex = r.parser.sysex
    BY <1>1 DEF Parsers
  <2> HIDE DEF o
  <2>3. /\ ~(o.sysex /\ b = END_SYSEX) /\ o.sysex /\ b # END_SYSEX
    BY <2>1
  <2> QED
    BY <2>3 DEF ParseByte, o
<1> HIDE DEF none, q
<1>4. o \in Parsers /\ o.call = none /\ o.n = r.parser.n /\ o.sysex = r.parser.sysex /\ o.buf = r.parser.buf
  <2>1. o \in Parsers
    BY <1>1, WithCall
  <2> QED
    BY <1>1, <2>1 DEF Parsers
<1> HIDE DEF o
<1>5. o.n \in Nat /\ o.n < BufferSize /\ BufferSize \in Nat
  BY <1>4, WireAssumption DEF Parsers
<1>6. w = [o EXCEPT !.buf[o.n] = b]
  BY <1>5 DEF BufferDataAtPosition
<1> HIDE DEF w
<1>7. /\ w.call = none /\ w.sysex = o.sysex /\ w.n = o.n /\ w.buf = [o.buf EXCEPT ![o.n] = b]
      /\ q = [w EXCEPT !.n = o.n + 1]
  <2>1. /\ w.call = none /\ w.sysex = o.sysex /\ w.n = o.n /\ w.buf = [o.buf EXCEPT ![o.n] = b]
    BY <1>4, <1>5, <1>6 DEF Parsers
  <2>2. ~(w.n > BufferSize)
    BY <1>5, <2>1
  <2> QED
    BY <1>2, <2>1, <2>2
<1>8. w \in Parsers
  BY <1>4, <1>5, <1>6 DEF Parsers
<1>9. q.call = none /\ q.sysex = o.sysex /\ q.n = o.n + 1 /\ q.buf = [o.buf EXCEPT ![o.n] = b]
  BY <1>7, <1>8 DEF Parsers
<1>10. o.buf \in [0 .. BufferSize - 1 -> Int] /\ o.n \in 0 .. BufferSize - 1
  BY <1>4, <1>5 DEF Parsers
<1>11. q.buf[o.n] = b /\ \A i \in 0 .. o.n - 1 : q.buf[i] = o.buf[i]
  <2> DEFINE f == o.buf
             k == o.n
  <2>1. f \in [0 .. BufferSize - 1 -> Int] /\ k \in 0 .. BufferSize - 1 /\ q.buf = [f EXCEPT ![k] = b]
    BY <1>9, <1>10
  <2> HIDE DEF f, k
  <2>2. q.buf[k] = b
    BY <2>1
  <2>3. ASSUME NEW i \in 0 .. k - 1 PROVE q.buf[i] = f[i]
    <3>1. i \in 0 .. BufferSize - 1 /\ i # k
      BY <1>5, <2>1
    <3> QED
      BY <2>1, <3>1
  <2> QED
    BY <2>2, <2>3 DEF f, k
<1>12. ReadOn(r, b) = [parser |-> q, calls |-> r.calls \o q.call]
  BY DEF ReadOn, q
<1>13. ReadOn(r, b).parser = q /\ ReadOn(r, b).calls = r.calls
  BY <1>1, <1>9, <1>12
<1>14. q.sysex
  BY <1>4, <1>9, Zenon
<1>15. /\ q.n = r.parser.n + 1 /\ q.buf[r.parser.n] = b
       /\ \A i \in 0 .. r.parser.n - 1 : q.buf[i] = r.parser.buf[i]
  BY <1>4, <1>9, <1>11
<1> QED
  BY <1>13, <1>14, <1>15

LEMMA SysexEnd ==
  ASSUME NEW r \in Reached, r.parser.sysex
  PROVE  \E x \in Parsers :
            /\ ReadOn(r, END_SYSEX).calls = Append(r.calls, ProcessSysexMessage(x))
            /\ x.n = r.parser.n /\ x.buf = r.parser.buf
<1> DEFINE none == <<>>
           o == [r.parser EXCEPT !.call = none]
           c == <<ProcessSysexMessage(o)>>
           q == ParseByte(r.parser, END_SYSEX)
<1>1. none \in Seq(Callbacks) /\ r.parser \in Parsers /\ r.calls \in Seq(Callbacks)
  BY DEF Reached, States
<1>2. q = [o EXCEPT !.sysex = FALSE, !.call = c]
  <2>1. o.sysex = r.parser.sysex
    BY <1>1 DEF Parsers
  <2> HIDE DEF o
  <2>3. o.sysex /\ ~(o.sysex /\ END_SYSEX # END_SYSEX)
    BY <2>1
  <2> QED
    BY <2>3 DEF ParseByte, o
<1> HIDE DEF none, q
<1>4. o \in Parsers /\ o.n = r.parser.n /\ o.buf = r.parser.buf
  <2>1. o \in Parsers
    BY <1>1, WithCall
  <2> QED
    BY <1>1, <2>1 DEF Parsers
<1> HIDE DEF o
<1>5. ProcessSysexMessage(o) \in Callbacks
  BY <1>4, SysexCallback
<1>6. r.calls \o c = Append(r.calls, ProcessSysexMessage(o))
  BY <1>1, <1>5
<1> HIDE DEF c
<1>7. q.call = c
  BY <1>2, <1>4 DEF Parsers
<1>8. ReadOn(r, END_SYSEX) = [parser |-> q, calls |-> r.calls \o q.call]
  BY DEF ReadOn, q
<1>9. ReadOn(r, END_SYSEX).calls = Append(r.calls, ProcessSysexMessage(o))
  BY <1>6, <1>7, <1>8
<1> QED
  BY <1>4, <1>9

LEMMA SysexStream ==
  ASSUME NEW s \in Seq(Int), NEW body \in Seq(Int)
  PROVE  s \o SysexOf(body) = Append(Append(s, START_SYSEX) \o body, END_SYSEX)
<1>1. ASSUME NEW a \in Int, NEW e \in Int PROVE s \o (<<a>> \o body \o <<e>>) = Append(Append(s, a) \o body, e)
  OBVIOUS
<1>2. START_SYSEX \in Int /\ END_SYSEX \in Int
  BY DEF START_SYSEX, END_SYSEX
<1> QED
  BY <1>1, <1>2 DEF SysexOf

\* All of a message that fits lies in the buffer when its end is read.
LEMMA SysexWhole ==
  ASSUME NEW p \in States, NEW s \in Seq(Int), ~AtEnd(p, s).parser.sysex,
         NEW body \in Seq(Int), \A i \in 1 .. Len(body) : body[i] # END_SYSEX, Len(body) <= BufferSize
  PROVE  \E x \in Parsers :
            /\ AtEnd(p, s \o SysexOf(body)).calls = Append(AtEnd(p, s).calls, ProcessSysexMessage(x))
            /\ x.n = Len(body) /\ \A i \in 1 .. Len(body) : x.buf[i - 1] = body[i]
<1> DEFINE r == AtEnd(p, s)
           t == Append(s, START_SYSEX)
           Part(n) == SubSeq(body, 1, n)
           After(n) == AtEnd(p, t \o Part(n))
           Held(q, n) == /\ q \in Reached /\ q.calls = r.calls /\ q.parser.sysex /\ q.parser.n = n
                         /\ \A i \in 0 .. n - 1 : q.parser.buf[i] = body[i + 1]
           R == {n \in Nat : n <= Len(body) => Held(After(n), n)}
<1>1. START_SYSEX \in Int /\ END_SYSEX \in Int /\ Len(body) \in Nat /\ BufferSize \in Nat
  BY WireAssumption DEF START_SYSEX, END_SYSEX
<1>2. t \in Seq(Int)
  BY <1>1
<1>3. r \in Reached /\ AtEnd(p, t) = ReadOn(r, START_SYSEX)
  BY <1>1, AtEndType, AtEndAppend
<1> HIDE DEF t
<1>4. 0 \in R
  <2>1. t \o Part(0) = t
    BY <1>2
  <2>2. ReadOn(r, START_SYSEX) \in Reached
    BY <1>1, <1>3, ReadOnType
  <2> DEFINE q == ReadOn(r, START_SYSEX)
  <2>3. q.calls = r.calls /\ q.parser.sysex /\ q.parser.n = 0
    BY <1>3, SysexStart
  <2>4. After(0) = q
    BY <1>3, <2>1
  <2> HIDE DEF q, After, Part
  <2>5. Held(q, 0)
    BY <2>2, <2>3 DEF q
  <2> QED
    BY <2>4, <2>5
<1>5. ASSUME NEW n \in Nat, n \in R PROVE n + 1 \in R
  <2> SUFFICES ASSUME n + 1 <= Len(body) PROVE Held(After(n + 1), n + 1)
    OBVIOUS
  <2>1. n < BufferSize /\ Held(After(n), n) /\ n + 1 \in 1 .. Len(body)
    BY <1>1, <1>5
  <2>2. body[n + 1] \in Int /\ body[n + 1] # END_SYSEX
    BY <2>1
  <2>3. Part(n) \in Seq(Int) /\ Part(n + 1) = Append(Part(n), body[n + 1])
    BY <2>1, <2>2
  <2>4. t \o Part(n) \in Seq(Int) /\ t \o Part(n + 1) = Append(t \o Part(n), body[n + 1])
    <3> HIDE DEF Part
    <3>1. t \o Part(n) \in Seq(Int)
      BY <1>2, <2>3
    <3>2. t \o Append(Part(n), body[n + 1]) = Append(t \o Part(n), body[n + 1])
      BY <1>2, <2>2, <2>3, ConcatAppend, Zenon
    <3> QED
      BY <2>3, <3>1, <3>2
  <2>5. After(n + 1) = ReadOn(After(n), body[n + 1])
    <3> HIDE DEF Part
    <3> QED
      BY <2>2, <2>4, AtEndAppend
  <2> DEFINE q == After(n)
             b == body[n + 1]
             z == ReadOn(q, b)
  <2>6. Held(q, n) /\ After(n + 1) = z /\ b \in Int /\ b # END_SYSEX
    BY <2>1, <2>2, <2>5
  <2> HIDE DEF q, After, Part, R
  <2>7. /\ z.calls = q.calls /\ z.parser.sysex /\ z.parser.n = n + 1
        /\ z.parser.buf[n] = b
        /\ \A i \in 0 .. n - 1 : z.parser.buf[i] = q.parser.buf[i]
    <3>1. q \in Reached /\ q.parser.sysex /\ q.parser.n = n /\ q.parser.n < BufferSize
      BY <2>1, <2>6
    <3> HIDE DEF b
    <3> QED
      BY <2>6, <3>1, SysexByte
  <2>8. z \in Reached
    <3> HIDE DEF b
    <3> QED
      BY <2>6, ReadOnType
  <2>9. \A i \in 0 .. (n + 1) - 1 : z.parser.buf[i] = body[i + 1]
    BY <2>6, <2>7
  <2> HIDE DEF z, b
  <2> QED
    BY <2>6, <2>7, <2>8, <2>9
<1>6. Held(After(Len(body)), Len(body))
  <2>1. Nat \subseteq R
    <3> HIDE DEF R
    <3> QED
      BY <1>4, <1>5, SetInduction
  <2> HIDE DEF Held, After
  <2> QED
    BY <1>1, <2>1
<1>7. t \o Part(Len(body)) = t \o body
  <2>1. SubSeq(body, 1, Len(body)) = body
    BY SubSeqFull
  <2> QED
    BY <2>1, Zenon
<1>8. t \o body \in Seq(Int) /\ s \o SysexOf(body) = Append(t \o body, END_SYSEX)
  BY <1>2, SysexStream DEF t
<1> DEFINE q == AtEnd(p, t \o body)
<1>9. Held(q, Len(body)) /\ AtEnd(p, s \o SysexOf(body)) = ReadOn(q, END_SYSEX)
  BY <1>1, <1>6, <1>7, <1>8, AtEndAppend
<1> HIDE DEF q, After, Part, R, r
<1>10. PICK x \in Parsers : /\ ReadOn(q, END_SYSEX).calls = Append(q.calls, ProcessSysexMessage(x))
                            /\ x.n = q.parser.n /\ x.buf = q.parser.buf
  BY <1>9, SysexEnd
<1>11. \A i \in 1 .. Len(body) : x.buf[i - 1] = body[i]
  <2>1. ASSUME NEW i \in 1 .. Len(body) PROVE x.buf[i - 1] = body[i]
    <3>1. i - 1 \in 0 .. Len(body) - 1 /\ (i - 1) + 1 = i
      BY <1>1
    <3> QED
      BY <1>9, <1>10, <3>1
  <2> QED
    BY <2>1
<1> QED
  BY <1>9, <1>10, <1>11 DEF r

-----------------------------------------------------------------------------
\* What is cut into groups of 7 bits is put together again.
LEMMA Groups ==
  ASSUME NEW v \in Data14
  PROVE  /\ v % 128 \in 0 .. 127 /\ (v \div 128) % 128 \in 0 .. 127
         /\ v = ((v \div 128) % 128) * 128 + (v % 128) /\ (v \div 128) % 128 = v \div 128
<1>1. v \in 0 .. 16383
  BY DEF Data14
<1>2. v % 128 \in 0 .. 127 /\ v \div 128 \in 0 .. 127 /\ v = (v \div 128) * 128 + (v % 128)
  <2>1. v \in Nat /\ 128 \in Nat \ {0}
    BY <1>1
  <2>2. v \div 128 \in Nat /\ v % 128 \in 0 .. 127 /\ v = (v \div 128) * 128 + (v % 128)
    BY <2>1, DivMod
  <2>3. v \div 128 <= 127
    BY <1>1, <2>2
  <2> QED
    BY <2>2, <2>3
<1>3. (v \div 128) % 128 = v \div 128
  <2>1. \A h \in 0 .. 127 : h % 128 = h
    OBVIOUS
  <2> QED
    BY <1>2, <2>1, Zenon
<1> QED
  BY <1>2, <1>3

\* The low bit of the second group is the high bit of a byte.
LEMMA ByteBack ==
  ASSUME NEW v \in 0 .. 255
  PROVE  Joined(v % 128, (v \div 128) % 128) = v
<1>1. CASE v < 128
  <2>1. v % 128 = v /\ v \div 128 = 0
    BY <1>1
  <2> QED
    BY <1>1, <2>1 DEF Joined
<1>2. CASE v >= 128
  <2>1. v % 128 = v - 128 /\ v \div 128 = 1
    BY <1>2
  <2> QED
    BY <1>2, <2>1 DEF Joined
<1> QED
  BY <1>1, <1>2

LEMMA Encoded ==
  ASSUME NEW d \in Seq(0 .. 255)
  PROVE  /\ EncodeEach(d) \in Seq(Int) /\ Len(EncodeEach(d)) = 2 * Len(d)
         /\ \A i \in 1 .. Len(d) : /\ EncodeEach(d)[2 * i - 1] = d[i] % 128
                                  /\ EncodeEach(d)[2 * i] = (d[i] \div 128) % 128
         /\ \A j \in 1 .. 2 * Len(d) : EncodeEach(d)[j] \in 0 .. 127
<1> DEFINE e == EncodeEach(d)
           N == Len(d)
           Half(j) == EncodeByteStream(d[(j + 1) \div 2])[2 - (j % 2)]
<1>1. N \in Nat /\ \A i \in 1 .. N : d[i] \in 0 .. 255
  BY ElementOfSeq
<1>2. e = [j \in 1 .. 2 * N |-> Half(j)]
  BY DEF EncodeEach
<1>3. \A v : EncodeByteStream(v)[1] = v % 128 /\ EncodeByteStream(v)[2] = (v \div 128) % 128
  BY DEF EncodeByteStream
<1> HIDE DEF N
<1>4. ASSUME NEW i \in 1 .. N
      PROVE  Half(2 * i - 1) = d[i] % 128 /\ Half(2 * i) = (d[i] \div 128) % 128
  <2>1. ((2 * i - 1) + 1) \div 2 = i /\ 2 - ((2 * i - 1) % 2) = 1
    BY <1>1
  <2>2. (2 * i + 1) \div 2 = i /\ 2 - ((2 * i) % 2) = 2
    BY <1>1
  <2> QED
    BY <1>3, <2>1, <2>2
<1>5. ASSUME NEW j \in 1 .. 2 * N PROVE Half(j) \in 0 .. 127
  <2> DEFINE v == d[(j + 1) \div 2]
  <2>1. (j + 1) \div 2 \in 1 .. N
    BY <1>1
  <2>2. v \in 0 .. 255
    BY <1>1, <2>1
  <2>3. 2 - (j % 2) = 1 \/ 2 - (j % 2) = 2
    BY <1>1
  <2>4. Half(j) = v % 128 \/ Half(j) = (v \div 128) % 128
    BY <1>3, <2>3
  <2> HIDE DEF v, Half
  <2>5. v % 128 \in 0 .. 127 /\ (v \div 128) % 128 \in 0 .. 127
    BY <2>2
  <2> QED
    BY <2>4, <2>5
<1> HIDE DEF Half, e
<1>6. 2 * N \in Nat
  BY <1>1
<1>7. e \in Seq(Int) /\ Len(e) = 2 * N
  BY <1>2, <1>5, <1>6
<1>8. ASSUME NEW i \in 1 .. N PROVE e[2 * i - 1] = d[i] % 128 /\ e[2 * i] = (d[i] \div 128) % 128
  <2>1. 2 * i - 1 \in 1 .. 2 * N /\ 2 * i \in 1 .. 2 * N
    BY <1>1
  <2> QED
    BY <1>2, <1>4, <2>1
<1>9. \A j \in 1 .. 2 * N : e[j] \in 0 .. 127
  BY <1>2, <1>5
<1> QED
  BY <1>7, <1>8, <1>9 DEF e, N

\* The library's decoding is the inverse of the encoding.
LEMMA DecodedBack ==
  ASSUME NEW x \in Parsers, NEW d \in Seq(0 .. 255), NEW from \in Nat, from + 2 * Len(d) <= BufferSize,
         \A j \in 1 .. 2 * Len(d) : x.buf[from + j - 1] = EncodeEach(d)[j]
  PROVE  DecodeByteStream(x, from, 2 * Len(d)) = d
<1> DEFINE N == Len(d)
           e == EncodeEach(d)
           Byte(i) == Joined(x.buf[from + 2 * i - 2], x.buf[(from + 2 * i - 1) % BufferSize])
<1>1. N \in Nat /\ \A i \in 1 .. N : d[i] \in 0 .. 255
  <2>1. N \in Nat
    OBVIOUS
  <2>2. \A i \in 1 .. Len(d) : d[i] \in 0 .. 255
    BY ElementOfSeq
  <2> QED
    BY <2>1, <2>2
<1>2. DecodeByteStream(x, from, 2 * N) = [i \in 1 .. (2 * N + 1) \div 2 |-> Byte(i)]
  BY DEF DecodeByteStream
<1>3. (2 * N + 1) \div 2 = N
  BY <1>1
<1>4. \A i \in 1 .. N : e[2 * i - 1] = d[i] % 128 /\ e[2 * i] = (d[i] \div 128) % 128
  BY Encoded
<1>h. \A j \in 1 .. 2 * N : x.buf[from + j - 1] = e[j]
  OBVIOUS
<1>k. from + 2 * N <= BufferSize
  OBVIOUS
<1> HIDE DEF N, e
<1>5. ASSUME NEW i \in 1 .. N PROVE Byte(i) = d[i]
  <2>1. /\ 2 * i - 1 \in 1 .. 2 * N /\ 2 * i \in 1 .. 2 * N
        /\ from + 2 * i - 2 = from + (2 * i - 1) - 1
        /\ from + 2 * i - 1 \in 0 .. BufferSize - 1
    BY <1>1, <1>k, WireAssumption
  <2>2. (from + 2 * i - 1) % BufferSize = from + 2 * i - 1
    <3>1. PICK k \in Nat : k = from + 2 * i - 1 /\ k < BufferSize
      BY <2>1, WireAssumption
    <3>2. BufferSize \in Nat \ {0}
      BY WireAssumption
    <3>3. k % BufferSize = k
      BY <3>1, <3>2, ModSmall
    <3> QED
      BY <3>1, <3>3
  <2>3. x.buf[from + 2 * i - 2] = d[i] % 128
    BY <1>4, <1>h, <2>1
  <2>4. x.buf[(from + 2 * i - 1) % BufferSize] = (d[i] \div 128) % 128
    BY <1>4, <1>h, <2>1, <2>2
  <2>5. d[i] \in 0 .. 255
    BY <1>1
  <2>6. Joined(d[i] % 128, (d[i] \div 128) % 128) = d[i]
    BY <2>5, ByteBack
  <2> QED
    BY <2>3, <2>4, <2>6, Zenon
<1> HIDE DEF Byte
<1>6. DecodeByteStream(x, from, 2 * N) = [i \in 1 .. N |-> Byte(i)]
  BY <1>2, <1>3
<1>7. d = [i \in 1 .. N |-> d[i]]
  BY DEF N
<1>8. [i \in 1 .. N |-> Byte(i)] = [i \in 1 .. N |-> d[i]]
  BY <1>5
<1> QED
  BY <1>6, <1>7, <1>8 DEF N
-----------------------------------------------------------------------------
\* What each message becomes.
LEMMA MarshalIs ==
  /\ \A pin, v : Marshal(<<"analog", pin, v>>) = SendAnalog(pin, v)
  /\ \A port, v : Marshal(<<"digital", port, v>>) = <<DIGITAL_MESSAGE + (port % 16)>> \o EncodeByteStream(v)
  /\ \A pin, v : Marshal(<<"reportAnalog", pin, v>>) = <<REPORT_ANALOG + (pin % 16), v>>
  /\ \A port, v : Marshal(<<"reportDigital", port, v>>) = <<REPORT_DIGITAL + (port % 16), v>>
  /\ \A pin, v : Marshal(<<"pinMode", pin, v>>) = <<SET_PIN_MODE, pin, v>>
  /\ \A pin, v : Marshal(<<"pinValue", pin, v>>) = <<SET_DIGITAL_PIN_VALUE, pin % 128, IF v # 0 THEN 1 ELSE 0>>
  /\ Marshal(<<"version">>) = <<REPORT_VERSION>>
  /\ \A a, b : Marshal(<<"protocol", a, b>>) = <<REPORT_VERSION, a, b>>
  /\ \A pin : Marshal(<<"pinState", pin>>) = SysexOf(<<PIN_STATE_QUERY, pin>>)
  /\ Marshal(<<"reset">>) = <<SYSTEM_RESET>>
  /\ \A d : Marshal(<<"string", d>>) = SendSysex(STRING_DATA, d)
  /\ Marshal(<<"query">>) = SysexOf(<<REPORT_FIRMWARE>>)
  /\ \A a, b, d : Marshal(<<"firmware", a, b, d>>) = SysexOf(<<REPORT_FIRMWARE, a, b>> \o EncodeEach(d))
  /\ \A c, d : Marshal(<<"sysex", c, d>>) = SendSysex(c, d)
  BY DEF Marshal

LEMMA MeantIs ==
  /\ \A d : Meant(<<"string", d>>) = <<"string", d>>
  /\ \A a, b, d : Meant(<<"firmware", a, b, d>>) = <<"firmware", a, b, d>>
  /\ \A c, d : Meant(<<"sysex", c, d>>) = <<"sysex", c, EncodeEach(d)>>
  /\ Meant(<<"query">>) = <<"firmware", 0, 0, <<>>>>
  /\ Meant(<<"version">>) = <<"version">> /\ Meant(<<"reset">>) = <<"reset">>
  /\ \A a, b : Meant(<<"protocol", a, b>>) = <<"version">>
  /\ \A pin : Meant(<<"pinState", pin>>) = <<"sysex", PIN_STATE_QUERY, <<pin>>>>
  /\ \A n \in {"digital", "reportAnalog", "reportDigital", "pinMode", "pinValue"} : \A a, b : Meant(<<n, a, b>>) = <<n, a, b>>
  /\ \A pin \in 0 .. 15 : \A v : Meant(<<"analog", pin, v>>) = <<"analog", pin, v>>
  /\ \A pin \in Int : \A v : pin > 15 => Meant(<<"analog", pin, v>>) = <<"sysex", EXTENDED_ANALOG, <<pin, v % 128, v \div 128>>>>
  BY DEF Meant

\* What a message adds.
Adds(p, s, m, c) == AtEnd(p, s \o m).calls = Append(AtEnd(p, s).calls, c)

LEMMA HeadPair ==
  ASSUME NEW a \in Int, NEW b \in Int, NEW c \in Int
  PROVE  <<a>> \o <<b, c>> = <<a, b, c>>
<1> DEFINE u == <<a>> \o <<b, c>>
           v == <<a, b, c>>
<1>1. u \in Seq(Int) /\ Len(u) = 3 /\ u[1] = a /\ u[2] = b /\ u[3] = c
  OBVIOUS
<1>2. v \in Seq(Int) /\ Len(v) = 3 /\ v[1] = a /\ v[2] = b /\ v[3] = c
  OBVIOUS
<1> HIDE DEF u, v
<1>3. \A i \in 1 .. Len(u) : u[i] = v[i]
  BY <1>1, <1>2
<1>4. u = v
  BY <1>1, <1>2, <1>3, SeqEqual
<1> QED
  BY <1>4 DEF u, v

LEMMA PortsWhole ==
  ASSUME NEW p \in States, NEW s \in Seq(Int), ~AtEnd(p, s).parser.sysex, NEW port \in 0 .. 15, NEW v \in Data14
  PROVE  /\ Adds(p, s, Marshal(<<"analog", port, v>>), Meant(<<"analog", port, v>>))
         /\ Adds(p, s, Marshal(<<"digital", port, v>>), Meant(<<"digital", port, v>>))
<1> DEFINE lo == v % 128
           hi == (v \div 128) % 128
<1>1. lo \in 0 .. 127 /\ hi \in 0 .. 127 /\ v = hi * 128 + lo
  BY Groups
<1>2. ASSUME NEW a \in Int PROVE <<a>> \o <<lo, hi>> = <<a, lo, hi>>
  <2> HIDE DEF lo, hi
  <2>1. lo \in Int /\ hi \in Int
    BY <1>1
  <2> QED
    BY <2>1, HeadPair
<1>3. v <= 16383 /\ port <= 15 /\ port % 16 = port /\ ANALOG_MESSAGE + port \in Int /\ DIGITAL_MESSAGE + port \in Int
  BY DEF Data14, ANALOG_MESSAGE, DIGITAL_MESSAGE
<1>4. EncodeByteStream(v) = <<lo, hi>>
  BY DEF EncodeByteStream
<1>5. Marshal(<<"analog", port, v>>) = <<ANALOG_MESSAGE + port, lo, hi>>
  <2> HIDE DEF lo, hi
  <2>1. SendAnalog(port, v) = <<ANALOG_MESSAGE + port>> \o EncodeByteStream(v)
    BY <1>3 DEF SendAnalog
  <2>2. <<ANALOG_MESSAGE + port>> \o <<lo, hi>> = <<ANALOG_MESSAGE + port, lo, hi>>
    BY <1>2, <1>3
  <2>3. Marshal(<<"analog", port, v>>) = SendAnalog(port, v)
    BY MarshalIs, Zenon
  <2> QED
    BY <1>4, <2>1, <2>2, <2>3, Zenon
<1>6. Marshal(<<"digital", port, v>>) = <<DIGITAL_MESSAGE + port, lo, hi>>
  <2> HIDE DEF lo, hi
  <2>2. <<DIGITAL_MESSAGE + port>> \o <<lo, hi>> = <<DIGITAL_MESSAGE + port, lo, hi>>
    BY <1>2, <1>3
  <2>3. Marshal(<<"digital", port, v>>) = <<DIGITAL_MESSAGE + (port % 16)>> \o EncodeByteStream(v)
    BY MarshalIs, Zenon
  <2>4. port % 16 = port
    BY <1>3
  <2> QED
    BY <1>4, <2>2, <2>3, <2>4, Zenon
<1> HIDE DEF lo, hi
<1>7. ASSUME NEW c \in {ANALOG_MESSAGE, DIGITAL_MESSAGE}
      PROVE  \E x \in Parsers :
                /\ Adds(p, s, <<c + port, lo, hi>>, MultiByteMessage(x))
                /\ x.cmd = c /\ x.chan = port /\ x.buf[0] = hi /\ x.buf[1] = lo
  <2> DEFINE b == c + port
  <2>1. b \in 128 .. 239 /\ b % 16 = port /\ Kind(b) = c
    BY DEF ANALOG_MESSAGE, DIGITAL_MESSAGE, Kind
  <2>2. c \in Codes \ {REPORT_ANALOG, REPORT_DIGITAL}
    BY DEF Codes, ANALOG_MESSAGE, DIGITAL_MESSAGE, REPORT_ANALOG, REPORT_DIGITAL
  <2> HIDE DEF b
  <2>3. b \in 128 .. 255 /\ b < 240
    BY <2>1
  <2>4. \E x \in Parsers :
            /\ AtEnd(p, s \o <<b, lo, hi>>).calls = Append(AtEnd(p, s).calls, MultiByteMessage(x))
            /\ x.cmd = Kind(b) /\ (b < 240 => x.chan = b % 16) /\ x.buf[0] = hi /\ x.buf[1] = lo
    <3>1. Kind(b) \in Codes \ {REPORT_ANALOG, REPORT_DIGITAL}
      BY <2>1, <2>2, Zenon
    <3>2. lo \in 0 .. 127 /\ hi \in 0 .. 127 /\ b \in 128 .. 255 /\ ~AtEnd(p, s).parser.sysex
      BY <1>1, <2>3
    <3>3. Called(p, s, b, lo, hi)
      BY <3>1, <3>2, TwoData
    <3> QED
      BY <3>3 DEF Called
  <2> QED
    BY <2>1, <2>3, <2>4 DEF Adds, b
<1>8. ASSUME NEW x \in Parsers, x.chan = port, x.buf[0] = hi, x.buf[1] = lo
      PROVE  /\ x.cmd = ANALOG_MESSAGE => MultiByteMessage(x) = <<"analog", port, v>>
             /\ x.cmd = DIGITAL_MESSAGE => MultiByteMessage(x) = <<"digital", port, v>>
  <2>1. x.buf[0] * 128 + x.buf[1] = v
    BY <1>1, <1>8
  <2> QED
    BY <1>8, <2>1 DEF MultiByteMessage, DIGITAL_MESSAGE, REPORT_ANALOG, REPORT_DIGITAL, ANALOG_MESSAGE, SET_PIN_MODE, SET_DIGITAL_PIN_VALUE
<1>9. Adds(p, s, Marshal(<<"analog", port, v>>), <<"analog", port, v>>)
  BY <1>5, <1>7, <1>8
<1>10. Adds(p, s, Marshal(<<"digital", port, v>>), <<"digital", port, v>>)
  BY <1>6, <1>7, <1>8
<1>11. Meant(<<"analog", port, v>>) = <<"analog", port, v>> /\ Meant(<<"digital", port, v>>) = <<"digital", port, v>>
  BY MeantIs
<1> QED
  BY <1>9, <1>10, <1>11, Zenon
LEMMA PinsWhole ==
  ASSUME NEW p \in States, NEW s \in Seq(Int), ~AtEnd(p, s).parser.sysex, NEW pin \in 0 .. 127
  PROVE  /\ \A v \in 0 .. 127 : Adds(p, s, Marshal(<<"pinMode", pin, v>>), Meant(<<"pinMode", pin, v>>))
         /\ \A v \in {0, 1} : Adds(p, s, Marshal(<<"pinValue", pin, v>>), Meant(<<"pinValue", pin, v>>))
<1>1. ASSUME NEW c \in {SET_PIN_MODE, SET_DIGITAL_PIN_VALUE}, NEW v \in 0 .. 127
      PROVE  \E x \in Parsers :
                /\ Adds(p, s, <<c, pin, v>>, MultiByteMessage(x))
                /\ x.cmd = c /\ x.buf[0] = v /\ x.buf[1] = pin
  <2>1. c \in 128 .. 255 /\ Kind(c) = c
    BY DEF SET_PIN_MODE, SET_DIGITAL_PIN_VALUE, Kind
  <2>2. c \in Codes \ {REPORT_ANALOG, REPORT_DIGITAL}
    BY DEF Codes, SET_PIN_MODE, SET_DIGITAL_PIN_VALUE, REPORT_ANALOG, REPORT_DIGITAL
  <2>3. Called(p, s, c, pin, v)
    BY <2>1, <2>2, TwoData
  <2> QED
    BY <2>1, <2>3 DEF Called, Adds
<1>2. ASSUME NEW x \in Parsers, NEW v, x.buf[0] = v, x.buf[1] = pin
      PROVE  /\ x.cmd = SET_PIN_MODE => MultiByteMessage(x) = <<"pinMode", pin, v>>
             /\ x.cmd = SET_DIGITAL_PIN_VALUE => MultiByteMessage(x) = <<"pinValue", pin, v>>
  BY <1>2 DEF MultiByteMessage, DIGITAL_MESSAGE, REPORT_ANALOG, REPORT_DIGITAL, ANALOG_MESSAGE, SET_PIN_MODE, SET_DIGITAL_PIN_VALUE
<1>3. ASSUME NEW v \in 0 .. 127
      PROVE  Adds(p, s, Marshal(<<"pinMode", pin, v>>), Meant(<<"pinMode", pin, v>>))
  <2>1. Marshal(<<"pinMode", pin, v>>) = <<SET_PIN_MODE, pin, v>> /\ Meant(<<"pinMode", pin, v>>) = <<"pinMode", pin, v>>
    BY MarshalIs, MeantIs
  <2>2. PICK x \in Parsers : /\ Adds(p, s, <<SET_PIN_MODE, pin, v>>, MultiByteMessage(x))
                             /\ x.cmd = SET_PIN_MODE /\ x.buf[0] = v /\ x.buf[1] = pin
    BY <1>1
  <2>3. MultiByteMessage(x) = <<"pinMode", pin, v>>
    BY <1>2, <2>2
  <2> QED
    BY <2>1, <2>2, <2>3, Zenon
<1>4. ASSUME NEW v \in {0, 1}
      PROVE  Adds(p, s, Marshal(<<"pinValue", pin, v>>), Meant(<<"pinValue", pin, v>>))
  <2>1. Marshal(<<"pinValue", pin, v>>) = <<SET_DIGITAL_PIN_VALUE, pin % 128, IF v # 0 THEN 1 ELSE 0>>
    BY MarshalIs, Zenon
  <2>2. pin % 128 = pin /\ (IF v # 0 THEN 1 ELSE 0) = v /\ v \in 0 .. 127
    OBVIOUS
  <2>3. Marshal(<<"pinValue", pin, v>>) = <<SET_DIGITAL_PIN_VALUE, pin, v>>
    BY <2>1, <2>2, Zenon
  <2>4. Meant(<<"pinValue", pin, v>>) = <<"pinValue", pin, v>>
    BY MeantIs
  <2>5. PICK x \in Parsers : /\ Adds(p, s, <<SET_DIGITAL_PIN_VALUE, pin, v>>, MultiByteMessage(x))
                             /\ x.cmd = SET_DIGITAL_PIN_VALUE /\ x.buf[0] = v /\ x.buf[1] = pin
    BY <1>1, <2>2
  <2>6. MultiByteMessage(x) = <<"pinValue", pin, v>>
    BY <1>2, <2>5
  <2> QED
    BY <2>3, <2>4, <2>5, <2>6, Zenon
<1> QED
  BY <1>3, <1>4

LEMMA ReportsWhole ==
  ASSUME NEW p \in States, NEW s \in Seq(Int), ~AtEnd(p, s).parser.sysex, NEW port \in 0 .. 15, NEW v \in {0, 1}
  PROVE  /\ Adds(p, s, Marshal(<<"reportAnalog", port, v>>), Meant(<<"reportAnalog", port, v>>))
         /\ Adds(p, s, Marshal(<<"reportDigital", port, v>>), Meant(<<"reportDigital", port, v>>))
<1>1. v \in 0 .. 127 /\ port % 16 = port
  OBVIOUS
<1>2. ASSUME NEW c \in {REPORT_ANALOG, REPORT_DIGITAL}
      PROVE  \E x \in Parsers :
                /\ Adds(p, s, <<c + port, v>>, MultiByteMessage(x))
                /\ x.cmd = c /\ x.chan = port /\ x.buf[0] = v
  <2> DEFINE b == c + port
  <2>1. b \in 128 .. 239 /\ b % 16 = port /\ Kind(b) = c
    BY DEF REPORT_ANALOG, REPORT_DIGITAL, Kind
  <2> HIDE DEF b
  <2>2. Reported(p, s, b, v)
    BY <1>1, <2>1, OneData
  <2> QED
    BY <2>1, <2>2 DEF Reported, Adds, b
<1>3. ASSUME NEW x \in Parsers, x.chan = port, x.buf[0] = v
      PROVE  /\ x.cmd = REPORT_ANALOG => MultiByteMessage(x) = <<"reportAnalog", port, v>>
             /\ x.cmd = REPORT_DIGITAL => MultiByteMessage(x) = <<"reportDigital", port, v>>
  BY <1>3 DEF MultiByteMessage, DIGITAL_MESSAGE, REPORT_ANALOG, REPORT_DIGITAL, ANALOG_MESSAGE, SET_PIN_MODE, SET_DIGITAL_PIN_VALUE
<1>4. Adds(p, s, <<REPORT_ANALOG + port, v>>, <<"reportAnalog", port, v>>)
  BY <1>2, <1>3
<1>5. Adds(p, s, <<REPORT_DIGITAL + port, v>>, <<"reportDigital", port, v>>)
  BY <1>2, <1>3
<1>6. /\ Meant(<<"reportAnalog", port, v>>) = <<"reportAnalog", port, v>>
      /\ Meant(<<"reportDigital", port, v>>) = <<"reportDigital", port, v>>
  BY MeantIs
<1>7. /\ Marshal(<<"reportAnalog", port, v>>) = <<REPORT_ANALOG + (port % 16), v>>
      /\ Marshal(<<"reportDigital", port, v>>) = <<REPORT_DIGITAL + (port % 16), v>>
  BY MarshalIs, Zenon
<1>8. /\ Marshal(<<"reportAnalog", port, v>>) = <<REPORT_ANALOG + port, v>>
      /\ Marshal(<<"reportDigital", port, v>>) = <<REPORT_DIGITAL + port, v>>
  BY <1>1, <1>7, Zenon
<1> QED
  BY <1>4, <1>5, <1>6, <1>8, Zenon

\* What a sysex message of a head and encoded data is to the callback.
Carried(p, s, h, d) ==
    \E x \in Parsers : /\ Adds(p, s, SysexOf(h \o EncodeEach(d)), ProcessSysexMessage(x))
                       /\ x.n = Len(h) + 2 * Len(d)
                       /\ \A i \in 1 .. Len(h) : x.buf[i - 1] = h[i]
                       /\ \A j \in 1 .. 2 * Len(d) : x.buf[Len(h) + j - 1] = EncodeEach(d)[j]
                       /\ DecodeByteStream(x, Len(h), 2 * Len(d)) = d

\* A sysex message of a head and encoded data: the buffer holds both, and the data decode to what was sent.
LEMMA SysexCarries ==
  ASSUME NEW p \in States, NEW s \in Seq(Int), ~AtEnd(p, s).parser.sysex,
         NEW h \in Seq(Int), \A i \in 1 .. Len(h) : h[i] # END_SYSEX,
         NEW d \in Seq(0 .. 255), Len(h) + 2 * Len(d) <= BufferSize
  PROVE  Carried(p, s, h, d)
<1> DEFINE e == EncodeEach(d)
           body == h \o e
<1>1. e \in Seq(Int) /\ Len(e) = 2 * Len(d) /\ \A j \in 1 .. 2 * Len(d) : e[j] \in 0 .. 127
  BY Encoded
<1>l. Len(h) \in Nat /\ Len(d) \in Nat
  OBVIOUS
<1> HIDE DEF e
<1>2. /\ body \in Seq(Int) /\ Len(body) = Len(h) + 2 * Len(d)
      /\ \A i \in 1 .. Len(h) : body[i] = h[i]
      /\ \A j \in 1 .. 2 * Len(d) : body[Len(h) + j] = e[j]
  <2>1. ASSUME NEW u \in Seq(Int), NEW v \in Seq(Int)
        PROVE  /\ u \o v \in Seq(Int) /\ Len(u \o v) = Len(u) + Len(v)
               /\ \A i \in 1 .. Len(u) : (u \o v)[i] = u[i]
               /\ \A j \in 1 .. Len(v) : (u \o v)[Len(u) + j] = v[j]
    OBVIOUS
  <2>2. /\ body \in Seq(Int) /\ Len(body) = Len(h) + Len(e)
        /\ \A i \in 1 .. Len(h) : body[i] = h[i]
        /\ \A j \in 1 .. Len(e) : body[Len(h) + j] = e[j]
    BY <1>1, <2>1
  <2> HIDE DEF body
  <2> QED
    BY <1>1, <2>2
<1> HIDE DEF body
<1>3. \A i \in 1 .. Len(body) : body[i] # END_SYSEX
  <2>1. ASSUME NEW i \in 1 .. Len(body), i > Len(h) PROVE body[i] # END_SYSEX
    <3>1. PICK j \in 1 .. 2 * Len(d) : i = Len(h) + j
      <4>1. i - Len(h) \in 1 .. 2 * Len(d) /\ i = Len(h) + (i - Len(h))
        BY <1>2, <1>l, <2>1
      <4> QED
        BY <4>1
    <3>2. body[i] = e[j] /\ e[j] \in 0 .. 127
      BY <1>1, <1>2, <3>1
    <3>3. \A v \in 0 .. 127 : v # END_SYSEX
      BY DEF END_SYSEX
    <3> QED
      BY <3>2, <3>3, Zenon
  <2>2. ASSUME NEW i \in 1 .. Len(body), ~(i > Len(h)) PROVE body[i] # END_SYSEX
    <3>1. i \in 1 .. Len(h)
      BY <1>2, <1>l, <2>2
    <3> QED
      BY <1>2, <3>1
  <2> QED
    BY <2>1, <2>2
<1>4. Len(body) <= BufferSize
  BY <1>2
<1>5. PICK x \in Parsers :
            /\ AtEnd(p, s \o SysexOf(body)).calls = Append(AtEnd(p, s).calls, ProcessSysexMessage(x))
            /\ x.n = Len(body) /\ \A i \in 1 .. Len(body) : x.buf[i - 1] = body[i]
  BY <1>2, <1>3, <1>4, SysexWhole
<1>6. \A i \in 1 .. Len(h) : x.buf[i - 1] = h[i]
  <2>1. ASSUME NEW i \in 1 .. Len(h) PROVE x.buf[i - 1] = h[i]
    <3>1. i \in 1 .. Len(body)
      BY <1>2, <1>l
    <3> QED
      BY <1>2, <1>5, <3>1
  <2> QED
    BY <2>1
<1>7. ASSUME NEW j \in 1 .. 2 * Len(d) PROVE x.buf[Len(h) + j - 1] = e[j]
  <2>1. Len(h) + j \in 1 .. Len(body)
    BY <1>2, <1>l
  <2>2. x.buf[(Len(h) + j) - 1] = body[Len(h) + j]
    BY <1>5, <2>1
  <2> QED
    BY <1>2, <2>2
<1>8. DecodeByteStream(x, Len(h), 2 * Len(d)) = d
  <2>1. \A j \in 1 .. 2 * Len(d) : x.buf[Len(h) + j - 1] = EncodeEach(d)[j]
    BY <1>7 DEF e
  <2> QED
    BY <1>l, <2>1, DecodedBack
<1> QED
  BY <1>2, <1>5, <1>6, <1>7, <1>8 DEF Adds, body, e, Carried
LEMMA TextWhole ==
  ASSUME NEW p \in States, NEW s \in Seq(Int), ~AtEnd(p, s).parser.sysex, NEW d \in Bytes(1)
  PROVE  /\ Adds(p, s, Marshal(<<"string", d>>), Meant(<<"string", d>>))
         /\ \A c \in InSysex \ {REPORT_FIRMWARE, STRING_DATA} :
                Adds(p, s, Marshal(<<"sysex", c, d>>), Meant(<<"sysex", c, d>>))
<1>1. d \in Seq(0 .. 255) /\ 1 + 2 * Len(d) <= BufferSize /\ Len(d) \in Nat
  BY DEF Bytes
<1>2. ASSUME NEW c \in InSysex
      PROVE  \E x \in Parsers :
                /\ Adds(p, s, SendSysex(c, d), ProcessSysexMessage(x))
                /\ x.n = 1 + 2 * Len(d) /\ x.buf[0] = c
                /\ \A j \in 1 .. 2 * Len(d) : x.buf[j] = EncodeEach(d)[j]
                /\ DecodeByteStream(x, 1, 2 * Len(d)) = d
  <2> DEFINE h == <<c>>
  <2>1. c \in Int /\ c # END_SYSEX
    BY DEF InSysex
  <2>2. h \in Seq(Int) /\ Len(h) = 1 /\ h[1] = c
    BY <2>1
  <2> HIDE DEF h
  <2>3. \A i \in 1 .. Len(h) : h[i] # END_SYSEX
    BY <2>1, <2>2
  <2>4. Len(h) + 2 * Len(d) <= BufferSize
    BY <1>1, <2>2
  <2>5. PICK x \in Parsers :
            /\ Adds(p, s, SysexOf(h \o EncodeEach(d)), ProcessSysexMessage(x))
            /\ x.n = Len(h) + 2 * Len(d)
            /\ \A i \in 1 .. Len(h) : x.buf[i - 1] = h[i]
            /\ \A j \in 1 .. 2 * Len(d) : x.buf[Len(h) + j - 1] = EncodeEach(d)[j]
            /\ DecodeByteStream(x, Len(h), 2 * Len(d)) = d
    <3>1. Carried(p, s, h, d)
      BY <1>1, <2>2, <2>3, <2>4, SysexCarries
    <3> QED
      BY <3>1, Zenon DEF Carried
  <2>6. SendSysex(c, d) = SysexOf(h \o EncodeEach(d))
    BY DEF SendSysex, h
  <2>7. x.buf[0] = c
    BY <2>2, <2>5
  <2>8. ASSUME NEW j \in 1 .. 2 * Len(d) PROVE x.buf[j] = EncodeEach(d)[j]
    <3>1. Len(h) + j - 1 = j
      BY <1>1, <2>2
    <3> QED
      BY <2>5, <3>1
  <2> QED
    BY <2>2, <2>5, <2>6, <2>7, <2>8
<1>3. Adds(p, s, Marshal(<<"string", d>>), Meant(<<"string", d>>))
  <2>1. STRING_DATA \in InSysex
    BY DEF InSysex, STRING_DATA, END_SYSEX
  <2>2. PICK x \in Parsers :
                /\ Adds(p, s, SendSysex(STRING_DATA, d), ProcessSysexMessage(x))
                /\ x.n = 1 + 2 * Len(d) /\ x.buf[0] = STRING_DATA
                /\ DecodeByteStream(x, 1, 2 * Len(d)) = d
    BY <1>2, <2>1
  <2>3. ~(x.n > BufferSize) /\ x.n # 0 /\ x.n - 1 = 2 * Len(d) /\ x.buf[0] # REPORT_FIRMWARE
    BY <1>1, <2>2, WireAssumption DEF REPORT_FIRMWARE, STRING_DATA
  <2>4. ProcessSysexMessage(x) = <<"string", DecodeByteStream(x, 1, x.n - 1)>>
    BY <2>2, <2>3, Zenon DEF ProcessSysexMessage
  <2>5. ProcessSysexMessage(x) = <<"string", d>>
    BY <2>2, <2>3, <2>4, Zenon
  <2>6. Marshal(<<"string", d>>) = SendSysex(STRING_DATA, d) /\ Meant(<<"string", d>>) = <<"string", d>>
    BY MarshalIs, MeantIs, Zenon
  <2> QED
    BY <2>2, <2>5, <2>6, Zenon
<1>4. ASSUME NEW c \in InSysex \ {REPORT_FIRMWARE, STRING_DATA}
      PROVE  Adds(p, s, Marshal(<<"sysex", c, d>>), Meant(<<"sysex", c, d>>))
  <2> DEFINE e == EncodeEach(d)
  <2>1. PICK x \in Parsers :
                /\ Adds(p, s, SendSysex(c, d), ProcessSysexMessage(x))
                /\ x.n = 1 + 2 * Len(d) /\ x.buf[0] = c
                /\ \A j \in 1 .. 2 * Len(d) : x.buf[j] = e[j]
    BY <1>2
  <2>2. e = [j \in 1 .. 2 * Len(d) |-> e[j]]
    BY DEF EncodeEach
  <2> HIDE DEF e
  <2>3. ~(x.n > BufferSize) /\ x.n # 0 /\ x.n - 1 = 2 * Len(d) /\ x.buf[0] # REPORT_FIRMWARE /\ x.buf[0] # STRING_DATA
    <3>1. x.n = 1 + 2 * Len(d) /\ x.buf[0] = c /\ c # REPORT_FIRMWARE /\ c # STRING_DATA
      BY <1>4, <2>1
    <3> QED
      BY <1>1, <3>1, WireAssumption
  <2>4. ProcessSysexMessage(x) = <<"sysex", x.buf[0], [i \in 1 .. x.n - 1 |-> x.buf[i]]>>
    BY <2>3, Zenon DEF ProcessSysexMessage
  <2>5. [i \in 1 .. x.n - 1 |-> x.buf[i]] = [j \in 1 .. 2 * Len(d) |-> e[j]]
    BY <2>1, <2>3
  <2>6. ProcessSysexMessage(x) = <<"sysex", c, e>>
    BY <2>1, <2>2, <2>4, <2>5, Zenon
  <2>7. Marshal(<<"sysex", c, d>>) = SendSysex(c, d) /\ Meant(<<"sysex", c, d>>) = <<"sysex", c, e>>
    BY MarshalIs, MeantIs DEF e
  <2> QED
    BY <2>1, <2>6, <2>7, Zenon
<1> QED
  BY <1>3, <1>4

LEMMA FirmwareWhole ==
  ASSUME NEW p \in States, NEW s \in Seq(Int), ~AtEnd(p, s).parser.sysex,
         NEW a \in InSysex, NEW b \in InSysex, NEW d \in Bytes(3)
  PROVE  Adds(p, s, Marshal(<<"firmware", a, b, d>>), Meant(<<"firmware", a, b, d>>))
<1> DEFINE h == <<REPORT_FIRMWARE, a, b>>
<1>1. d \in Seq(0 .. 255) /\ 3 + 2 * Len(d) <= BufferSize /\ Len(d) \in Nat
  BY DEF Bytes
<1>2. h \in Seq(Int) /\ Len(h) = 3 /\ h[1] = REPORT_FIRMWARE /\ h[2] = a /\ h[3] = b
  BY DEF InSysex, REPORT_FIRMWARE
<1>3. a # END_SYSEX /\ b # END_SYSEX /\ REPORT_FIRMWARE # END_SYSEX
  BY DEF InSysex, REPORT_FIRMWARE, END_SYSEX
<1>4. Marshal(<<"firmware", a, b, d>>) = SysexOf(h \o EncodeEach(d))
  BY MarshalIs
<1> HIDE DEF h
<1>5. \A i \in 1 .. Len(h) : h[i] # END_SYSEX
  BY <1>2, <1>3
<1>6. Len(h) + 2 * Len(d) <= BufferSize
  BY <1>1, <1>2
<1>7. PICK x \in Parsers :
            /\ Adds(p, s, SysexOf(h \o EncodeEach(d)), ProcessSysexMessage(x))
            /\ x.n = Len(h) + 2 * Len(d)
            /\ \A i \in 1 .. Len(h) : x.buf[i - 1] = h[i]
            /\ DecodeByteStream(x, Len(h), 2 * Len(d)) = d
  <2>1. Carried(p, s, h, d)
    BY <1>1, <1>2, <1>5, <1>6, SysexCarries
  <2> QED
    BY <2>1, Zenon DEF Carried
<1>8. x.buf[0] = REPORT_FIRMWARE /\ x.buf[1] = a /\ x.buf[2] = b
  <2>1. \A i \in 1 .. 3 : x.buf[i - 1] = h[i]
    BY <1>2, <1>7
  <2>2. x.buf[1 - 1] = h[1] /\ x.buf[2 - 1] = h[2] /\ x.buf[3 - 1] = h[3]
    BY <2>1
  <2> QED
    BY <1>2, <2>2
<1>9. ~(x.n > BufferSize) /\ ~(x.n < 3) /\ x.n - 3 = 2 * Len(d)
  BY <1>1, <1>2, <1>7, WireAssumption
<1>10. ProcessSysexMessage(x) = <<"firmware", x.buf[1], x.buf[2], DecodeByteStream(x, 3, x.n - 3)>>
  BY <1>8, <1>9, Zenon DEF ProcessSysexMessage
<1>11. ProcessSysexMessage(x) = <<"firmware", a, b, d>>
  BY <1>2, <1>7, <1>8, <1>9, <1>10, Zenon
<1>12. Meant(<<"firmware", a, b, d>>) = <<"firmware", a, b, d>>
  BY MeantIs
<1> QED
  BY <1>4, <1>7, <1>11, <1>12, Zenon

LEMMA QueryWhole ==
  ASSUME NEW p \in States, NEW s \in Seq(Int), ~AtEnd(p, s).parser.sysex
  PROVE  Adds(p, s, Marshal(<<"query">>), Meant(<<"query">>))
<1> DEFINE body == <<REPORT_FIRMWARE>>
<1>1. body \in Seq(Int) /\ Len(body) = 1 /\ body[1] = REPORT_FIRMWARE /\ REPORT_FIRMWARE # END_SYSEX
  BY DEF REPORT_FIRMWARE, END_SYSEX
<1>2. Marshal(<<"query">>) = SysexOf(body) /\ Meant(<<"query">>) = <<"firmware", 0, 0, <<>>>>
  BY MarshalIs, MeantIs, Zenon
<1> HIDE DEF body
<1>3. Len(body) <= BufferSize /\ \A i \in 1 .. Len(body) : body[i] # END_SYSEX
  BY <1>1, WireAssumption
<1>4. PICK x \in Parsers :
            /\ AtEnd(p, s \o SysexOf(body)).calls = Append(AtEnd(p, s).calls, ProcessSysexMessage(x))
            /\ x.n = Len(body) /\ \A i \in 1 .. Len(body) : x.buf[i - 1] = body[i]
  BY <1>1, <1>3, SysexWhole
<1>5. x.n = 1 /\ x.buf[0] = REPORT_FIRMWARE /\ ~(x.n > BufferSize) /\ x.n < 3
  BY <1>1, <1>4, WireAssumption
<1>6. ProcessSysexMessage(x) = <<"firmware", 0, 0, <<>>>>
  BY <1>5, Zenon DEF ProcessSysexMessage
<1> QED
  BY <1>2, <1>4, <1>6, Zenon DEF Adds

LEMMA PinStateWhole ==
  ASSUME NEW p \in States, NEW s \in Seq(Int), ~AtEnd(p, s).parser.sysex, NEW pin \in InSysex
  PROVE  Adds(p, s, Marshal(<<"pinState", pin>>), Meant(<<"pinState", pin>>))
<1> DEFINE body == <<PIN_STATE_QUERY, pin>>
           rest == <<pin>>
<1>1. pin \in Int /\ pin # END_SYSEX /\ PIN_STATE_QUERY \in Int /\ PIN_STATE_QUERY # END_SYSEX
  BY DEF InSysex, PIN_STATE_QUERY, END_SYSEX
<1>2. body \in Seq(Int) /\ Len(body) = 2 /\ body[1] = PIN_STATE_QUERY /\ body[2] = pin
  BY <1>1
<1>3. rest = [i \in 1 .. 1 |-> pin]
  OBVIOUS
<1>4. Marshal(<<"pinState", pin>>) = SysexOf(body) /\ Meant(<<"pinState", pin>>) = <<"sysex", PIN_STATE_QUERY, rest>>
  BY MarshalIs, MeantIs, Zenon
<1> HIDE DEF body, rest
<1>5. Len(body) <= BufferSize /\ \A i \in 1 .. Len(body) : body[i] # END_SYSEX
  BY <1>1, <1>2, WireAssumption
<1>6. PICK x \in Parsers :
            /\ AtEnd(p, s \o SysexOf(body)).calls = Append(AtEnd(p, s).calls, ProcessSysexMessage(x))
            /\ x.n = Len(body) /\ \A i \in 1 .. Len(body) : x.buf[i - 1] = body[i]
  BY <1>2, <1>5, SysexWhole
<1>7. x.n = 2 /\ x.buf[0] = PIN_STATE_QUERY /\ x.buf[1] = pin
  <2>1. x.buf[1 - 1] = body[1] /\ x.buf[2 - 1] = body[2]
    BY <1>2, <1>6
  <2> QED
    BY <1>2, <1>6, <2>1
<1>8. ~(x.n > BufferSize) /\ x.n # 0 /\ x.n - 1 = 1 /\ x.buf[0] # REPORT_FIRMWARE /\ x.buf[0] # STRING_DATA
  BY <1>7, WireAssumption DEF PIN_STATE_QUERY, REPORT_FIRMWARE, STRING_DATA
<1>9. ProcessSysexMessage(x) = <<"sysex", x.buf[0], [i \in 1 .. x.n - 1 |-> x.buf[i]]>>
  BY <1>8, Zenon DEF ProcessSysexMessage
<1>10. [i \in 1 .. x.n - 1 |-> x.buf[i]] = rest
  BY <1>3, <1>7, <1>8
<1>11. ProcessSysexMessage(x) = <<"sysex", PIN_STATE_QUERY, rest>>
  BY <1>7, <1>9, <1>10, Zenon
<1> QED
  BY <1>4, <1>6, <1>11, Zenon DEF Adds

\* Where no data are waited for, the two bytes behind a report of the version are dropped.
LEMMA VersionWhole ==
  ASSUME NEW p \in States, NEW s \in Seq(Int), ~AtEnd(p, s).parser.sysex, AtEnd(p, s).parser.wait = 0,
         NEW a \in 0 .. 127, NEW b \in 0 .. 127
  PROVE  Adds(p, s, Marshal(<<"protocol", a, b>>), Meant(<<"protocol", a, b>>))
<1> DEFINE r == AtEnd(p, s)
           s1 == Append(s, REPORT_VERSION)
           s2 == Append(s1, a)
           q1 == ReadOn(r, REPORT_VERSION)
           q2 == ReadOn(q1, a)
<1>1. REPORT_VERSION \in Int /\ a \in Int /\ b \in Int
  BY DEF REPORT_VERSION
<1>2. s1 \in Seq(Int) /\ s2 \in Seq(Int) /\ s \o <<REPORT_VERSION, a, b>> = Append(s2, b)
  <2>1. s1 \in Seq(Int)
    BY <1>1
  <2>2. s2 \in Seq(Int)
    BY <1>1, <2>1
  <2> QED
    BY <1>1, <2>1, <2>2, ThreeBytes
<1>3. AtEnd(p, s1) = q1
  BY <1>1, AtEndAppend
<1> HIDE DEF s1
<1>4. AtEnd(p, s2) = q2
  BY <1>1, <1>2, <1>3, AtEndAppend
<1> HIDE DEF s2
<1>5. AtEnd(p, s \o <<REPORT_VERSION, a, b>>) = ReadOn(q2, b)
  BY <1>1, <1>2, <1>4, AtEndAppend
<1>6. r \in Reached /\ ~r.parser.sysex /\ r.parser.wait = 0
  BY AtEndType
<1> HIDE DEF r
<1>7. q1 \in Reached /\ q1.calls = Append(r.calls, <<"version">>) /\ ~q1.parser.sysex /\ q1.parser.wait = 0
  <2>1. q1 \in Reached
    BY <1>1, <1>6, ReadOnType
  <2> QED
    BY <1>6, <2>1, VersionRead
<1> HIDE DEF q1
<1>8. q2 \in Reached /\ q2.calls = q1.calls /\ ~q2.parser.sysex /\ q2.parser.wait = 0
  <2>1. q2 \in Reached
    BY <1>1, <1>7, ReadOnType
  <2> QED
    BY <1>7, <2>1, StrayRead
<1> HIDE DEF q2
<1>9. ReadOn(q2, b).calls = q2.calls
  BY <1>8, StrayRead
<1>10. Marshal(<<"protocol", a, b>>) = <<REPORT_VERSION, a, b>> /\ Meant(<<"protocol", a, b>>) = <<"version">>
  <2>1. Marshal(<<"protocol", a, b>>) = <<REPORT_VERSION, a, b>>
    BY DEF Marshal
  <2>2. Meant(<<"protocol", a, b>>) = <<"version">>
    BY DEF Meant
  <2> QED
    BY <2>1, <2>2
<1>11. Adds(p, s, <<REPORT_VERSION, a, b>>, <<"version">>)
  BY <1>5, <1>7, <1>8, <1>9 DEF Adds, r
<1> QED
  BY <1>10, <1>11, Zenon

LEMMA PairPair ==
  ASSUME NEW a \in Int, NEW b \in Int, NEW c \in Int, NEW d \in Int
  PROVE  <<a, b>> \o <<c, d>> = <<a, b, c, d>>
<1> DEFINE u == <<a, b>> \o <<c, d>>
           w == <<a, b, c, d>>
<1>1. u \in Seq(Int) /\ Len(u) = 4 /\ u[1] = a /\ u[2] = b /\ u[3] = c /\ u[4] = d
  OBVIOUS
<1>2. w \in Seq(Int) /\ Len(w) = 4 /\ w[1] = a /\ w[2] = b /\ w[3] = c /\ w[4] = d
  OBVIOUS
<1> HIDE DEF u, w
<1>3. \A i \in 1 .. Len(u) : u[i] = w[i]
  BY <1>1, <1>2
<1>4. u = w
  BY <1>1, <1>2, <1>3, SeqEqual
<1> QED
  BY <1>4 DEF u, w

\* What a sysex callback is given of four bytes: the three behind the first.
LEMMA RestOfFour ==
  ASSUME NEW w \in Seq(Int), Len(w) = 4
  PROVE  [i \in 1 .. 3 |-> w[i + 1]] = <<w[2], w[3], w[4]>>
<1> DEFINE y == <<w[2], w[3], w[4]>>
           z == [i \in 1 .. 3 |-> w[i + 1]]
<1>0. \A i \in 1 .. 4 : w[i] \in Int
  BY ElementOfSeq
<1>1. w[2] \in Int /\ w[3] \in Int /\ w[4] \in Int
  BY <1>0
<1>2. y \in Seq(Int) /\ Len(y) = 3 /\ y[1] = w[2] /\ y[2] = w[3] /\ y[3] = w[4]
  BY <1>1
<1> HIDE DEF y
<1>3. z \in Seq(Int) /\ Len(z) = 3 /\ z[1] = w[2] /\ z[2] = w[3] /\ z[3] = w[4]
  <2>1. \A i \in 1 .. 3 : w[i + 1] \in Int
    BY <1>0
  <2> QED
    BY <2>1
<1> HIDE DEF z
<1>4. \A i \in 1 .. Len(y) : y[i] = z[i]
  BY <1>2, <1>3
<1>5. y = z
  BY <1>2, <1>3, <1>4, SeqEqual
<1> QED
  BY <1>5 DEF y, z

LEMMA ExtendedWhole ==
  ASSUME NEW p \in States, NEW s \in Seq(Int), ~AtEnd(p, s).parser.sysex,
         NEW pin \in InSysex, pin > 15, NEW v \in Data14
  PROVE  Adds(p, s, Marshal(<<"analog", pin, v>>), Meant(<<"analog", pin, v>>))
<1> DEFINE lo == v % 128
           hi == (v \div 128) % 128
           body == <<EXTENDED_ANALOG, pin, lo, hi>>
<1>1. lo \in 0 .. 127 /\ hi \in 0 .. 127 /\ hi = v \div 128
  BY Groups
<1>2. EncodeByteStream(v) = <<lo, hi>> /\ pin \in Int /\ pin # END_SYSEX /\ ~(pin <= 15)
  BY DEF EncodeByteStream, InSysex
<1>4. EXTENDED_ANALOG \in Int /\ EXTENDED_ANALOG # END_SYSEX
  BY DEF EXTENDED_ANALOG, END_SYSEX
<1>5. Marshal(<<"analog", pin, v>>) = SysexOf(body)
  <2> HIDE DEF lo, hi
  <2>1. lo \in Int /\ hi \in Int
    BY <1>1
  <2>2. Marshal(<<"analog", pin, v>>) = SendAnalog(pin, v)
    BY MarshalIs, Zenon
  <2>3. SendAnalog(pin, v) = SysexOf(<<EXTENDED_ANALOG, pin>> \o <<lo, hi>>)
    <3>1. SendAnalog(pin, v) = SysexOf(<<EXTENDED_ANALOG, pin>> \o EncodeByteStream(v))
      BY <1>2 DEF SendAnalog
    <3> QED
      BY <1>2, <3>1, Zenon
  <2>4. <<EXTENDED_ANALOG, pin>> \o <<lo, hi>> = body
    BY <1>2, <1>4, <2>1, PairPair
  <2> QED
    BY <2>2, <2>3, <2>4, Zenon
<1>6. Meant(<<"analog", pin, v>>) = <<"sysex", EXTENDED_ANALOG, <<pin, lo, hi>>>>
  <2>1. Meant(<<"analog", pin, v>>) = <<"sysex", EXTENDED_ANALOG, <<pin, v % 128, v \div 128>>>>
    BY <1>2, MeantIs
  <2> QED
    BY <1>1, <2>1, Zenon
<1> HIDE DEF lo, hi
<1>t. lo \in Int /\ hi \in Int /\ lo # END_SYSEX /\ hi # END_SYSEX
  <2>1. \A b \in 0 .. 127 : b \in Int /\ b # END_SYSEX
    BY DEF END_SYSEX
  <2> QED
    BY <1>1, <2>1, Zenon
<1>3. body \in Seq(Int) /\ Len(body) = 4
  BY <1>2, <1>4, <1>t
<1>8. body[1] = EXTENDED_ANALOG /\ body[2] = pin /\ body[3] = lo /\ body[4] = hi
  OBVIOUS
<1> HIDE DEF body
<1>7. body \in Seq(Int) /\ Len(body) = 4 /\ <<pin, lo, hi>> = [i \in 1 .. 3 |-> body[i + 1]]
  BY <1>3, <1>8, RestOfFour, Zenon
<1>9. Len(body) <= BufferSize /\ \A i \in 1 .. Len(body) : body[i] # END_SYSEX
  BY <1>2, <1>4, <1>t, <1>7, <1>8, WireAssumption
<1>10. PICK x \in Parsers :
            /\ AtEnd(p, s \o SysexOf(body)).calls = Append(AtEnd(p, s).calls, ProcessSysexMessage(x))
            /\ x.n = Len(body) /\ \A i \in 1 .. Len(body) : x.buf[i - 1] = body[i]
  BY <1>7, <1>9, SysexWhole
<1>11. x.n = 4 /\ x.buf[0] = EXTENDED_ANALOG /\ \A i \in 1 .. 3 : x.buf[i] = body[i + 1]
  <2>1. \A i \in 1 .. 4 : x.buf[i - 1] = body[i]
    BY <1>7, <1>10
  <2>2. x.buf[1 - 1] = body[1]
    BY <2>1
  <2>3. ASSUME NEW i \in 1 .. 3 PROVE x.buf[i] = body[i + 1]
    <3>1. i + 1 \in 1 .. 4 /\ (i + 1) - 1 = i
      OBVIOUS
    <3> QED
      BY <2>1, <3>1
  <2> QED
    BY <1>7, <1>8, <1>10, <2>2, <2>3
<1>12. ~(x.n > BufferSize) /\ x.n # 0 /\ x.n - 1 = 3 /\ x.buf[0] # REPORT_FIRMWARE /\ x.buf[0] # STRING_DATA
  BY <1>11, WireAssumption DEF EXTENDED_ANALOG, REPORT_FIRMWARE, STRING_DATA
<1>13. ProcessSysexMessage(x) = <<"sysex", x.buf[0], [i \in 1 .. x.n - 1 |-> x.buf[i]]>>
  BY <1>12, Zenon DEF ProcessSysexMessage
<1>14. [i \in 1 .. x.n - 1 |-> x.buf[i]] = [i \in 1 .. 3 |-> body[i + 1]]
  BY <1>11, <1>12
<1>15. ProcessSysexMessage(x) = <<"sysex", EXTENDED_ANALOG, <<pin, lo, hi>>>>
  BY <1>7, <1>11, <1>13, <1>14, Zenon
<1> QED
  BY <1>5, <1>6, <1>10, <1>15, Zenon DEF Adds
-----------------------------------------------------------------------------
LEMMA Triple ==
  ASSUME NEW n, NEW A, NEW B, NEW m \in {n} \X A \X B
  PROVE  \E a \in A, b \in B : m = <<n, a, b>>
  OBVIOUS

\* Each message there is, after whatever was read before.
LEMMA Whole ==
  ASSUME NEW p \in States, NEW s \in Seq(Int), ~AtEnd(p, s).parser.sysex, NEW m, WellFormed(m),
         m[1] = "protocol" => AtEnd(p, s).parser.wait = 0
  PROVE  Adds(p, s, Marshal(m), Meant(m))
<1>1. CASE m \in {<<"version">>, <<"reset">>, <<"query">>}
  <2>1. Adds(p, s, <<REPORT_VERSION>>, <<"version">>) /\ Adds(p, s, <<SYSTEM_RESET>>, <<"reset">>)
    BY NoData DEF Adds
  <2>2. Adds(p, s, Marshal(<<"version">>), Meant(<<"version">>)) /\ Adds(p, s, Marshal(<<"reset">>), Meant(<<"reset">>))
    BY <2>1, MarshalIs, MeantIs, Zenon
  <2>3. Adds(p, s, Marshal(<<"query">>), Meant(<<"query">>))
    BY QueryWhole
  <2> QED
    BY <1>1, <2>2, <2>3, Zenon
<1>2. CASE m \in {"analog"} \X InSysex \X Data14
  <2>1. PICK pin \in InSysex, v \in Data14 : m = <<"analog", pin, v>>
    BY <1>2
  <2>2. CASE pin > 15
    BY <2>1, <2>2, ExtendedWhole
  <2>3. CASE pin \in 0 .. 15
    BY <2>1, <2>3, PortsWhole
  <2>4. pin > 15 \/ pin \in 0 .. 15
    BY DEF InSysex
  <2> QED
    BY <2>2, <2>3, <2>4
<1>3. CASE m \in {"digital"} \X (0 .. 15) \X Data14
  <2>1. PICK port \in 0 .. 15, v \in Data14 : m = <<"digital", port, v>>
    BY <1>3
  <2> QED
    BY <2>1, PortsWhole
<1>4. CASE m \in {"reportAnalog", "reportDigital"} \X (0 .. 15) \X {0, 1}
  <2>1. PICK n \in {"reportAnalog", "reportDigital"}, port \in 0 .. 15, v \in {0, 1} : m = <<n, port, v>>
    BY <1>4
  <2> QED
    BY <2>1, ReportsWhole
<1>5. CASE m \in {"pinMode", "protocol"} \X (0 .. 127) \X (0 .. 127)
  <2>1. PICK n \in {"pinMode", "protocol"}, a \in 0 .. 127, v \in 0 .. 127 : m = <<n, a, v>>
    <3> DEFINE All == 0 .. 127
    <3>1. m \in {"pinMode", "protocol"} \X All \X All
      BY <1>5
    <3> HIDE DEF All
    <3>2. \E n \in {"pinMode", "protocol"}, a \in All, v \in All : m = <<n, a, v>>
      BY <3>1
    <3> QED
      BY <3>2 DEF All
  <2>2. CASE n = "pinMode"
    BY <2>1, <2>2, PinsWhole
  <2>3. CASE n = "protocol"
    <3>1. m[1] = n
      BY <2>1
    <3> QED
      BY <2>1, <2>3, <3>1, VersionWhole
  <2> QED
    BY <2>2, <2>3
<1>6. CASE m \in {"pinValue"} \X (0 .. 127) \X {0, 1}
  <2>1. PICK pin \in 0 .. 127, v \in {0, 1} : m = <<"pinValue", pin, v>>
    <3> DEFINE All == 0 .. 127
               Levels == {0, 1}
    <3>1. m \in {"pinValue"} \X All \X Levels
      BY <1>6
    <3> HIDE DEF All, Levels
    <3>2. \E pin \in All, v \in Levels : m = <<"pinValue", pin, v>>
      BY <3>1, Triple
    <3> QED
      BY <3>2 DEF All, Levels
  <2> QED
    BY <2>1, PinsWhole
<1>7. CASE m \in {"string"} \X Bytes(1)
  <2>1. PICK d \in Bytes(1) : m = <<"string", d>>
    BY <1>7
  <2> QED
    BY <2>1, TextWhole
<1>8. CASE m \in {"firmware"} \X InSysex \X InSysex \X Bytes(3)
  <2>1. PICK a \in InSysex, b \in InSysex, d \in Bytes(3) : m = <<"firmware", a, b, d>>
    BY <1>8
  <2> QED
    BY <2>1, FirmwareWhole
<1>9. CASE m \in {"sysex"} \X (InSysex \ {REPORT_FIRMWARE, STRING_DATA}) \X Bytes(1)
  <2>1. PICK c \in InSysex \ {REPORT_FIRMWARE, STRING_DATA}, d \in Bytes(1) : m = <<"sysex", c, d>>
    BY <1>9
  <2> QED
    BY <2>1, TextWhole
<1>10. CASE m \in {"pinState"} \X InSysex
  <2>1. PICK pin \in InSysex : m = <<"pinState", pin>>
    BY <1>10
  <2> QED
    BY <2>1, PinStateWhole
<1> QED
  BY <1>1, <1>2, <1>3, <1>4, <1>5, <1>6, <1>7, <1>8, <1>9, <1>10, Zenon DEF WellFormed

-----------------------------------------------------------------------------
\* A message is bytes.
LEMMA GroupsType ==
  ASSUME NEW v \in Int
  PROVE  EncodeByteStream(v) \in Seq(Int)
<1>1. v % 128 \in Int /\ (v \div 128) % 128 \in Int
  OBVIOUS
<1> QED
  BY <1>1 DEF EncodeByteStream

LEMMA SysexType ==
  ASSUME NEW body \in Seq(Int)
  PROVE  SysexOf(body) \in Seq(Int)
  BY DEF SysexOf, START_SYSEX, END_SYSEX

LEMMA BodyType ==
  ASSUME NEW h \in Seq(Int), NEW d \in Seq(0 .. 255)
  PROVE  SysexOf(h \o EncodeEach(d)) \in Seq(Int)
<1>1. EncodeEach(d) \in Seq(Int)
  BY Encoded
<1>2. h \o EncodeEach(d) \in Seq(Int)
  BY <1>1
<1> QED
  BY <1>2, SysexType

LEMMA MarshalType ==
  ASSUME NEW m, WellFormed(m)
  PROVE  Marshal(m) \in Seq(Int)
<1>0. /\ \A b \in 0 .. 127 : b \in Int
      /\ \A b \in InSysex : b \in Int
      /\ \A b \in Data14 : b \in Int
      /\ \A c \in {DIGITAL_MESSAGE, REPORT_ANALOG, REPORT_DIGITAL, ANALOG_MESSAGE, SET_PIN_MODE,
                   SET_DIGITAL_PIN_VALUE, REPORT_VERSION, SYSTEM_RESET, EXTENDED_ANALOG, STRING_DATA,
                   REPORT_FIRMWARE, PIN_STATE_QUERY} : c \in Int
  BY DEF InSysex, Data14, DIGITAL_MESSAGE, REPORT_ANALOG, REPORT_DIGITAL, ANALOG_MESSAGE, SET_PIN_MODE,
     SET_DIGITAL_PIN_VALUE, REPORT_VERSION, SYSTEM_RESET, EXTENDED_ANALOG, STRING_DATA, REPORT_FIRMWARE,
     PIN_STATE_QUERY
<1>t. /\ \A a \in Int : <<a>> \in Seq(Int)
      /\ \A a \in Int, b \in Int : <<a, b>> \in Seq(Int)
      /\ \A a \in Int, b \in Int, c \in Int : <<a, b, c>> \in Seq(Int)
      /\ \A u \in Seq(Int), v \in Seq(Int) : u \o v \in Seq(Int)
  OBVIOUS
<1>1. CASE m \in {<<"version">>, <<"reset">>, <<"query">>}
  <2>1. /\ <<REPORT_VERSION>> \in Seq(Int) /\ <<SYSTEM_RESET>> \in Seq(Int) /\ <<REPORT_FIRMWARE>> \in Seq(Int)
    BY <1>0, <1>t, Zenon
  <2>2. SysexOf(<<REPORT_FIRMWARE>>) \in Seq(Int)
    BY <2>1, SysexType
  <2> QED
    BY <1>1, <2>1, <2>2, MarshalIs, Zenon
<1>2. CASE m \in {"analog"} \X InSysex \X Data14
  <2>1. PICK pin \in InSysex, v \in Data14 : m = <<"analog", pin, v>>
    BY <1>2
  <2>2. pin \in Int /\ ANALOG_MESSAGE + pin \in Int /\ EncodeByteStream(v) \in Seq(Int)
    <3>1. pin \in Int /\ v \in Int
      BY <1>0, Zenon
    <3> QED
      BY <3>1, GroupsType DEF ANALOG_MESSAGE
  <2>3. <<ANALOG_MESSAGE + pin>> \o EncodeByteStream(v) \in Seq(Int)
    BY <1>t, <2>2, Zenon
  <2>4. SysexOf(<<EXTENDED_ANALOG, pin>> \o EncodeByteStream(v)) \in Seq(Int)
    <3>1. <<EXTENDED_ANALOG, pin>> \o EncodeByteStream(v) \in Seq(Int)
      BY <1>0, <1>t, <2>2, Zenon
    <3> QED
      BY <3>1, SysexType
  <2>5. SendAnalog(pin, v) \in Seq(Int)
    <3>1. \/ SendAnalog(pin, v) = <<ANALOG_MESSAGE + pin>> \o EncodeByteStream(v)
          \/ SendAnalog(pin, v) = SysexOf(<<EXTENDED_ANALOG, pin>> \o EncodeByteStream(v))
      BY DEF SendAnalog
    <3> QED
      BY <2>3, <2>4, <3>1, Zenon
  <2> QED
    BY <2>1, <2>5, MarshalIs, Zenon
<1>3. CASE m \in {"digital"} \X (0 .. 15) \X Data14
  <2>1. PICK port \in 0 .. 15, v \in Data14 : m = <<"digital", port, v>>
    BY <1>3
  <2>2. DIGITAL_MESSAGE + (port % 16) \in Int /\ EncodeByteStream(v) \in Seq(Int)
    <3>1. DIGITAL_MESSAGE + (port % 16) \in Int
      BY DEF DIGITAL_MESSAGE
    <3>2. v \in Int
      BY <1>0, Zenon
    <3> QED
      BY <3>1, <3>2, GroupsType
  <2>3. <<DIGITAL_MESSAGE + (port % 16)>> \o EncodeByteStream(v) \in Seq(Int)
    BY <1>t, <2>2, Zenon
  <2> QED
    BY <2>1, <2>3, MarshalIs, Zenon
<1>4. CASE m \in {"reportAnalog", "reportDigital"} \X (0 .. 15) \X {0, 1}
  <2>1. PICK n \in {"reportAnalog", "reportDigital"}, port \in 0 .. 15, v \in {0, 1} : m = <<n, port, v>>
    BY <1>4
  <2>2. REPORT_ANALOG + (port % 16) \in Int /\ REPORT_DIGITAL + (port % 16) \in Int /\ v \in Int
    <3>1. port % 16 \in Int /\ v \in Int
      OBVIOUS
    <3> QED
      BY <3>1 DEF REPORT_ANALOG, REPORT_DIGITAL
  <2>3. <<REPORT_ANALOG + (port % 16), v>> \in Seq(Int) /\ <<REPORT_DIGITAL + (port % 16), v>> \in Seq(Int)
    BY <1>t, <2>2, Zenon
  <2>4. /\ Marshal(<<"reportAnalog", port, v>>) = <<REPORT_ANALOG + (port % 16), v>>
        /\ Marshal(<<"reportDigital", port, v>>) = <<REPORT_DIGITAL + (port % 16), v>>
    BY MarshalIs, Zenon
  <2>5. m = <<"reportAnalog", port, v>> \/ m = <<"reportDigital", port, v>>
    BY <2>1
  <2> QED
    BY <2>3, <2>4, <2>5, Zenon
<1>5. CASE m \in {"pinMode", "protocol"} \X (0 .. 127) \X (0 .. 127)
  <2>1. PICK n \in {"pinMode", "protocol"}, a \in 0 .. 127, v \in 0 .. 127 : m = <<n, a, v>>
    <3> DEFINE All == 0 .. 127
    <3>1. m \in {"pinMode", "protocol"} \X All \X All
      BY <1>5
    <3> HIDE DEF All
    <3>2. \E n \in {"pinMode", "protocol"}, a \in All, v \in All : m = <<n, a, v>>
      BY <3>1
    <3> QED
      BY <3>2 DEF All
  <2>2. a \in Int /\ v \in Int
    BY <1>0, Zenon
  <2>3. <<SET_PIN_MODE, a, v>> \in Seq(Int) /\ <<REPORT_VERSION, a, v>> \in Seq(Int)
    BY <1>0, <1>t, <2>2, Zenon
  <2>4. /\ Marshal(<<"pinMode", a, v>>) = <<SET_PIN_MODE, a, v>>
        /\ Marshal(<<"protocol", a, v>>) = <<REPORT_VERSION, a, v>>
    BY MarshalIs, Zenon
  <2>5. m = <<"pinMode", a, v>> \/ m = <<"protocol", a, v>>
    BY <2>1
  <2> QED
    BY <2>3, <2>4, <2>5, Zenon
<1>6. CASE m \in {"pinValue"} \X (0 .. 127) \X {0, 1}
  <2>1. PICK pin \in 0 .. 127, v \in {0, 1} : m = <<"pinValue", pin, v>>
    <3> DEFINE All == 0 .. 127
               Levels == {0, 1}
    <3>1. m \in {"pinValue"} \X All \X Levels
      BY <1>6
    <3> HIDE DEF All, Levels
    <3>2. \E pin \in All, v \in Levels : m = <<"pinValue", pin, v>>
      BY <3>1, Triple
    <3> QED
      BY <3>2 DEF All, Levels
  <2>2. pin % 128 \in Int /\ (IF v # 0 THEN 1 ELSE 0) \in Int
    OBVIOUS
  <2>3. <<SET_DIGITAL_PIN_VALUE, pin % 128, IF v # 0 THEN 1 ELSE 0>> \in Seq(Int)
    BY <1>0, <1>t, <2>2, Zenon
  <2>4. Marshal(<<"pinValue", pin, v>>) = <<SET_DIGITAL_PIN_VALUE, pin % 128, IF v # 0 THEN 1 ELSE 0>>
    BY MarshalIs, Zenon
  <2> QED
    BY <2>1, <2>3, <2>4, Zenon
<1>7. CASE m \in {"string"} \X Bytes(1)
  <2>1. PICK d \in Bytes(1) : m = <<"string", d>>
    BY <1>7
  <2>2. d \in Seq(0 .. 255) /\ <<STRING_DATA>> \in Seq(Int)
    BY <1>0, <1>t DEF Bytes
  <2>3. SysexOf(<<STRING_DATA>> \o EncodeEach(d)) \in Seq(Int)
    BY <2>2, BodyType
  <2> QED
    BY <2>1, <2>3, MarshalIs, Zenon DEF SendSysex
<1>8. CASE m \in {"firmware"} \X InSysex \X InSysex \X Bytes(3)
  <2>1. PICK a \in InSysex, b \in InSysex, d \in Bytes(3) : m = <<"firmware", a, b, d>>
    BY <1>8
  <2>2. d \in Seq(0 .. 255) /\ <<REPORT_FIRMWARE, a, b>> \in Seq(Int)
    BY <1>0, <1>t DEF Bytes
  <2>3. SysexOf(<<REPORT_FIRMWARE, a, b>> \o EncodeEach(d)) \in Seq(Int)
    BY <2>2, BodyType
  <2>4. Marshal(<<"firmware", a, b, d>>) = SysexOf(<<REPORT_FIRMWARE, a, b>> \o EncodeEach(d))
    BY MarshalIs
  <2> QED
    BY <2>1, <2>3, <2>4, Zenon
<1>9. CASE m \in {"sysex"} \X (InSysex \ {REPORT_FIRMWARE, STRING_DATA}) \X Bytes(1)
  <2>1. PICK c \in InSysex \ {REPORT_FIRMWARE, STRING_DATA}, d \in Bytes(1) : m = <<"sysex", c, d>>
    BY <1>9
  <2>2. d \in Seq(0 .. 255) /\ <<c>> \in Seq(Int)
    BY <1>0, <1>t DEF Bytes
  <2>3. SysexOf(<<c>> \o EncodeEach(d)) \in Seq(Int)
    BY <2>2, BodyType
  <2>4. Marshal(<<"sysex", c, d>>) = SendSysex(c, d)
    BY MarshalIs
  <2> QED
    BY <2>1, <2>3, <2>4, Zenon DEF SendSysex
<1>10. CASE m \in {"pinState"} \X InSysex
  <2>1. PICK pin \in InSysex : m = <<"pinState", pin>>
    BY <1>10
  <2>2. <<PIN_STATE_QUERY, pin>> \in Seq(Int)
    BY <1>0, <1>t, Zenon
  <2>3. Marshal(<<"pinState", pin>>) = SysexOf(<<PIN_STATE_QUERY, pin>>)
    BY MarshalIs, Zenon
  <2> QED
    BY <2>1, <2>2, <2>3, SysexType
<1> QED
  BY <1>1, <1>2, <1>3, <1>4, <1>5, <1>6, <1>7, <1>8, <1>9, <1>10, Zenon DEF WellFormed

\* The stream is bytes and the parser in one of its states.
WireInv == stream \in Seq(Int) /\ parser \in States

LEMMA WireStarts == WireInit => WireInv
<1> SUFFICES ASSUME WireInit PROVE WireInv
  OBVIOUS
<1>1. stream \in Seq(Int) /\ parser = Idle
  BY DEF WireInit
<1> QED
  BY <1>1, IdleType DEF WireInv, States

LEMMA WireKeeps == WireInv /\ [WireNext]_wireVars => WireInv'
<1> SUFFICES ASSUME WireInv, [WireNext]_wireVars PROVE WireInv'
  OBVIOUS
<1>1. stream \in Seq(Int) /\ parser \in States
  BY DEF WireInv
<1>2. ASSUME NEW m \in Messages, Send(m) PROVE WireInv'
  <2>1. Marshal(m) \in Seq(Int)
    BY MarshalType, MessagesAssumption
  <2>2. stream' = stream \o Marshal(m) /\ parser' = parser
    BY <1>2 DEF Send
  <2>3. stream' \in Seq(Int)
    BY <1>1, <2>1, <2>2
  <2> QED
    BY <1>1, <2>2, <2>3 DEF WireInv
<1>3. CASE ProcessInput
  <2> DEFINE q == ParseByte(parser, Head(stream))
             c == IF q.call # <<>> /\ q.call[1][1] \in attached THEN q.call ELSE <<>>
  <2>1. Head(stream) \in Int /\ Tail(stream) \in Seq(Int)
    BY <1>1, <1>3 DEF ProcessInput
  <2>2. q \in States
    BY <1>1, <2>1, ParseType
  <2>3. parser' = [q EXCEPT !.call = c] /\ stream' = Tail(stream)
    BY <1>3 DEF ProcessInput
  <2> HIDE DEF q
  <2>4. c \in Seq(Callbacks)
    <3>1. q.call \in Seq(Callbacks)
      BY <2>2 DEF States, Parsers
    <3>2. <<>> \in Seq(Callbacks)
      OBVIOUS
    <3> QED
      BY <3>1, <3>2, Zenon
  <2> HIDE DEF c
  <2>5. parser' \in Parsers
    BY <2>2, <2>3, <2>4, WithCall DEF States
  <2>6. parser'.cmd = q.cmd
    BY <2>2, <2>3 DEF States, Parsers
  <2> QED
    BY <2>1, <2>2, <2>3, <2>5, <2>6 DEF WireInv, States
<1>4. CASE Reconnect
  <2>1. stream' = <<>> /\ parser' = parser
    BY <1>4 DEF Reconnect
  <2> QED
    BY <1>1, <2>1 DEF WireInv
<1>5. ASSUME NEW c \in Commands, Attach(c) \/ Detach(c) PROVE WireInv'
  BY <1>1, <1>5 DEF Attach, Detach, WireInv
<1>6. CASE UNCHANGED wireVars
  BY <1>1, <1>6 DEF wireVars, WireInv
<1> QED
  BY <1>2, <1>3, <1>4, <1>5, <1>6 DEF WireNext

\* Whatever was on the way, and whatever of a message that was cut off the parser still waited
\* for, each message of FirmataMarshaller adds the callback it is meant to cause
\* (FirmataParser::parse), for every size of the buffer.  The exceptions are a sysex message
\* that was cut off, and for a report of the version any message that was (VersionIsWhole).
THEOREM DeliversWholeHolds == WireInit /\ [][WireNext]_wireVars => DeliversWhole
<1> DEFINE Step == \A m \in Messages :
        /\ Send(m) /\ ~AtEnd(parser, stream).parser.sysex
        /\ m[1] = "protocol" => AtEnd(parser, stream).parser.wait = 0
        => AtEnd(parser', stream').calls = Append(AtEnd(parser, stream).calls, Meant(m))
<1>1. WireInv /\ [WireNext]_wireVars => [Step]_wireVars
  <2> SUFFICES ASSUME WireInv, NEW m \in Messages, Send(m), ~AtEnd(parser, stream).parser.sysex,
                      m[1] = "protocol" => AtEnd(parser, stream).parser.wait = 0
               PROVE  AtEnd(parser', stream').calls = Append(AtEnd(parser, stream).calls, Meant(m))
    OBVIOUS
  <2>1. stream \in Seq(Int) /\ parser \in States
    BY DEF WireInv
  <2>2. Adds(parser, stream, Marshal(m), Meant(m))
    BY <2>1, Whole, MessagesAssumption
  <2>3. stream' = stream \o Marshal(m) /\ parser' = parser
    BY DEF Send
  <2> QED
    BY <2>2, <2>3, Zenon DEF Adds
<1> QED
  BY <1>1, WireStarts, WireKeeps, PTL DEF DeliversWhole
=============================================================================

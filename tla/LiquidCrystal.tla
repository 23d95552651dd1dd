---------------------------- MODULE LiquidCrystal ----------------------------
(***************************************************************************)
(* LiquidCrystal/src/LiquidCrystal.cpp against the controller of the       *)
(* display, which is not reset when the board is: "we can't assume that    *)
(* it's in that state when a sketch starts" (lines 23-25).  It may be left *)
(* in either interface mode, in the middle of a byte or not.  With four    *)
(* wires the lower half of what an eight-bit interface reads is anything.  *)
(*                                                                         *)
(* A transfer is <<rs, upper, lower>>, lower = -1 when no wire drives it.  *)
(* What is written into the display's memory is not modelled.              *)
(***************************************************************************)
EXTENDS Integers, Sequences

CONSTANTS Lines,       \* what sketches pass to begin()
          MaxResets    \* bound: resets of the board

ASSUME LinesAssumption == Lines \subseteq Nat \ {0} /\ MaxResets \in Nat

NoNibble == -1
COMMAND == 0
DATA == 1

VARIABLES fourBits,    \* the wiring
          lcd,         \* _displayfunction's lines, _displaycontrol, _displaymode, as numbers
          transfers,   \* what the call under way has still to send
          begun,       \* how far the sketch is: FALSE after a reset
          chip,        \* interface, half of a byte, lines and font, control, entry mode
          cleared,     \* history: clear() was called since the direction was sent
          resets       \* history
lcdVars == <<fourBits, lcd, transfers, begun, chip, cleared, resets>>

Bit(n, k) == (n \div k) % 2

\* The controller carries out a command.
Executed(c, v) ==
    CASE v >= 64 -> c         \* an address
      [] v \in 32 .. 63 -> [c EXCEPT !.bits = IF v >= 48 THEN 8 ELSE 4, !.function = 4 * ((v % 16) \div 4)]
      [] v \in 16 .. 31 -> c  \* a shift
      [] v \in 8 .. 15 -> [c EXCEPT !.control = v - 8]
      [] v \in 4 .. 7 -> [c EXCEPT !.entry = v - 4]
      [] v \in 2 .. 3 -> c
      [] v = 1 -> [c EXCEPT !.entry = 2 + (@ % 2)]     \* a clear makes it count up
      [] OTHER -> c
Received(c, t, low) ==
    LET byte == IF c.bits = 8 THEN 16 * t[2] + low ELSE 16 * c.half + t[2]
        whole == [c EXCEPT !.half = NoNibble]
    IN IF c.bits = 4 /\ c.half = NoNibble THEN [c EXCEPT !.half = t[2]]
       ELSE IF t[1] = DATA THEN whole ELSE Executed(whole, byte)

\* send(): a byte in one transfer or two
Send(rs, v) == IF fourBits THEN << <<rs, v \div 16, -1>>, <<rs, v % 16, -1>> >> ELSE << <<rs, v \div 16, v % 16>> >>
FUNCTIONSET == 32
FunctionSet(two) == FUNCTIONSET + (IF fourBits THEN 0 ELSE 16) + (IF two THEN 8 ELSE 0)
DISPLAYCONTROL == 8
ENTRYMODESET == 4
CLEARDISPLAY == 1

LcdInit == /\ fourBits \in BOOLEAN /\ lcd = [two |-> FALSE, control |-> 0, entry |-> 0]
           /\ transfers = <<>> /\ begun = FALSE /\ cleared = FALSE /\ resets = 0
           /\ \E b \in {<<8, NoNibble>>} \cup ({4} \X (-1 .. 15)) :
                chip = [bits |-> b[1], half |-> b[2], function |-> 0, control |-> 0, entry |-> 0]

\* Mutant: the third go is left out.
ResyncTwice(two) == IF fourBits THEN << <<COMMAND, 3, -1>>, <<COMMAND, 3, -1>>, <<COMMAND, 2, -1>> >>
                    ELSE Send(COMMAND, FunctionSet(two)) \o Send(COMMAND, FunctionSet(two))

\* The transfers of begin() that bring an interface of any state into that of the wiring
Resync(two) == IF fourBits THEN << <<COMMAND, 3, -1>>, <<COMMAND, 3, -1>>, <<COMMAND, 3, -1>>, <<COMMAND, 2, -1>> >>
               ELSE Send(COMMAND, FunctionSet(two)) \o Send(COMMAND, FunctionSet(two)) \o Send(COMMAND, FunctionSet(two))

\* begin(), after a reset that of the constructor, for one line; two lines are never taken back.
BeginLcd(lines) ==
    /\ transfers = <<>> /\ (begun \/ lines = 1)
    /\ LET two == lines > 1 \/ (begun /\ lcd.two)
       IN /\ lcd' = [two |-> two, control |-> 4, entry |-> 2]
          /\ transfers' = Resync(two) \o Send(COMMAND, FunctionSet(two)) \o Send(COMMAND, DISPLAYCONTROL + 4)
                          \o Send(COMMAND, CLEARDISPLAY) \o Send(COMMAND, ENTRYMODESET + 2)
    /\ begun' = TRUE /\ cleared' = FALSE
    /\ UNCHANGED <<fourBits, chip, resets>>

Called(sent) == /\ begun /\ transfers = <<>> /\ transfers' = sent
                /\ UNCHANGED <<fourBits, begun, chip, resets>>

\* display(), cursor(), blink() and their opposites: a bit of _displaycontrol
SetControl(k, on) == LET c == lcd.control + k * ((IF on THEN 1 ELSE 0) - Bit(lcd.control, k))
                     IN /\ Called(Send(COMMAND, DISPLAYCONTROL + c))
                        /\ lcd' = [lcd EXCEPT !.control = c] /\ UNCHANGED cleared
\* leftToRight(), autoscroll() and their opposites: a bit of _displaymode
SetMode(k, on) == LET e == lcd.entry + k * ((IF on THEN 1 ELSE 0) - Bit(lcd.entry, k))
                  IN /\ Called(Send(COMMAND, ENTRYMODESET + e))
                     /\ lcd' = [lcd EXCEPT !.entry = e] /\ cleared' = FALSE
Clear == Called(Send(COMMAND, CLEARDISPLAY)) /\ cleared' = TRUE /\ UNCHANGED lcd
\* home(), setCursor(), scrolling, write(), createChar() of a row
Command(v) == v \in {2, 24, 28} \cup 64 .. 255 /\ Called(Send(COMMAND, v)) /\ UNCHANGED <<lcd, cleared>>
WriteChar(v) == Called(Send(DATA, v)) /\ UNCHANGED <<lcd, cleared>>

\* pulseEnable() and the time the controller is given
PulseEnable == /\ transfers # <<>> /\ transfers' = Tail(transfers)
               /\ LET t == Head(transfers)
                  IN \E low \in IF t[3] = -1 /\ chip.bits = 8 THEN 0 .. 15 ELSE {t[3]} :
                        chip' = Received(chip, t, low)
               /\ UNCHANGED <<fourBits, lcd, begun, cleared, resets>>

\* The board is reset, in a call or not; the controller is not.
ResetBoard == /\ resets < MaxResets /\ resets' = resets + 1
              /\ begun' = FALSE /\ transfers' = <<>> /\ UNCHANGED <<fourBits, lcd, chip, cleared>>

LcdNext == \/ \E n \in Lines : BeginLcd(n)
           \/ \E on \in BOOLEAN : (\E k \in {1, 2, 4} : SetControl(k, on)) \/ \E k \in {1, 2} : SetMode(k, on)
           \/ Clear \/ (\E v \in {2, 192} : Command(v)) \/ WriteChar(49) \/ PulseEnable \/ ResetBoard
-----------------------------------------------------------------------------
\* When a call has returned the controller is in step with the library, whatever it was in
\* when the board came up: it reads bytes as the wiring sends them, from their first half on,
\* and is set as the library believes (lines 70-161, 197-256, 286-323).
ControllerAgrees ==
    begun /\ transfers = <<>> =>
        /\ chip.bits = (IF fourBits THEN 4 ELSE 8) /\ chip.half = NoNibble
        /\ chip.function = (IF lcd.two THEN 8 ELSE 0)
        /\ chip.control = lcd.control
        /\ chip.entry % 2 = lcd.entry % 2 /\ (~cleared => chip.entry = lcd.entry)

(* Not true of this code (README, known disagreements). *)

\* "This is for text that flows Right to Left" (line 241): it does so until leftToRight().
DirectionKept == begun /\ transfers = <<>> => chip.entry = lcd.entry
=============================================================================

-------------------------------- MODULE Servo --------------------------------
(***************************************************************************)
(* Servo/src/avr/Servo.cpp: up to SERVOS_PER_TIMER servos share a timer.   *)
(* Its interrupt ends the pulse of one and begins that of the next, while  *)
(* the sketch attaches, detaches and sets them.  An interrupt may come     *)
(* between any two accesses of the sketch to what the two share.           *)
(***************************************************************************)
EXTENDS Integers, FiniteSets

CONSTANTS SERVOS_PER_TIMER,
          ServoPins,
          Limits,     \* <<min, max>> of attach, in microseconds
          Values      \* of write: angles, or microseconds from MIN_PULSE_WIDTH on

ASSUME ServoAssumption == SERVOS_PER_TIMER \in Nat \ {0} /\ Limits \subseteq Nat \X Nat /\ Values \subseteq Nat

MIN_PULSE_WIDTH == 544
MAX_PULSE_WIDTH == 2400
DEFAULT_PULSE_WIDTH == 1500
TRIM_DURATION == 2
TicksPerUs == 2       \* 16 MHz and a prescaler of 8
Servos == 0 .. SERVOS_PER_TIMER - 1
NoPin == -1

VARIABLES ServoCount,
          nbr, isActive, ticks,   \* servos[]
          limits,     \* min and max of every object, in units of 4 us, as int8_t
          Channel,    \* the servo in its turn, -1 in the refresh interval
          running,    \* the timer's interrupt is enabled
          high,       \* pins that are HIGH
          does,       \* what the sketch does: <<"idle">>, or the step of an attach, or a constructor
          angle,      \* history: the angle last written, by servo (-1: none since attach)
          left        \* history: pins that were HIGH when their servo gave them up
servoVars == <<ServoCount, nbr, isActive, ticks, limits, Channel, running, high, does, angle, left>>

ServoInit == /\ ServoCount = 0 /\ nbr = [s \in Servos |-> NoPin] /\ isActive = [s \in Servos |-> FALSE]
             /\ ticks = [s \in Servos |-> 0] /\ limits = [s \in Servos |-> <<0, 0>>]
             /\ Channel = 0 /\ running = FALSE /\ high = {} /\ does = <<"idle">>
             /\ angle = [s \in Servos |-> -1] /\ left = {}

\* C division, int8_t, and Arduino's map()
Quot(a, b) == IF a >= 0 THEN a \div b ELSE -((-a) \div b)
Int8(n) == ((n + 128) % 256) - 128
MapRange(x, a, b, c, d) == Quot((x - a) * (d - c), b - a) + c

SERVO_MIN(s) == MIN_PULSE_WIDTH - limits[s][1] * 4
SERVO_MAX(s) == MAX_PULSE_WIDTH - limits[s][2] * 4
ReadMicroseconds(s) == Quot(ticks[s], TicksPerUs) + TRIM_DURATION
ReadAngle(s) == MapRange(ReadMicroseconds(s) + 1, SERVO_MIN(s), SERVO_MAX(s), 0, 180)

-----------------------------------------------------------------------------
Idle == does = <<"idle">>

\* The constructor: the servo is counted before it has a pulse width.
Construct == /\ Idle /\ ServoCount < SERVOS_PER_TIMER
             /\ ServoCount' = ServoCount + 1 /\ does' = <<"new", ServoCount>>
             /\ UNCHANGED <<nbr, isActive, ticks, limits, Channel, running, high, angle, left>>
ConstructEnd == /\ does[1] = "new" /\ does' = <<"idle">>
                /\ ticks' = [ticks EXCEPT ![does[2]] = DEFAULT_PULSE_WIDTH * TicksPerUs]
                /\ UNCHANGED <<ServoCount, nbr, isActive, limits, Channel, running, high, angle, left>>

\* attach(), to a pin no other servo has
Attach(s, pin, lim) ==
    /\ Idle /\ s < ServoCount /\ \A t \in Servos \ {s} : nbr[t] # pin
    /\ nbr' = [nbr EXCEPT ![s] = pin]
    /\ left' = left \cup ((high \cap {nbr[s]}) \ {pin})
    /\ limits' = [limits EXCEPT ![s] = <<Int8(Quot(MIN_PULSE_WIDTH - lim[1], 4)), Int8(Quot(MAX_PULSE_WIDTH - lim[2], 4))>>]
    /\ angle' = [angle EXCEPT ![s] = -1]
    /\ does' = <<"attach", s>>
    /\ UNCHANGED <<ServoCount, isActive, ticks, Channel, running, high>>
AttachTimer == /\ does[1] = "attach" /\ does' = <<"activate", does[2]>>
               /\ running' = (running \/ \A s \in Servos : ~isActive[s])
               /\ UNCHANGED <<ServoCount, nbr, isActive, ticks, limits, Channel, high, angle, left>>
AttachEnd == /\ does[1] = "activate" /\ does' = <<"idle">>
             /\ isActive' = [isActive EXCEPT ![does[2]] = TRUE]
             /\ UNCHANGED <<ServoCount, nbr, ticks, limits, Channel, running, high, angle, left>>

\* The interrupt stays enabled: finISR does nothing.
Detach(s) == /\ Idle /\ s < ServoCount /\ isActive' = [isActive EXCEPT ![s] = FALSE]
             /\ left' = left \cup (high \cap {nbr[s]})
             /\ UNCHANGED <<ServoCount, nbr, ticks, limits, Channel, running, high, does, angle>>

\* write(), writeMicroseconds(): the store is made with interrupts off.
Clamp(v, s) == IF v < SERVO_MIN(s) THEN SERVO_MIN(s) ELSE IF v > SERVO_MAX(s) THEN SERVO_MAX(s) ELSE v
ServoWrite(s, value) ==
    LET degrees == IF value > 180 THEN 180 ELSE value
        us == IF value < MIN_PULSE_WIDTH THEN MapRange(degrees, 0, 180, SERVO_MIN(s), SERVO_MAX(s)) ELSE value
    IN /\ Idle /\ s < ServoCount
       /\ ticks' = [ticks EXCEPT ![s] = (Clamp(us, s) - TRIM_DURATION) * TicksPerUs]
       /\ angle' = [angle EXCEPT ![s] = IF value < MIN_PULSE_WIDTH THEN degrees ELSE -1]
       /\ UNCHANGED <<ServoCount, nbr, isActive, limits, Channel, running, high, does, left>>

-----------------------------------------------------------------------------
\* Mutant: the pin is pulled low after the next channel was chosen.
HandleInterruptsLate ==
    LET next == Channel + 1
        turn == next < ServoCount /\ next < SERVOS_PER_TIMER
        low == IF turn /\ isActive[next] THEN {nbr[next]} ELSE {}
        up == IF turn /\ isActive[next] THEN {nbr[next]} ELSE {}
    IN /\ running
       /\ high' = (high \ low) \cup up /\ left' = left \ low
       /\ Channel' = IF turn THEN next ELSE -1
       /\ UNCHANGED <<ServoCount, nbr, isActive, ticks, limits, running, does, angle>>

\* handle_interrupts()
HandleInterrupts ==
    LET next == Channel + 1
        turn == next < ServoCount /\ next < SERVOS_PER_TIMER
        low == IF Channel >= 0 /\ Channel < ServoCount /\ isActive[Channel] THEN {nbr[Channel]} ELSE {}
        up == IF turn /\ isActive[next] THEN {nbr[next]} ELSE {}
    IN /\ running
       /\ high' = (high \ low) \cup up /\ left' = left \ (low \cup up)
       /\ Channel' = IF turn THEN next ELSE -1
       /\ UNCHANGED <<ServoCount, nbr, isActive, ticks, limits, running, does, angle>>

ServoNext == \/ Construct \/ ConstructEnd \/ AttachTimer \/ AttachEnd \/ HandleInterrupts
             \/ \E s \in Servos : \/ \E pin \in ServoPins, lim \in Limits : Attach(s, pin, lim)
                                  \/ \E v \in Values : ServoWrite(s, v)
                                  \/ Detach(s)
-----------------------------------------------------------------------------
\* One servo at a time has its pulse, the one whose turn it is: a pin that is HIGH is its pin,
\* or one that a servo gave up in its pulse (handle_interrupts, lines 52-75, with attach and
\* detach running).
PulsesOneByOne == high \ left \subseteq IF Channel < 0 THEN {} ELSE {nbr[Channel]}

\* read() gives the angle that was written, after map() has rounded both ways, for limits that
\* are more than 180 us apart (lines 264-310).
AngleReadsBack ==
    \A s \in Servos : angle[s] >= 0 /\ SERVO_MAX(s) - SERVO_MIN(s) > 180 => ReadAngle(s) = angle[s]

\* What a sketch relies on when it drives several servos: pulses that do not overlap, and
\* positions that are those it has set (lines 52-75, 264-310).
ServosAsSet == PulsesOneByOne /\ AngleReadsBack

(* Not true of this code (README, known disagreements). *)

\* "Stops an attached servos from pulsing its I/O pin" (Servo.h, line 45): the pin of a servo
\* that is detached in its pulse goes LOW.
DetachEndsPulse == left = {}

\* "Attaches to a pin setting min and max values in microseconds" (Servo.h, line 37).
LimitsKept == \A s \in Servos : nbr[s] # NoPin => \E lim \in Limits :
                 /\ Quot(SERVO_MIN(s) - lim[1], 4) = 0 /\ Quot(SERVO_MAX(s) - lim[2], 4) = 0
=============================================================================

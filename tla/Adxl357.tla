------------------------------- MODULE Adxl357 -------------------------------
(***************************************************************************)
(* cf_adxl357/cf_adxl357.cpp: the sensor puts its measurements into a FIFO *)
(* of its own while the sketch empties it over SPI, entry by entry, and    *)
(* measureOffset() does so until it has enough for an average.  According  *)
(* to its data sheet the sensor adds and gives out whole measurements, an  *)
(* entry for each axis; a full FIFO loses the oldest.                      *)
(*                                                                         *)
(* An entry carries a number of 20 bits without its sign.                  *)
(***************************************************************************)
EXTENDS Integers, Sequences, FiniteSets, FiniteSetsExt

CONSTANTS HalfAxis,       \* half of what a measurement may be (2^19)
          Measurements,   \* <<x, y, z>> of what may be measured, signed
          FIFO_SETS,      \* measurements in the FIFO, and in an array (32)
          SAMPLES,        \* 5000
          HalfClock,      \* half the range of micros(), in steps of a poll (2^31)
          WAIT,           \* 2000, in those steps
          MaxMeasured     \* bound: measurements

ASSUME AdxlAssumption == /\ HalfAxis \in Nat \ {0} /\ FIFO_SETS \in Nat \ {0} /\ SAMPLES \in Nat \ {0}
                         /\ Measurements \subseteq [1 .. 3 -> -HalfAxis .. HalfAxis - 1]

VARIABLES measured,       \* history: all measurements
          dropped,        \* history: numbers of those the FIFO has dropped
          fifo, latch,    \* the FIFO's entries, and those left of the measurement given out
          clock, offset,
          fifodata,       \* entries read by the readAllFromFifo() under way, or NoRead
          mean,           \* count, sums and st of measureOffset(), or NoMean
          handed,         \* history: what the sketch was given, its offset added again
          averaged        \* history: where in it the samples of measureOffset() begin and end
adxlVars == <<measured, dropped, fifo, latch, clock, offset, fifodata, mean, handed, averaged>>

NoRead == [on |-> FALSE, entries |-> <<>>]
NoMean == [on |-> FALSE, count |-> 0, sum |-> <<0, 0, 0>>, st |-> 0]
NoOffset == <<0, 0, 0>>

AdxlInit == /\ measured = <<>> /\ dropped = {} /\ fifo = <<>> /\ latch = <<>>
            /\ clock \in 0 .. 2 * HalfClock - 1 /\ offset = NoOffset /\ fifodata = NoRead /\ mean = NoMean
            /\ handed = <<>> /\ averaged = <<0, 0>>

\* int32_t of micros(), C division
Signed(n, half) == IF n >= half THEN n - 2 * half ELSE n
Quotient(a, b) == IF a >= 0 THEN a \div b ELSE -((-a) \div b)

-----------------------------------------------------------------------------
\* The sensor; an entry is <<number of the measurement, axis, unsigned value>>.
EntryOf(n, m) == [a \in 1 .. 3 |-> <<n, a, m[a] % (2 * HalfAxis)>>]
Measure == /\ Len(measured) < MaxMeasured
           /\ \E m \in Measurements :
                 /\ measured' = Append(measured, m)
                 /\ fifo' = (IF Len(fifo) = FIFO_SETS THEN Tail(fifo) ELSE fifo) \o <<EntryOf(Len(measured'), m)>>
                 /\ dropped' = IF Len(fifo) = FIFO_SETS THEN dropped \cup {fifo[1][1][1]} ELSE dropped
           /\ UNCHANGED <<latch, clock, offset, fifodata, mean, handed, averaged>>

-----------------------------------------------------------------------------
\* readAllFromFifo() up to the last transfer: an empty FIFO or a full array ends it.
BeginRead == fifodata' = [NoRead EXCEPT !.on = TRUE]
ReadAllFromFifo == /\ ~fifodata.on /\ ~mean.on /\ BeginRead
                   /\ UNCHANGED <<measured, dropped, fifo, latch, clock, offset, mean, handed, averaged>>

\* Mutant: the array is one entry shorter.
MoreShort == Len(fifodata.entries) < 3 * FIFO_SETS - 1

More == Len(fifodata.entries) < 3 * FIFO_SETS
ReadEntry == /\ fifodata.on /\ More /\ latch \o fifo # <<>>
             /\ LET given == IF latch = <<>> THEN fifo[1] ELSE latch
                IN /\ fifodata' = [fifodata EXCEPT !.entries = Append(@, given[1])]
                   /\ latch' = Tail(given)
                   /\ fifo' = IF latch = <<>> THEN Tail(fifo) ELSE fifo
             /\ UNCHANGED <<measured, dropped, clock, offset, mean, handed, averaged>>

\* The entries in threes, the sign restored, the offset taken off; what follows the last
\* entry of an array was not initialised.
FifoToAxisdata(v) == Signed(v, HalfAxis)
EntryAt(k) == IF k <= Len(fifodata.entries) THEN FifoToAxisdata(fifodata.entries[k][3]) ELSE -(2 * HalfAxis)
Sorted == [k \in 1 .. (Len(fifodata.entries) + 2) \div 3 |->
              [a \in 1 .. 3 |-> EntryAt(3 * (k - 1) + a) - offset[a]]]
Added(sum, sets) == [a \in 1 .. 3 |-> sum[a] + LET column == [k \in DOMAIN sets |-> sets[k][a]]
                                                IN MapThenSumSet(LAMBDA k : column[k], DOMAIN column)]

ReadEnds ==
    /\ fifodata.on /\ (~More \/ latch \o fifo = <<>>)
    /\ fifodata' = NoRead
    /\ handed' = handed \o [k \in DOMAIN Sorted |-> [a \in 1 .. 3 |-> Sorted[k][a] + offset[a]]]
    /\ LET count == mean.count + Len(Sorted)
           sum == Added(mean.sum, Sorted)
       IN IF ~mean.on THEN UNCHANGED <<mean, offset, averaged>>
          ELSE IF count < SAMPLES
          THEN mean' = [mean EXCEPT !.count = count, !.sum = sum] /\ UNCHANGED <<offset, averaged>>
          ELSE /\ mean' = NoMean /\ offset' = [a \in 1 .. 3 |-> Quotient(sum[a], count)]
               /\ averaged' = <<averaged[1], Len(handed')>>
    /\ UNCHANGED <<measured, dropped, fifo, latch, clock>>

-----------------------------------------------------------------------------
MeasureOffset == /\ ~mean.on /\ ~fifodata.on
                 /\ offset' = NoOffset /\ averaged' = <<Len(handed), Len(handed)>>
                 /\ mean' = [NoMean EXCEPT !.on = TRUE, !.st = Signed(clock, HalfClock)]
                 /\ UNCHANGED <<measured, dropped, fifo, latch, clock, fifodata, handed>>

\* if (t > st+2000): a sum that does not fit wraps, or is compared as it is.
Later(t, st) == {t > st + WAIT, t > Signed((st + WAIT) % (2 * HalfClock), HalfClock)}
Poll == /\ mean.on /\ ~fifodata.on
        /\ LET t == Signed(clock, HalfClock)
           IN \E now \in Later(t, mean.st) :
                IF now THEN mean' = [mean EXCEPT !.st = t] /\ BeginRead
                ELSE UNCHANGED <<mean, fifodata>>
        /\ clock' = (clock + 1) % (2 * HalfClock)
        /\ UNCHANGED <<measured, dropped, fifo, latch, offset, handed, averaged>>

Driver == ReadEntry \/ ReadEnds \/ Poll
AdxlNext == Measure \/ ReadAllFromFifo \/ MeasureOffset \/ Driver
-----------------------------------------------------------------------------
\* What the sketch gets are the measurements, whole and each once, in the order they were
\* taken, but for those a full FIFO has dropped, although the sensor goes on measuring while it is
\* read; and the offset is the mean of those measureOffset() has got (lines 96-106, 153-241).
Nth(k, S) == CHOOSE n \in S : Cardinality({m \in S : m <= n}) = k
Kept == LET numbers == DOMAIN measured \ dropped IN [k \in 1 .. Cardinality(numbers) |-> measured[Nth(k, numbers)]]
InFifo == [k \in DOMAIN fifo |-> measured[fifo[k][1][1]]]
Averaged == SubSeq(handed, averaged[1] + 1, averaged[2])
MeasurementsKept ==
    ~fifodata.on =>
        /\ handed \o InFifo = Kept
        /\ Averaged # <<>> => /\ Len(Averaged) >= SAMPLES
                              /\ \A a \in 1 .. 3 : offset[a] = Quotient(Added(NoOffset, Averaged)[a], Len(Averaged))

(* Not true of this code (README, known disagreements). *)

\* "5000 samples for averaging" (line 162): measureOffset() ends when it has got them.
OffsetEnds == mean.on /\ Len(fifo) >= SAMPLES ~> ~mean.on
=============================================================================

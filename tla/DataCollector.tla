---------------------------- MODULE DataCollector ----------------------------
(***************************************************************************)
(* The ring of measurements of cf_data_collector and the statistics over   *)
(* it.  A sketch adds a measurement per loop and asks for minimum, maximum *)
(* and average once per transmission.                                      *)
(*                                                                         *)
(* Values are small integers; the average is kept as sum and count, the    *)
(* infinities calc() starts from and its 0/0 are the record Nothing.       *)
(* checklimits is never set by any operation, so every sample is OK.       *)
(***************************************************************************)
EXTENDS Integers, Sequences, FiniteSets, FiniteSetsExt

CONSTANTS Val,              \* measurements
          RINGBUFFER_SIZE,  \* length of the two arrays
          Sizes             \* what sketches pass to init()

ASSUME SizesAssumption == /\ RINGBUFFER_SIZE \in Nat /\ Sizes \subseteq Nat
                          /\ Val \subseteq Int /\ 0 \in Val

Slot == 0..(RINGBUFFER_SIZE - 1)
Nothing == [min |-> 0, max |-> 0, sum |-> 0, count |-> 0]

VARIABLES data, ok,      \* the two arrays; ok[i]: statusflags[i] = OK
          wp,            \* write pointer
          buffersize,
          stats,         \* minimum, maximum, avg and valid (count > 0)
          overrun,       \* a write beyond the arrays has happened
          recent,        \* history: the last buffersize+1 samples since init/reset
          fresh          \* history: calc() was the last call
collectorVars == <<data, ok, wp, buffersize, stats, overrun, recent, fresh>>

\* The arrays of an object that is not static hold anything until init().
CollectorInit == /\ data \in [Slot -> Val] /\ ok \in [Slot -> BOOLEAN]
                 /\ wp = 0 /\ buffersize = 0 /\ stats = Nothing /\ overrun = FALSE
                 /\ recent = <<>> /\ fresh = FALSE

\* Every slot is cleared; the write pointer stays where it is.
InitBuffer(n) == /\ data' = [i \in Slot |-> 0] /\ ok' = [i \in Slot |-> FALSE]
                 /\ buffersize' = n
                 /\ recent' = <<>> /\ fresh' = FALSE
                 /\ UNCHANGED <<wp, stats, overrun>>

\* Mutant: the status flags are left as they are.
ResetBufferKeepsFlags(v) ==
  /\ data' = [i \in Slot |-> IF i < buffersize THEN v ELSE data[i]]
  /\ recent' = <<>> /\ fresh' = FALSE
  /\ UNCHANGED <<ok, wp, buffersize, stats, overrun>>

ResetBuffer(v) == /\ data' = [i \in Slot |-> IF i < buffersize THEN v ELSE data[i]]
                  /\ ok' = [i \in Slot |-> ok[i] /\ i >= buffersize]
                  /\ recent' = <<>> /\ fresh' = FALSE
                  /\ UNCHANGED <<wp, buffersize, stats, overrun>>

Keep(s, n) == IF Len(s) > n THEN SubSeq(s, Len(s) - n + 1, Len(s)) ELSE s

AddData(v) == /\ data' = [i \in Slot |-> IF i = wp THEN v ELSE data[i]]
              /\ ok' = [i \in Slot |-> ok[i] \/ i = wp]
              /\ overrun' = (overrun \/ wp \notin Slot)
              /\ wp' = IF wp + 1 > buffersize THEN 0 ELSE wp + 1
              /\ recent' = Keep(Append(recent, v), buffersize + 1)
              /\ fresh' = FALSE
              /\ UNCHANGED <<buffersize, stats>>

Statistics(v, I) == IF I = {} THEN Nothing
                    ELSE [min   |-> Min({v[i] : i \in I}),
                          max   |-> Max({v[i] : i \in I}),
                          sum   |-> MapThenSumSet(LAMBDA i : v[i], I),
                          count |-> Cardinality(I)]

Calc == /\ stats' = Statistics(data, {i \in Slot : i < buffersize /\ ok[i]})
        /\ fresh' = TRUE
        /\ UNCHANGED <<data, ok, wp, buffersize, overrun, recent>>

\* What lies behind the arrays is not modelled: no step after an overrun.
CollectorNext == /\ ~overrun
                 /\ \/ \E n \in Sizes : InitBuffer(n)
                    \/ \E v \in Val : ResetBuffer(v) \/ AddData(v)
                    \/ Calc
CollectorSpec == CollectorInit /\ [][CollectorNext]_collectorVars
-----------------------------------------------------------------------------
CollectorTypeOK == /\ data \in [Slot -> Val] /\ ok \in [Slot -> BOOLEAN]
                   /\ wp \in Nat /\ buffersize \in Sizes \cup {0}
                   /\ stats \in [min : Int, max : Int, sum : Int, count : Nat]
                   /\ overrun \in BOOLEAN /\ recent \in Seq(Val) /\ fresh \in BOOLEAN

\* The statistics are those of the last buffersize+1 samples added since init()
\* or reset(), with at most one of them left out: the ring has a slot that
\* calc() does not look at, and a pointer that init() and reset() do not move
\* (cf_data_collector.cpp, lines 8-42, 52-62).
StatisticsOfWindow ==
  fresh => \E k \in 0..Len(recent) : stats = Statistics(recent, DOMAIN recent \ {k})

\* A sketch that keeps below the length of the array writes inside it, also
\* after init() with another size (lines 38-41).
WritesInside == ~overrun

(* Not true of this code (README, known disagreements). *)

\* RINGBUFFER_SIZE is the "maximum size, = array size" (cf_data_collector.h,
\* line 6): a ring of that size writes inside its array.
MaximumSizeFits == ~overrun
=============================================================================

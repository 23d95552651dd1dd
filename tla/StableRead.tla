----------------------------- MODULE StableRead -----------------------------
(***************************************************************************)
(* getSnRX_RSR and getSnTX_FSR (Ethernet/src/socket.cpp): a 16-bit byte    *)
(* count is read over SPI one byte at a time, high byte first, while the   *)
(* chip changes it, so one read can be torn.  The library reads until two  *)
(* reads agree.  During a call the count only grows: received bytes are    *)
(* added, or acknowledged bytes become free; it shrinks only when the      *)
(* library itself gives bytes away, which it does between calls.           *)
(***************************************************************************)
EXTENDS Naturals

CONSTANT Base     \* values of a byte (256)

ASSUME BaseAssumption == Base \in Nat \ {0}

VARIABLES reg,         \* the chip's counter
          reading, hi,      \* which byte is read next, and the high byte read
          val, prev,   \* the last complete read and the one before it
          start        \* what reg held when the call began

readVars == <<reg, reading, hi, val, prev, start>>
Count == [hi : 0..(Base - 1), lo : 0..(Base - 1)]
Unread == [hi |-> Base, lo |-> 0]     \* no read yet
Leq(c, d) == c.hi < d.hi \/ (c.hi = d.hi /\ c.lo <= d.lo)

ReadInit == /\ reg \in Count
            /\ reading = "idle" /\ hi = 0 /\ val = Unread /\ prev = Unread /\ start = reg

\* The chip: the count grows at any time.
Grow == /\ \E c \in Count : Leq(reg, c) /\ reg' = c
        /\ UNCHANGED <<reading, hi, val, prev, start>>

\* Sock_RECV or Sock_SEND, between calls.
Shrink == /\ reading = "idle"
          /\ \E c \in Count : Leq(c, reg) /\ reg' = c
          /\ UNCHANGED <<reading, hi, val, prev, start>>

CallRead == /\ reading = "idle"
            /\ reading' = "high" /\ hi' = 0 /\ val' = Unread /\ prev' = Unread /\ start' = reg
            /\ UNCHANGED reg

ReadHigh == /\ reading = "high"
            /\ hi' = reg.hi
            /\ reading' = "low"
            /\ UNCHANGED <<reg, val, prev, start>>

\* Mutant: the first read is taken for good.
ReadLowOnce == /\ reading = "low"
               /\ val' = [hi |-> hi, lo |-> reg.lo]
               /\ prev' = val
               /\ reading' = "done"
               /\ UNCHANGED <<reg, hi, start>>

ReadLow == /\ reading = "low"
           /\ val' = [hi |-> hi, lo |-> reg.lo]
           /\ prev' = val
           /\ reading' = IF val' = val THEN "done" ELSE "high"
           /\ UNCHANGED <<reg, hi, start>>

ReadReturn == /\ reading = "done" /\ reading' = "idle"
              /\ UNCHANGED <<reg, hi, val, prev, start>>

ReadNext == Grow \/ Shrink \/ CallRead \/ ReadHigh \/ ReadLow \/ ReadReturn
ReadSpec == ReadInit /\ [][ReadNext]_readVars
ReadFairSpec == ReadSpec /\ WF_readVars(ReadHigh) /\ WF_readVars(ReadLow) /\ WF_readVars(ReadReturn)
-----------------------------------------------------------------------------
ReadTypeOK == /\ reg \in Count /\ start \in Count
              /\ reading \in {"idle", "high", "low", "done"}
              /\ hi \in 0..(Base - 1)
              /\ val \in Count \cup {Unread} /\ prev \in Count \cup {Unread}

\* The value a call returns lies between the counter at the call and at the
\* return: no torn value gets out, and the caller may rely on so many bytes.
NoTornRead == reading = "done" => Leq(start, val) /\ Leq(val, reg)

\* The loop ends: the count is bounded, so it cannot change before every read.
ReadReturns == reading = "high" ~> reading = "idle"
=============================================================================

------------------------------ MODULE RingPtr ------------------------------
(***************************************************************************)
(* Ring memory addressed by free-running pointers, as the WIZnet chips and *)
(* socket.cpp use it: a pointer is a register modulo PTRMOD (2^16), its    *)
(* place in the socket's memory is its remainder modulo SSIZE (SMASK), and *)
(* a transfer that reaches the end of the memory goes on at its start.     *)
(***************************************************************************)
EXTENDS Integers, Sequences

CONSTANTS PTRMOD,   \* values of a pointer register
          SSIZE     \* memory of one socket in one direction

ASSUME RingAssumption ==
  SSIZE \in Nat \ {0} /\ PTRMOD \in Nat /\ SSIZE < PTRMOD
ASSUME WholeRings == PTRMOD % SSIZE = 0

Ptr == 0..(PTRMOD - 1)
Place == 0..(SSIZE - 1)

Plus(p, n) == IF p + n >= PTRMOD THEN p + n - PTRMOD ELSE p + n
Diff(p, q) == IF p >= q THEN p - q ELSE p - q + PTRMOD
Minimum(a, b) == IF a < b THEN a ELSE b

\* read_data and write_data.
Load(m, p, n) == [i \in 1..n |-> m[Plus(p, i - 1) % SSIZE]]
Store(m, p, s) ==
  [k \in Place |->
     IF \E i \in 1..Len(s) : Plus(p, i - 1) % SSIZE = k
     THEN s[CHOOSE i \in 1..Len(s) : Plus(p, i - 1) % SSIZE = k]
     ELSE m[k]]
=============================================================================

----------------------------- MODULE SocketRecv -----------------------------
(***************************************************************************)
(* The receive half of one WIZnet socket: socketRecv, socketRecvAvailable  *)
(* and socketPeek (Ethernet/src/socket.cpp) against a chip that goes on    *)
(* receiving while the library reads.  The library keeps a private copy of *)
(* the chip's read pointer (RX_RD), the bytes it believes unread (RX_RSR)  *)
(* and the bytes it has read but not yet given back to the chip (RX_inc).  *)
(* Byte counts are read by getSnRX_RSR, which module StableRead shows to   *)
(* behave as one atomic read.                                              *)
(***************************************************************************)
EXTENDS RingPtr

CONSTANTS Byte,        \* the byte values
          INC_LIMIT,   \* bytes read before the chip is told (250)
          MaxLen       \* longest buffer a caller passes

ASSUME SizeAssumption == INC_LIMIT \in Nat \ {0} /\ MaxLen \in Nat \ {0}

VARIABLES status,      \* SnSR
          mem,         \* the socket's receive memory
          rxWr, rxRD,  \* the chip's write pointer, and its latched SnRX_RD
          RX_RSR, RX_RD, RX_inc,      \* state[s]
          pc, len, ret,               \* the call in progress and its locals
          out          \* what the last call stored in the caller's buffer

chipVars == <<status, mem, rxWr, rxRD>>
libVars  == <<RX_RSR, RX_RD, RX_inc>>
callVars == <<pc, len, ret, out>>
vars == <<chipVars, libVars, callVars>>

Status == {"CLOSED", "ESTABLISHED", "CLOSE_WAIT"}
\* SnRX_RSR as the chip computes it, and the bytes no call has returned yet.
rsr == Diff(rxWr, rxRD)
Unread == Load(mem, RX_RD, Diff(rxWr, RX_RD))

Init == /\ status = "CLOSED"
        /\ mem \in [Place -> Byte]
        /\ rxWr = 0 /\ rxRD = 0
        /\ RX_RSR = 0 /\ RX_RD = 0 /\ RX_inc = 0
        /\ pc = "idle" /\ len = 0 /\ ret = 0 /\ out = <<>>
-----------------------------------------------------------------------------
(* The chip and the peer. *)

Receive(b) == /\ status = "ESTABLISHED"
              /\ rsr < SSIZE
              /\ mem' = [mem EXCEPT ![rxWr % SSIZE] = b]
              /\ rxWr' = Plus(rxWr, 1)
              /\ UNCHANGED <<status, rxRD, libVars, callVars>>

PeerFin == /\ status = "ESTABLISHED"
           /\ status' = "CLOSE_WAIT"
           /\ UNCHANGED <<mem, rxWr, rxRD, libVars, callVars>>

Abort == /\ status # "CLOSED"
         /\ status' = "CLOSED"
         /\ UNCHANGED <<mem, rxWr, rxRD, libVars, callVars>>

\* socketBegin and the handshake: the chip starts at pointer zero or goes on
\* where it was (the source asks "always zero?") and the library copies it.
Open == /\ pc = "idle" /\ status = "CLOSED"
        /\ status' = "ESTABLISHED"
        /\ \E p \in {0, rxRD} : rxWr' = p /\ rxRD' = p /\ RX_RD' = p
        /\ RX_RSR' = 0 /\ RX_inc' = 0 /\ out' = <<>>
        /\ UNCHANGED <<mem, pc, len, ret>>
-----------------------------------------------------------------------------
(* socketRecv, one step per access to the chip. *)

Recv(n) == /\ pc = "idle"
           /\ len' = n /\ ret' = RX_RSR /\ out' = <<>>
           /\ pc' = IF RX_RSR < n THEN "rsr"
                    ELSE IF RX_RSR = 0 THEN "status" ELSE "copy"
           /\ UNCHANGED <<chipVars, libVars>>

\* Mutant: the bytes read but not given back are counted as unread.
ReadRsrRaw == /\ pc = "rsr"
              /\ ret' = rsr /\ RX_RSR' = rsr
              /\ pc' = IF rsr = 0 THEN "status" ELSE "copy"
              /\ UNCHANGED <<chipVars, RX_RD, RX_inc, len, out>>

ReadRsr == /\ pc = "rsr"
           /\ ret' = rsr - RX_inc
           /\ RX_RSR' = rsr - RX_inc
           /\ pc' = IF rsr - RX_inc = 0 THEN "status" ELSE "copy"
           /\ UNCHANGED <<chipVars, RX_RD, RX_inc, len, out>>

\* No data: the status register tells end of stream (0) from not yet (-1).
ReadStatus == /\ pc = "status"
              /\ ret' = IF status \in {"CLOSED", "CLOSE_WAIT"} THEN 0 ELSE -1
              /\ pc' = "idle"
              /\ UNCHANGED <<chipVars, libVars, len, out>>

\* Mutant: the read pointer stays, as after a peek.
CopyOutKeepsPointer == /\ pc = "copy"
                       /\ LET n == Minimum(ret, len)
                          IN /\ out' = Load(mem, RX_RD, n)
                             /\ RX_RSR' = RX_RSR - n
                             /\ ret' = n
                       /\ pc' = "commit"
                       /\ UNCHANGED <<chipVars, RX_RD, RX_inc, len>>

CopyOut == /\ pc = "copy"
           /\ LET n == Minimum(ret, len)
              IN /\ out' = Load(mem, RX_RD, n)
                 /\ RX_RD' = Plus(RX_RD, n)
                 /\ RX_RSR' = RX_RSR - n
                 /\ ret' = n
           /\ pc' = "commit"
           /\ UNCHANGED <<chipVars, RX_inc, len>>

\* Mutant: the chip is told at INC_LIMIT only, not when all was read.
CommitAtLimit == /\ pc = "commit"
                 /\ LET inc == RX_inc + ret
                    IN IF inc >= INC_LIMIT
                       THEN RX_inc' = 0 /\ rxRD' = RX_RD
                       ELSE RX_inc' = inc /\ UNCHANGED rxRD
                 /\ pc' = "idle"
                 /\ UNCHANGED <<status, mem, rxWr, RX_RSR, RX_RD, len, ret, out>>

\* Mutant: the count is cleared without the RECV command.
CommitWithoutRecv == /\ pc = "commit"
                     /\ RX_inc' = 0 /\ pc' = "idle"
                     /\ UNCHANGED <<chipVars, RX_RSR, RX_RD, len, ret, out>>

Commit == /\ pc = "commit"
          /\ LET inc == RX_inc + ret
             IN IF inc >= INC_LIMIT \/ RX_RSR = 0
                THEN RX_inc' = 0 /\ rxRD' = RX_RD
                ELSE RX_inc' = inc /\ UNCHANGED rxRD
          /\ pc' = "idle"
          /\ UNCHANGED <<status, mem, rxWr, RX_RSR, RX_RD, len, ret, out>>

\* socketRecvAvailable asks the chip only when nothing is known to be unread.
Avail == IF RX_RSR = 0 THEN rsr - RX_inc ELSE RX_RSR

Available == /\ pc = "idle"
             /\ RX_RSR' = Avail /\ ret' = Avail /\ out' = <<>> /\ len' = 0
             /\ UNCHANGED <<chipVars, RX_RD, RX_inc, pc>>

\* EthernetClient::peek: socketPeek when available() is not zero, else -1.
\* Nothing the chip does between the two can move the byte at RX_RD.
Peek == /\ pc = "idle"
        /\ RX_RSR' = Avail /\ len' = 0
        /\ IF Avail = 0 THEN ret' = -1 /\ out' = <<>>
                        ELSE ret' = 1 /\ out' = Load(mem, RX_RD, 1)
        /\ UNCHANGED <<chipVars, RX_RD, RX_inc, pc>>
-----------------------------------------------------------------------------
Call == \E n \in 0..MaxLen : Recv(n)
Chip == (\E b \in Byte : Receive(b)) \/ PeerFin \/ Abort
Next == \/ Call \/ ReadRsr \/ ReadStatus \/ CopyOut \/ Commit
        \/ Available \/ Peek \/ Open \/ Chip

Spec == Init /\ [][Next]_vars

\* The processor runs on, and a sketch that polls asks for bytes again and again.
Step == ReadRsr \/ ReadStatus \/ CopyOut \/ Commit
FairSpec == /\ Spec /\ WF_vars(Step)
            /\ SF_vars(\E n \in 1..MaxLen : Recv(n))
-----------------------------------------------------------------------------
(* Properties. *)

TypeOK == /\ status \in Status
          /\ mem \in [Place -> Byte]
          /\ rxWr \in Ptr /\ rxRD \in Ptr /\ RX_RD \in Ptr
          /\ RX_RSR \in Nat /\ RX_inc \in Nat
          /\ pc \in {"idle", "rsr", "status", "copy", "commit"}
          /\ len \in 0..MaxLen /\ ret \in Int
          /\ out \in Seq(Byte)

\* The library's private counters describe the chip whatever the chip did
\* since they were taken: RX_RD is the latched pointer plus what was read
\* and not given back, and what the library believes unread really is, so
\* rsr - RX_inc (lines 311 and 357) never wraps below zero.
Accounting ==
  LET taken == IF pc = "commit" THEN RX_inc + ret ELSE RX_inc
  IN /\ rsr <= SSIZE
     /\ taken + RX_RSR <= rsr
     /\ RX_RD = Plus(rxRD, taken)

\* Receive window: when the reader has taken every byte the library knows of,
\* the chip has got all of them back; and never are INC_LIMIT bytes withheld
\* from the peer's window.  A reader that stops reading at zero can therefore
\* not leave the peer waiting for room (lines 334-343).
NoStrandedWindow == /\ pc = "idle" /\ RX_RSR = 0 => RX_inc = 0
                    /\ RX_inc < INC_LIMIT

\* A read of at least one byte that is told it is at the end of the stream has
\* had every byte the peer sent (lines 310-323).
EofMeansDrained ==
  [][ReadStatus /\ len > 0 /\ ret' = 0 /\ status = "CLOSE_WAIT" => Unread = <<>>]_vars

\* The calls and the chip together are a queue of bytes: nothing is lost,
\* repeated, reordered or overwritten before the caller has it.
Stream == INSTANCE ByteStream WITH
            Capacity <- SSIZE, offer <- Load(mem, Plus(rxWr, PTRMOD - 1), 1),
            queue <- Unread, out <- out
StreamSpec == Stream!Spec

\* A full receive buffer gets room again as long as somebody reads.
FullBufferDrains == rsr = SSIZE ~> rsr < SSIZE
=============================================================================

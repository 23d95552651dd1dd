----------------------------- MODULE SocketSend -----------------------------
(***************************************************************************)
(* The transmit half of one WIZnet socket: EthernetClient::write and       *)
(* socketSend (Ethernet/src/socket.cpp) against a chip that transmits, has *)
(* its bytes acknowledged and loses the connection at any time.            *)
(***************************************************************************)
EXTENDS RingPtr

CONSTANTS Byte,     \* the byte values
          MaxLen    \* longest buffer a sketch writes

VARIABLES status,         \* SnSR
          mem,            \* the socket's transmit memory
          txRD,           \* first byte not acknowledged by the peer
          txSent,         \* write pointer latched by the last Sock_SEND
          TX_WR,          \* write pointer register, as the library wrote it
          cmd,            \* a Sock_SEND the chip has not completed
          sendOk,         \* SEND_OK in SnIR
          segment,        \* the last bytes the peer got
          pc, buf, size, freesize,   \* the write in progress
          result          \* what the last write returned

chipVars == <<status, mem, txRD, txSent, TX_WR, cmd, sendOk, segment>>
callVars == <<pc, buf, size, freesize, result>>
vars == <<chipVars, callVars>>

Status == {"CLOSED", "ESTABLISHED", "CLOSE_WAIT"}
Up == status \in {"ESTABLISHED", "CLOSE_WAIT"}

unacked == Diff(txSent, txRD)
TX_FSR == SSIZE - unacked

Init == /\ status = "CLOSED"
        /\ mem \in [Place -> Byte]
        /\ txRD = 0 /\ txSent = 0 /\ TX_WR = 0
        /\ cmd = FALSE /\ sendOk = FALSE /\ segment = <<>>
        /\ pc = "idle" /\ buf = <<>> /\ size = 0 /\ freesize = 0 /\ result = 0
-----------------------------------------------------------------------------
(* The chip and the peer. *)

\* The peer acknowledges n of the latched bytes, and their room is free again.
Deliver(n) == /\ Up /\ n \in 1..unacked
              /\ segment' = Load(mem, txRD, n)
              /\ txRD' = Plus(txRD, n)
              /\ UNCHANGED <<status, mem, txSent, TX_WR, cmd, sendOk, callVars>>

SendDone == /\ Up /\ cmd
            /\ cmd' = FALSE /\ sendOk' = TRUE
            /\ UNCHANGED <<status, mem, txRD, txSent, TX_WR, segment, callVars>>

PeerFin == /\ status = "ESTABLISHED"
           /\ status' = "CLOSE_WAIT"
           /\ UNCHANGED <<mem, txRD, txSent, TX_WR, cmd, sendOk, segment, callVars>>

\* Reset by the peer, or retransmissions exhausted.
Abort == /\ Up
         /\ status' = "CLOSED" /\ cmd' = FALSE
         /\ UNCHANGED <<mem, txRD, txSent, TX_WR, sendOk, segment, callVars>>

\* Mutant: SnIR of the former connection is not cleared.
OpenKeepsIr == /\ pc = "idle" /\ status = "CLOSED"
               /\ status' = "ESTABLISHED"
               /\ \E p \in {0, txSent} : txRD' = p /\ txSent' = p /\ TX_WR' = p
               /\ segment' = <<>>
               /\ UNCHANGED <<mem, cmd, sendOk, callVars>>

\* socketBegin clears SnIR; the chip starts at its own pointers.
Open == /\ pc = "idle" /\ status = "CLOSED"
        /\ status' = "ESTABLISHED" /\ sendOk' = FALSE
        /\ \E p \in {0, txSent} : txRD' = p /\ txSent' = p /\ TX_WR' = p
        /\ segment' = <<>>
        /\ UNCHANGED <<mem, cmd, callVars>>
-----------------------------------------------------------------------------
(* EthernetClient::write and socketSend, one step per access to the chip. *)

Write(s) == /\ pc = "idle"
            /\ buf' = s /\ size' = Minimum(Len(s), SSIZE)
            /\ freesize' = 0 /\ result' = 0
            /\ pc' = "fsr"
            /\ UNCHANGED chipVars

ReadFsr == /\ pc = "fsr"
           /\ freesize' = TX_FSR
           /\ pc' = "status"
           /\ UNCHANGED <<chipVars, buf, size, result>>

\* Mutant: room for a part is taken to be enough.
ReadStatusNoWait == /\ pc = "status"
                    /\ size' = IF Up THEN size ELSE 0
                    /\ pc' = "copy"
                    /\ UNCHANGED <<chipVars, buf, freesize, result>>

\* A dead connection ends the wait with nothing to send; the code goes on to
\* the copy and the command all the same.
ReadStatus == /\ pc = "status"
              /\ IF ~Up THEN size' = 0 /\ pc' = "copy"
                 ELSE /\ pc' = IF freesize < size THEN "fsr" ELSE "copy"
                      /\ UNCHANGED size
              /\ UNCHANGED <<chipVars, buf, freesize, result>>

\* Mutant: the part behind the end of the memory is not copied to its start.
CopyInToEnd == /\ pc = "copy"
               /\ mem' = Store(mem, txSent,
                               SubSeq(buf, 1, Minimum(size, SSIZE - (txSent % SSIZE))))
               /\ TX_WR' = Plus(txSent, size)
               /\ pc' = "send"
               /\ UNCHANGED <<status, txRD, txSent, cmd, sendOk, segment,
                              buf, size, freesize, result>>

\* write_data: the register still reads as the last Sock_SEND latched it.
CopyIn == /\ pc = "copy"
          /\ mem' = Store(mem, txSent, SubSeq(buf, 1, size))
          /\ TX_WR' = Plus(txSent, size)
          /\ pc' = "send"
          /\ UNCHANGED <<status, txRD, txSent, cmd, sendOk, segment,
                         buf, size, freesize, result>>

\* The command takes effect only on a live connection.
SendCommand == /\ pc = "send"
               /\ IF Up THEN cmd' = TRUE /\ txSent' = TX_WR
                  ELSE UNCHANGED <<cmd, txSent>>
               /\ pc' = "ir"
               /\ UNCHANGED <<status, mem, txRD, TX_WR, sendOk, segment,
                              buf, size, freesize, result>>

ReadIr == /\ pc = "ir"
          /\ pc' = IF sendOk THEN "clear" ELSE "closed"
          /\ UNCHANGED <<chipVars, buf, size, freesize, result>>

\* Mutant: a closed connection does not end the wait.
ReadClosedForever == /\ pc = "closed" /\ pc' = "ir"
                     /\ UNCHANGED <<chipVars, buf, size, freesize, result>>

\* Not sent yet: give up only when the connection is gone.
ReadClosed == /\ pc = "closed"
              /\ IF status = "CLOSED" THEN pc' = "idle" /\ result' = 0
                 ELSE pc' = "ir" /\ UNCHANGED result
              /\ UNCHANGED <<chipVars, buf, size, freesize>>

\* EthernetClient::write returns the size it was given unless socketSend
\* returned zero.
ClearIr == /\ pc = "clear"
           /\ sendOk' = FALSE
           /\ result' = IF size = 0 THEN 0 ELSE Len(buf)
           /\ pc' = "idle"
           /\ UNCHANGED <<status, mem, txRD, txSent, TX_WR, cmd, segment,
                          buf, size, freesize>>
-----------------------------------------------------------------------------
Buffers == UNION {[1..n -> Byte] : n \in 0..MaxLen}
Next == \/ \E s \in Buffers : Write(s)
        \/ ReadFsr \/ ReadStatus \/ CopyIn \/ SendCommand
        \/ ReadIr \/ ReadClosed \/ ClearIr
        \/ (\E n \in 1..SSIZE : Deliver(n))
        \/ SendDone \/ PeerFin \/ Abort \/ Open

Spec == Init /\ [][Next]_vars

Step == \/ ReadFsr \/ ReadStatus \/ CopyIn \/ SendCommand
        \/ ReadIr \/ ReadClosed \/ ClearIr
\* The processor runs on, the chip completes commands, and TCP gets
\* acknowledgements or gives the connection up.
FairSpec == /\ Spec /\ WF_vars(Step) /\ WF_vars(SendDone)
            /\ WF_vars((\E n \in 1..SSIZE : Deliver(n)) \/ Abort)
-----------------------------------------------------------------------------
(* Properties. *)

TypeOK == /\ status \in Status /\ mem \in [Place -> Byte]
          /\ txRD \in Ptr /\ txSent \in Ptr /\ TX_WR \in Ptr
          /\ cmd \in BOOLEAN /\ sendOk \in BOOLEAN /\ segment \in Seq(Byte)
          /\ pc \in {"idle", "fsr", "status", "copy", "send", "ir", "closed", "clear"}
          /\ buf \in Seq(Byte) /\ size \in 0..SSIZE
          /\ freesize \in 0..SSIZE /\ result \in 0..MaxLen

\* The library never copies over a byte the peer has not acknowledged: what it
\* writes fits behind the bytes in flight when it writes it (lines 435-449).
NoOverwrite == /\ unacked <= SSIZE
               /\ pc \in {"copy", "send"} => unacked + size <= SSIZE

\* The SEND_OK a write waits for is the answer to its own command, never a
\* leftover of an earlier write or of an earlier connection (453-464).
SendOkIsFresh ==
  /\ pc \in {"fsr", "status", "copy", "send"} /\ Up => ~sendOk /\ ~cmd
  /\ ~(sendOk /\ cmd)

\* The peer gets the bytes that were written, in order and once.
Stream == INSTANCE ByteStream WITH
            Capacity <- SSIZE, offer <- SubSeq(buf, 1, size),
            out <- IF Up THEN segment ELSE <<>>,
            queue <- IF Up THEN Load(mem, txRD, unacked) ELSE <<>>
StreamSpec == Stream!Spec

\* A write comes back, with or without the connection.
WriteReturns == pc # "idle" ~> pc = "idle"
=============================================================================

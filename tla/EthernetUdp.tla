----------------------------- MODULE EthernetUdp -----------------------------
(***************************************************************************)
(* EthernetUDP (Ethernet/src/EthernetUdp.cpp) and the datagram half of     *)
(* socket.cpp.  The chip keeps received datagrams back to back in one      *)
(* memory, each behind a header, and the library finds the next header by  *)
(* counting what it has read of the last one.  Reading is that of the byte *)
(* queue ByteStream, which SocketRecv implements.                          *)
(*                                                                         *)
(* Datagrams are numbered; byte k of datagram n is <<n, k>>, its eight     *)
(* bytes of header are the one cell <<n, 0>>.  What is written is known by *)
(* its place in the datagram the sketch means to send.                     *)
(***************************************************************************)
EXTENDS Integers, Sequences, SequencesExt

CONSTANTS Lengths,       \* of the datagrams peers send
          RxSize, TxSize,   \* of the chip's memories
          ReadSizes, WriteSizes,   \* of the sketch's buffers
          MaxDatagrams   \* bound: datagrams that arrive

ASSUME UdpAssumption == /\ Lengths \cup ReadSizes \cup WriteSizes \subseteq Nat
                        /\ RxSize \in Nat /\ TxSize \in Nat \ {0}

VARIABLES udp,         \* sockindex is that of an open socket
          rx,          \* the chip's receive memory
          sizes,       \* lengths of the datagrams that arrived
          remaining,   \* _remaining
          remote,      \* _remoteIP, _remotePort: whose header was read last (0: none)
          taken,       \* history: bytes the sketch got since
          tx, pointer, \* the chip's transmit memory from SnTX_WR on, and SnTX_WR as it will be at the SEND
          offset,      \* _offset
          written,     \* history: how much write() has taken since beginPacket (-1: none begun)
          sent         \* history: what the last SEND sent of what was written
receiveVars == <<rx, sizes, remaining, remote, taken>>
transmitVars == <<tx, pointer, offset, written, sent>>
udpVars == <<udp, receiveVars, transmitVars>>

Least(a, b) == IF a < b THEN a ELSE b
Drop(s, n) == SubSeq(s, n + 1, Len(s))

UdpInit == /\ udp = FALSE /\ rx = <<>> /\ sizes = <<>> /\ remaining = 0 /\ remote = 0 /\ taken = <<>>
           /\ tx = [p \in 0 .. TxSize - 1 |-> 0] /\ pointer = 0 /\ offset = 0 /\ written = -1 /\ sent = <<>>

\* The chip keeps a datagram if there is room for all of it.
Arrive == /\ udp /\ Len(sizes) < MaxDatagrams
          /\ \E l \in Lengths : /\ sizes' = Append(sizes, l)
                                /\ rx' = IF Len(rx) + 1 + l > RxSize THEN rx
                                         ELSE rx \o [k \in 1 .. l + 1 |-> <<Len(sizes) + 1, k - 1>>]
          /\ UNCHANGED <<udp, remaining, remote, taken, transmitVars>>

\* begin(): without a free socket _remaining is left as it is, and the old socket is closed.
UdpBegin == /\ udp' \in BOOLEAN /\ rx' = <<>> /\ pointer' = 0
            /\ remaining' = IF udp' THEN 0 ELSE remaining
            /\ remote' = 0 /\ taken' = <<>> /\ written' = -1 /\ sent' = <<>>
            /\ UNCHANGED <<sizes, tx, offset>>
UdpStop == /\ udp /\ udp' = FALSE /\ rx' = <<>> /\ remote' = 0 /\ taken' = <<>>
           /\ UNCHANGED <<sizes, remaining, transmitVars>>

\* The header at the front of the memory; what lies there if it is not one.
Front8(r) == IF r[1][2] = 0 THEN {[from |-> r[1][1], length |-> sizes[r[1][1]]]}
                            ELSE [from : {0}, length : 0 .. RxSize]

\* Mutant: what the sketch has not read of the last datagram is not discarded.
ParsePacketAnew ==
    /\ udp /\ taken' = <<>>
    /\ IF rx = <<>> THEN remaining' = 0 /\ UNCHANGED <<rx, remote>>
       ELSE \E h \in Front8(rx) : rx' = Tail(rx) /\ remote' = h.from /\ remaining' = h.length
    /\ UNCHANGED <<udp, sizes, transmitVars>>

\* parsePacket(): first the rest of the last datagram is discarded.
ParsePacket ==
    /\ udp /\ taken' = <<>>
    /\ LET next == Drop(rx, remaining)
       IN IF next = <<>> THEN rx' = next /\ remaining' = 0 /\ UNCHANGED remote
          ELSE \E h \in Front8(next) : rx' = Tail(next) /\ remote' = h.from /\ remaining' = h.length
    /\ UNCHANGED <<udp, sizes, transmitVars>>

\* read() of a byte or into a buffer of n bytes
UdpRead(n) == /\ udp /\ remaining > 0
              /\ LET got == Least(Least(n, remaining), Len(rx))
                 IN /\ got > 0
                    /\ rx' = Drop(rx, got) /\ remaining' = remaining - got
                    /\ taken' = taken \o SubSeq(rx, 1, got)
              /\ UNCHANGED <<udp, sizes, remote, transmitVars>>

-----------------------------------------------------------------------------
\* beginPacket() of an address; of a host whose name is not found nothing is changed.
BeginPacket == /\ udp /\ offset' = 0 /\ written' = 0 /\ sent' = <<>>
               /\ UNCHANGED <<udp, receiveVars, tx, pointer>>

\* write() and socketBufferData(): SnTX_WR reads as it was at the last SEND.
UdpWrite(n) ==
    /\ udp /\ written \in 0 .. TxSize
    /\ LET got == Least(n, TxSize)
       IN /\ tx' = [p \in DOMAIN tx |->
                     LET at == {k \in 1 .. got : (offset + k - 1) % TxSize = p}
                     IN IF at = {} THEN tx[p] ELSE written + CHOOSE k \in at : TRUE]
          /\ pointer' = offset + got /\ offset' = offset + got
          /\ written' = written + got
    /\ sent' = <<>> /\ UNCHANGED <<udp, receiveVars>>

\* endPacket(): the chip sends, or finds nobody at the address and forgets what was written.
EndPacket == /\ udp /\ written >= 0
             /\ sent' \in {<<>>, [k \in 1 .. pointer |-> tx[(k - 1) % TxSize]]}
             /\ tx' = [p \in DOMAIN tx |-> 0] /\ pointer' = 0 /\ written' = -1
             /\ UNCHANGED <<udp, receiveVars, offset>>

UdpNext == \/ Arrive \/ UdpBegin \/ UdpStop \/ ParsePacket \/ BeginPacket \/ EndPacket
           \/ \E n \in ReadSizes : UdpRead(n)
           \/ \E n \in WriteSizes : UdpWrite(n)
-----------------------------------------------------------------------------
\* Behind what is left of a datagram the next header follows: parsePacket() never takes data
\* for a header, nor waits for bytes that do not come (lines 101-110).
HeadersFound == udp => /\ remaining <= Len(rx)
                       /\ LET next == Drop(rx, remaining) IN next # <<>> => next[1][2] = 0
\* What the sketch reads are the bytes of the datagram whose sender it sees, from the first.
ReadsOneDatagram == /\ \A k \in DOMAIN taken : taken[k] = <<remote, k>>
                    /\ remaining > 0 /\ remote # 0 => remaining + Len(taken) = sizes[remote]
\* A datagram goes out as it was written, in however many pieces.
SendsWhatWasWritten == sent # <<>> /\ Len(sent) <= TxSize => sent = [k \in DOMAIN sent |-> k]

\* Datagrams are neither mixed nor cut, whatever a sketch leaves unread and in whatever
\* pieces it writes (EthernetUdp.cpp, lines 73-166, socket.cpp, lines 398-418, 483-497).
DatagramsWhole == HeadersFound /\ ReadsOneDatagram /\ SendsWhatWasWritten

(* Not true of this code (README, known disagreements). *)

\* "check size not to exceed MAX size" (socket.cpp, line 490): a datagram longer than the
\* memory is not begun anew at its start while write() counts all of its bytes.
LongWritesRefused == written <= TxSize
=============================================================================

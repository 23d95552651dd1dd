-------------------------- MODULE SocketSendProofs --------------------------
(***************************************************************************)
(* SocketSend never overwrites bytes in flight and never mistakes an old   *)
(* SEND_OK for its own, for every buffer size and pointer width.           *)
(***************************************************************************)
EXTENDS SocketSend, RingPtrLemmas

Pcs == {"idle", "fsr", "status", "copy", "send", "ir", "closed", "clear"}

NumType == /\ status \in Status /\ pc \in Pcs
           /\ txRD \in Ptr /\ txSent \in Ptr /\ TX_WR \in Ptr
           /\ cmd \in BOOLEAN /\ sendOk \in BOOLEAN
           /\ size \in 0..SSIZE /\ freesize \in 0..SSIZE

\* The free space only grows while a write looks at it, and the pointer it
\* writes covers what was found to fit.
SpaceInv == /\ pc = "status" => freesize <= SSIZE - unacked
            /\ pc = "send" => TX_WR = Plus(txSent, size)

\* A command is outstanding, or its SEND_OK unread, only while the write that
\* gave it waits, or after the connection has gone.
FlagInv == /\ status = "CLOSED" => ~cmd
           /\ pc \in {"idle", "fsr", "status", "copy", "send"} /\ Up => ~sendOk /\ ~cmd
           /\ pc = "clear" => sendOk

IInv == NumType /\ NoOverwrite /\ SendOkIsFresh /\ SpaceInv /\ FlagInv

LEMMA InitInv == Init => IInv
<1> SUFFICES ASSUME Init PROVE IInv
  OBVIOUS
<1>1. unacked = 0
  BY DEF Init, unacked, Diff
<1>2. NumType
  <2>1. 0 \in Ptr /\ 0 \in 0..SSIZE
    BY RingAssumption DEF Ptr
  <2> QED
    BY <2>1 DEF Init, NumType, Status, Pcs
<1> QED
  BY <1>1, <1>2, RingAssumption
  DEF Init, IInv, NoOverwrite, SendOkIsFresh, SpaceInv, FlagInv

\* A write's own steps.
LEMMA WriteInv == IInv /\ (Step \/ \E s \in Buffers : Write(s)) => IInv'
<1> SUFFICES ASSUME IInv, Step \/ \E s \in Buffers : Write(s) PROVE IInv'
  OBVIOUS
<1>0. unacked \in Nat /\ Plus(txSent, size) \in Ptr
  BY RingAssumption, PlusDiff DEF IInv, NumType, unacked
<1> USE RingAssumption, <1>0 DEF IInv, NumType, NoOverwrite, SendOkIsFresh,
      SpaceInv, FlagInv, Status, Up, Pcs
<1>1. ASSUME NEW s \in Buffers, Write(s) PROVE IInv'
  <2>1. Len(s) \in Nat
    BY <1>1 DEF Buffers
  <2>2. Minimum(Len(s), SSIZE) \in 0..SSIZE
    BY <2>1 DEF Minimum
  <2> QED
    BY <1>1, <2>2 DEF Write, chipVars, unacked
<1>2. CASE ReadFsr
  BY <1>2 DEF ReadFsr, TX_FSR, chipVars, unacked
<1>3. CASE ReadStatus
  BY <1>3 DEF ReadStatus, chipVars, unacked
<1>4. CASE CopyIn
  BY <1>4 DEF CopyIn, unacked
<1>5. CASE SendCommand
  <2>1. CASE Up
    <3>1. Diff(Plus(txSent, size), txRD) = unacked + size
      BY <1>5, DiffMore DEF SendCommand, unacked
    <3>2. txSent' = Plus(txSent, size) /\ cmd' = TRUE /\ ~sendOk
      BY <1>5, <2>1 DEF SendCommand
    <3>3. UNCHANGED <<status, txRD, TX_WR, sendOk, size, freesize>> /\ pc' = "ir"
      BY <1>5 DEF SendCommand
    <3>4. unacked' = unacked + size
      BY <3>1, <3>2, <3>3 DEF unacked
    <3> QED
      BY <1>5, <2>1, <3>2, <3>3, <3>4 DEF SendCommand
  <2>2. CASE ~Up
    BY <1>5, <2>2 DEF SendCommand, unacked
  <2> QED
    BY <2>1, <2>2
<1>6. CASE ReadIr
  BY <1>6 DEF ReadIr, chipVars, unacked
<1>7. CASE ReadClosed
  BY <1>7 DEF ReadClosed, chipVars, unacked
<1>8. CASE ClearIr
  BY <1>8 DEF ClearIr, unacked
<1> QED
  BY <1>1, <1>2, <1>3, <1>4, <1>5, <1>6, <1>7, <1>8 DEF Step

\* The chip's steps.
LEMMA ChipInv ==
  IInv /\ ((\E n \in 1..SSIZE : Deliver(n)) \/ SendDone \/ PeerFin \/ Abort \/ Open)
    => IInv'
<1> SUFFICES ASSUME IInv,
      (\E n \in 1..SSIZE : Deliver(n)) \/ SendDone \/ PeerFin \/ Abort \/ Open
    PROVE IInv'
  OBVIOUS
<1>0. unacked \in Nat
  BY PlusDiff, RingAssumption DEF IInv, NumType, unacked
<1> USE RingAssumption, <1>0 DEF IInv, NumType, NoOverwrite, SendOkIsFresh,
      SpaceInv, FlagInv, Status, Up, Pcs
<1>1. ASSUME NEW n \in 1..SSIZE, Deliver(n) PROVE IInv'
  <2>1. n \in Nat /\ n <= unacked /\ txRD' = Plus(txRD, n)
        /\ UNCHANGED <<status, txSent, TX_WR, cmd, sendOk, pc, size, freesize>>
    BY <1>1 DEF Deliver, callVars
  <2>2. Diff(txSent, Plus(txRD, n)) = unacked - n
    BY <2>1, DiffLess DEF unacked
  <2>3. unacked' = unacked - n /\ txRD' \in Ptr
    BY <2>1, <2>2, PlusDiff DEF unacked
  <2> QED
    BY <2>1, <2>3
<1>2. CASE SendDone
  BY <1>2 DEF SendDone, callVars, unacked
<1>3. CASE PeerFin
  BY <1>3 DEF PeerFin, callVars, unacked
<1>4. CASE Abort
  BY <1>4 DEF Abort, callVars, unacked
<1>5. CASE Open
  <2>1. PICK p \in {0, txSent} : txRD' = p /\ txSent' = p /\ TX_WR' = p
    BY <1>5 DEF Open
  <2>2. p \in Ptr /\ unacked' = 0
    BY <2>1 DEF Ptr, unacked, Diff
  <2>3. status' = "ESTABLISHED" /\ sendOk' = FALSE /\ pc = "idle" /\ cmd = FALSE
        /\ UNCHANGED <<cmd, pc, size, freesize>>
    BY <1>5 DEF Open, callVars
  <2>4. NumType'
    BY <2>1, <2>2, <2>3
  <2> QED
    BY <2>2, <2>3, <2>4
<1> QED
  BY <1>1, <1>2, <1>3, <1>4, <1>5

LEMMA Inductive == Spec => []IInv
<1>1. IInv /\ UNCHANGED vars => IInv'
  BY DEF IInv, NumType, NoOverwrite, SendOkIsFresh, SpaceInv, FlagInv,
         vars, chipVars, callVars, unacked, Up
<1>2. IInv /\ [Next]_vars => IInv'
  BY <1>1, WriteInv, ChipInv DEF Next, Step
<1> QED
  BY InitInv, <1>2, PTL DEF Spec

\* What a write copies fits behind the unacknowledged bytes (lines 435-449).
THEOREM NoOverwriteHolds == Spec => []NoOverwrite
<1>1. IInv => NoOverwrite
  BY DEF IInv
<1> QED
  BY Inductive, <1>1, PTL

\* The SEND_OK a write sees is the answer to its own command (lines 450-464).
THEOREM SendOkIsFreshHolds == Spec => []SendOkIsFresh
<1>1. IInv => SendOkIsFresh
  BY DEF IInv
<1> QED
  BY Inductive, <1>1, PTL
-----------------------------------------------------------------------------
(* The transmitter is a queue of bytes: the bytes latched and not yet      *)
(* acknowledged.                                                           *)

\* What is about to be sent is in the memory, behind the bytes in flight.
DataInv == /\ mem \in [Place -> Byte] /\ buf \in Seq(Byte) /\ size <= Len(buf)
           /\ pc = "send" => Load(mem, txSent, size) = SubSeq(buf, 1, size)

InFlight == IF Up THEN Load(mem, txRD, unacked) ELSE <<>>
Got == IF Up THEN segment ELSE <<>>

LEMMA Prefix ==
  ASSUME NEW B, NEW s \in Seq(B), NEW n \in Nat, n <= Len(s)
  PROVE  SubSeq(s, 1, n) \in Seq(B) /\ Len(SubSeq(s, 1, n)) = n
  OBVIOUS

LEMMA DataInit == Init => DataInv
<1> SUFFICES ASSUME Init PROVE DataInv
  OBVIOUS
<1>1. buf \in Seq(Byte) /\ Len(buf) = 0 /\ size = 0
  BY DEF Init
<1> QED
  BY <1>1 DEF Init, DataInv

\* The copy puts the bytes behind those in flight, which stay as they are.
LEMMA CopyInStores ==
  ASSUME IInv, DataInv, CopyIn
  PROVE  DataInv' /\ UNCHANGED <<InFlight, Got>>
<1> PICK s \in Seq(Byte) : s = SubSeq(buf, 1, size) /\ Len(s) = size
  <2>1. buf \in Seq(Byte) /\ size \in Nat /\ size <= Len(buf)
    BY DEF DataInv, IInv, NumType
  <2> QED
    BY <2>1, Prefix, Zenon
<1> PICK d \in Nat : d = unacked /\ d + size <= SSIZE /\ d <= SSIZE /\ size <= SSIZE
  BY PlusDiff, RingAssumption, SMTT(60) DEF CopyIn, IInv, NumType, NoOverwrite, unacked
<1>0. mem \in [Place -> Byte] /\ txRD \in Ptr /\ txSent \in Ptr
  BY DEF DataInv, IInv, NumType
<1>1. Plus(txRD, d) = txSent
  BY <1>0, PlusDiff, RingAssumption DEF unacked
<1>2. mem' = Store(mem, txSent, s) /\ UNCHANGED <<status, txRD, txSent, segment, buf, size>>
  BY DEF CopyIn
<1>3. Stored(Byte, Store(mem, txSent, s), mem, txSent, s)
  BY <1>0, StoreIs, Zenon
<1>4. Load(Store(mem, txSent, s), txSent, Len(s)) = s
  BY <1>0, LoadStored, Zenon
<1>5. Load(Store(mem, Plus(txRD, d), s), txRD, d) = Load(mem, txRD, d)
  BY <1>0, LoadKept, ZenonT(60)
<1>6. DataInv'
  BY <1>2, <1>3, <1>4 DEF DataInv, Stored
<1>7. unacked' = d /\ Up' = Up
  BY <1>2 DEF unacked, Up
<1> QED
  BY <1>1, <1>2, <1>5, <1>6, <1>7 DEF InFlight, Got

\* The command appends them to the queue.
LEMMA SendCommandPushes ==
  ASSUME IInv, DataInv, SendCommand, Up
  PROVE  /\ Got' = Got
         /\ InFlight' = InFlight \o SubSeq(buf', 1, size')
         /\ Len(InFlight) + size <= SSIZE
         /\ size = 0 => InFlight' = InFlight
<1> PICK d \in Nat : d = unacked /\ d + size <= SSIZE /\ d <= SSIZE /\ size <= SSIZE
  BY PlusDiff, RingAssumption DEF SendCommand, IInv, NumType, NoOverwrite, unacked
<1> PICK n \in Nat : n = size /\ d + n <= SSIZE
  BY DEF IInv, NumType
<1>0. mem \in [Place -> Byte] /\ txRD \in Ptr /\ txSent \in Ptr
  BY DEF DataInv, IInv, NumType
<1>1. Plus(txRD, d) = txSent
  BY <1>0, PlusDiff, RingAssumption DEF unacked
<1>2. /\ txSent' = Plus(txSent, n) /\ UNCHANGED <<status, mem, txRD, segment, buf, size>>
      /\ Load(mem, txSent, n) = SubSeq(buf, 1, n)
  BY DEF SendCommand, IInv, SpaceInv, DataInv
<1>3. unacked' = d + n
  BY <1>0, <1>2, DiffMore DEF unacked
<1>4. Load(mem, txRD, d + n) = Load(mem, txRD, d) \o Load(mem, Plus(txRD, d), n)
  <2>1. Joined(mem, txRD, d, n)
    BY <1>0, LoadJoins, Zenon
  <2> QED
    BY <2>1 DEF Joined
<1>5. Up' = Up
  BY <1>2 DEF Up
<1>6. InFlight = Load(mem, txRD, d) /\ InFlight' = Load(mem, txRD, d + n)
  BY <1>2, <1>3, <1>5 DEF InFlight
<1>7. Len(InFlight) = d
  <2>1. Reads(InFlight, Byte, mem, txRD, d)
    BY <1>0, <1>6, LoadIs, Zenon
  <2> QED
    BY <2>1 DEF Reads
<1> QED
  <2>1. Got' = Got
    BY <1>2, <1>5 DEF Got
  <2>2. InFlight' = InFlight \o SubSeq(buf', 1, size')
    BY <1>1, <1>2, <1>4, <1>6
  <2>3. size = 0 => InFlight' = InFlight
    <3>1. n = 0 => d + n = d
      OBVIOUS
    <3> QED
      BY <1>6, <3>1
  <2> QED
    BY <1>7, <2>1, <2>2, <2>3

\* An acknowledgement takes a prefix of it.
LEMMA DeliverPops ==
  ASSUME IInv, DataInv, NEW n \in 1..SSIZE, Deliver(n)
  PROVE  /\ n \in 1..Len(InFlight) /\ n <= Len(InFlight)
         /\ Got' = SubSeq(InFlight, 1, n)
         /\ InFlight' = SubSeq(InFlight, n + 1, Len(InFlight))
<1> PICK d \in Nat : d = unacked /\ d <= SSIZE
  BY PlusDiff, RingAssumption DEF IInv, NumType, NoOverwrite, unacked
<1>0. mem \in [Place -> Byte] /\ txRD \in Ptr /\ txSent \in Ptr /\ n \in 0..d /\ n \in Nat /\ n <= d
  BY DEF Deliver, DataInv, IInv, NumType
<1>1. Up /\ segment' = Load(mem, txRD, n) /\ txRD' = Plus(txRD, n) /\ UNCHANGED <<status, mem, txSent>>
  BY DEF Deliver
<1>2. unacked' = d - n
  BY <1>0, <1>1, DiffLess DEF unacked
<1>3. Up'
  BY <1>1 DEF Up
<1>4. InFlight = Load(mem, txRD, d) /\ InFlight' = Load(mem, Plus(txRD, n), d - n)
      /\ Got' = Load(mem, txRD, n)
  BY <1>1, <1>2, <1>3 DEF InFlight, Got
<1>5. Len(InFlight) = d
  <2>1. Reads(InFlight, Byte, mem, txRD, d)
    BY <1>0, <1>4, LoadIs, Zenon
  <2> QED
    BY <2>1 DEF Reads
<1>6. /\ SubSeq(Load(mem, txRD, d), 1, n) = Load(mem, txRD, n)
      /\ SubSeq(Load(mem, txRD, d), n + 1, d) = Load(mem, Plus(txRD, n), d - n)
  BY <1>0, LoadParts, Zenon
<1> QED
  BY <1>0, <1>4, <1>5, <1>6

LEMMA DataStep == IInv /\ DataInv /\ [Next]_vars => DataInv'
<1> SUFFICES ASSUME IInv, DataInv, [Next]_vars PROVE DataInv'
  OBVIOUS
<1>1. ASSUME NEW s \in Buffers, Write(s) PROVE DataInv'
  <2>1. s \in Seq(Byte) /\ Minimum(Len(s), SSIZE) <= Len(s)
    BY <1>1, RingAssumption DEF Buffers, Minimum
  <2> QED
    BY <1>1, <2>1 DEF Write, DataInv, chipVars
<1>2. CASE ReadFsr \/ ReadIr \/ ReadClosed \/ ClearIr \/ SendDone \/ PeerFin \/ Abort
           \/ (\E n \in 1..SSIZE : Deliver(n)) \/ UNCHANGED vars
  BY <1>2 DEF ReadFsr, ReadIr, ReadClosed, ClearIr, SendDone, PeerFin, Abort, Deliver, vars,
              chipVars, callVars, DataInv
<1>3. CASE ReadStatus
  <2>1. 0 <= Len(buf)
    BY DEF DataInv
  <2> QED
    BY <1>3, <2>1 DEF ReadStatus, chipVars, DataInv
<1>4. CASE CopyIn
  BY <1>4, CopyInStores
<1>5. CASE SendCommand
  BY <1>5 DEF SendCommand, DataInv
<1>6. CASE Open
  BY <1>6 DEF Open, callVars, DataInv
<1> QED
  BY <1>1, <1>2, <1>3, <1>4, <1>5, <1>6 DEF Next

LEMMA StreamInit == Init => Stream!Init
<1> SUFFICES ASSUME Init PROVE Stream!Init
  OBVIOUS
<1>1. ~Up
  BY DEF Init, Up
<1> QED
  BY <1>1 DEF Stream!Init

LEMMA StreamStep == IInv /\ DataInv /\ [Next]_vars => [Stream!Next]_<<InFlight, Got>>
<1> SUFFICES ASSUME IInv, DataInv, [Next]_vars PROVE [Stream!Next]_<<InFlight, Got>>
  OBVIOUS
<1>1. ASSUME UNCHANGED <<mem, txRD, txSent, segment, status>> PROVE UNCHANGED <<InFlight, Got>>
  BY <1>1 DEF InFlight, Got, Up, unacked
<1>2. CASE \/ \E s \in Buffers : Write(s)
           \/ ReadFsr \/ ReadStatus \/ ReadIr \/ ReadClosed \/ ClearIr \/ SendDone \/ UNCHANGED vars
  BY <1>1, <1>2 DEF Write, ReadFsr, ReadStatus, ReadIr, ReadClosed, ClearIr, SendDone, vars, chipVars
<1>3. CASE CopyIn
  BY <1>3, CopyInStores
<1>4. CASE SendCommand
  <2>1. CASE ~Up
    <3>1. UNCHANGED status
      BY <1>4 DEF SendCommand
    <3> QED
      BY <2>1, <3>1 DEF InFlight, Got, Up
  <2>2. CASE Up /\ size = 0
    BY <1>4, <2>2, SendCommandPushes
  <2>3. CASE Up /\ size # 0
    <3>1. UNCHANGED <<buf, size>> /\ size \in Nat /\ size # 0 /\ size <= Len(buf) /\ buf \in Seq(Byte)
      BY <1>4, <2>3 DEF SendCommand, IInv, NumType, DataInv
    <3> PICK s \in Seq(Byte) : s = SubSeq(buf', 1, size') /\ Len(s) = size
      BY <3>1, Prefix
    <3>2. SubSeq(s, 1, size) = s
      BY <3>1, SubSeqFull
    <3>3. Got' = Got /\ InFlight' = InFlight \o SubSeq(s, 1, size) /\ Len(InFlight) + size <= SSIZE
      BY <1>4, <2>3, <3>2, SendCommandPushes
    <3>4. size \in 1..Len(s)
      BY <3>1
    <3>5. Stream!Push(size)
      BY <3>3 DEF Stream!Push, InFlight, Got
    <3> QED
      BY <3>4, <3>5 DEF Stream!Next
  <2> QED
    BY <2>1, <2>2, <2>3
<1>5. ASSUME NEW n \in 1..SSIZE, Deliver(n) PROVE Stream!Next
  BY <1>5, DeliverPops DEF Stream!Next, Stream!Pop, InFlight, Got
<1>6. CASE PeerFin
  <2>1. Up /\ Up' /\ UNCHANGED <<mem, txRD, txSent, segment>>
    BY <1>6 DEF PeerFin, Up
  <2> QED
    BY <2>1 DEF InFlight, Got, unacked
<1>7. CASE Abort
  <2>1. ~Up'
    BY <1>7 DEF Abort, Up
  <2> QED
    BY <2>1 DEF Stream!Next, Stream!Reset
<1>8. CASE Open
  <2>1. txRD' = txSent' /\ segment' = <<>> /\ txRD' \in Ptr
    BY <1>8, RingAssumption DEF Open, IInv, NumType, Ptr
  <2>2. unacked' = 0
    <3> PICK p \in Ptr : txSent' = p /\ txRD' = p
      BY <2>1
    <3> QED
      BY DEF unacked, Diff, Ptr
  <2>3. InFlight' = <<>> /\ Got' = <<>>
    BY <2>1, <2>2 DEF InFlight, Got, Load
  <2> QED
    BY <2>3 DEF Stream!Next, Stream!Reset, InFlight, Got
<1> QED
  BY <1>2, <1>3, <1>4, <1>5, <1>6, <1>7, <1>8 DEF Next

\* The transmitter implements a queue of bytes, for every memory and pointer width: a command
\* appends what was written, acknowledgements take the oldest bytes, in order and once, and a
\* connection starts empty (socket.cpp, lines 426-465).
THEOREM StreamHolds == Spec => StreamSpec
<1>1. Spec => []DataInv
  BY Inductive, DataInit, DataStep, PTL DEF Spec
<1>2. IInv /\ DataInv /\ [Next]_vars
        => [Stream!Next]_<<IF Up THEN Load(mem, txRD, unacked) ELSE <<>>,
                           IF Up THEN segment ELSE <<>> >>
  BY StreamStep DEF InFlight, Got
<1> QED
  BY Inductive, <1>1, StreamInit, <1>2, PTL DEF Spec, StreamSpec, Stream!Spec
=============================================================================

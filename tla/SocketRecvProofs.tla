-------------------------- MODULE SocketRecvProofs --------------------------
(***************************************************************************)
(* Proofs about SocketRecv for every buffer size, pointer width, threshold *)
(* and caller: the bookkeeping invariant behind all three library counters *)
(* and the receive-window invariant.  The memory's contents play no part.  *)
(***************************************************************************)
EXTENDS SocketRecv, RingPtrLemmas

\* The types the arithmetic needs.
NumType == /\ rxWr \in Ptr /\ rxRD \in Ptr /\ RX_RD \in Ptr
           /\ RX_RSR \in Nat /\ RX_inc \in Nat
           /\ pc \in {"idle", "rsr", "status", "copy", "commit"}
           /\ len \in 0..MaxLen /\ ret \in Int

\* What the locals of a call mean at the step they are used.
CallInv == /\ pc = "copy" => ret = RX_RSR
           /\ pc = "commit" => ret \in Nat

\* Withheld bytes imply bytes known to be unread, except within a call's end.
WindowInv == /\ pc # "commit" /\ RX_RSR = 0 => RX_inc = 0
             /\ RX_inc < INC_LIMIT

IInv == NumType /\ CallInv /\ Accounting /\ WindowInv

\* What available() finds is unread data.
LEMMA AvailBounds ==
  ASSUME IInv, pc = "idle"
  PROVE  /\ Avail \in Nat
         /\ RX_inc + Avail <= rsr
         /\ Avail = 0 => RX_inc = 0
  BY SizeAssumption, RingAssumption, PlusDiff, SMTT(60)
  DEF IInv, NumType, CallInv, Accounting, WindowInv, rsr, Avail

LEMMA InitInv == Init => IInv
  BY SizeAssumption, RingAssumption
  DEF Init, IInv, NumType, CallInv, Accounting, WindowInv, rsr, Ptr, Plus, Diff

LEMMA StepInv == IInv /\ [Next]_vars => IInv'
<1> SUFFICES ASSUME IInv, [Next]_vars PROVE IInv'
  OBVIOUS
<1> USE SizeAssumption, RingAssumption DEF IInv, NumType, CallInv, Accounting, WindowInv, rsr
<1>1. ASSUME NEW n \in 0..MaxLen, Recv(n) PROVE IInv'
  BY <1>1 DEF Recv, chipVars, libVars
<1>2. CASE ReadRsr
  BY <1>2, PlusDiff, SMTT(60) DEF ReadRsr, chipVars
<1>3. CASE ReadStatus
  BY <1>3 DEF ReadStatus, chipVars, libVars
<1>4. CASE CopyOut
  <2> DEFINE n == Minimum(ret, len)
  <2>1. n \in Nat /\ n <= RX_RSR /\ RX_inc + n <= SSIZE
    BY <1>4, PlusDiff, SMTT(60) DEF CopyOut, Minimum
  <2>2. Plus(RX_RD, n) = Plus(rxRD, RX_inc + n)
    BY <1>4, <2>1, PlusPlus DEF CopyOut
  <2>3. Plus(RX_RD, n) \in Ptr
    BY <2>1, PlusDiff
  <2> QED
    BY <1>4, <2>1, <2>2, <2>3 DEF CopyOut, chipVars
<1>5. CASE Commit
  <2> DEFINE inc == RX_inc + ret
  <2>1. inc \in Nat /\ inc <= SSIZE /\ RX_RD = Plus(rxRD, inc) /\ pc' = "idle"
    BY <1>5, PlusDiff DEF Commit
  <2>2. CASE inc >= INC_LIMIT \/ RX_RSR = 0
    <3>1. Diff(rxWr, RX_RD) = Diff(rxWr, rxRD) - inc
      BY <1>5, <2>1, DiffLess, PlusDiff DEF Commit
    <3>2. RX_RD = Plus(RX_RD, 0)
      BY DEF Plus, Ptr
    <3>3. rxRD' = RX_RD /\ RX_inc' = 0 /\ inc + RX_RSR <= Diff(rxWr, rxRD)
      BY <1>5, <2>1, <2>2 DEF Commit
    <3>4. UNCHANGED <<rxWr, RX_RSR, RX_RD, len, ret>>
      BY <1>5 DEF Commit
    <3>5. Diff(rxWr, rxRD) \in Nat
      BY PlusDiff
    <3>6. Accounting'
      BY <2>1, <3>1, <3>2, <3>3, <3>4, <3>5
    <3>7. NumType' /\ CallInv' /\ WindowInv'
      BY <2>1, <3>3, <3>4
    <3> QED
      BY <3>6, <3>7
  <2>3. CASE ~(inc >= INC_LIMIT \/ RX_RSR = 0)
    BY <1>5, <2>1, <2>3 DEF Commit
  <2> QED
    BY <2>2, <2>3
<1>6. CASE Available
  <2>1. pc = "idle" /\ pc' = pc /\ RX_RSR' = Avail /\ ret' \in Int /\ len' = 0
        /\ UNCHANGED <<rxWr, rxRD, RX_RD, RX_inc>>
    BY <1>6, AvailBounds DEF Available, chipVars
  <2> QED
    BY <2>1, AvailBounds
<1>7. CASE Peek
  <2>1. pc = "idle" /\ pc' = pc /\ RX_RSR' = Avail /\ ret' \in Int /\ len' = 0
        /\ UNCHANGED <<rxWr, rxRD, RX_RD, RX_inc>>
    BY <1>7, AvailBounds DEF Peek, chipVars
  <2> QED
    BY <2>1, AvailBounds
<1>8. CASE Open
  BY <1>8 DEF Open, Plus, Diff, Ptr
<1>9. ASSUME NEW b \in Byte, Receive(b) PROVE IInv'
  <2>1. Plus(rxWr, 1) \in Ptr /\ Diff(rxWr, rxRD) \in Nat
    BY PlusDiff
  <2>2. Diff(Plus(rxWr, 1), rxRD) = Diff(rxWr, rxRD) + 1
    BY <1>9, <2>1, DiffMore DEF Receive
  <2>3. /\ rxWr' = Plus(rxWr, 1) /\ rsr < SSIZE
        /\ UNCHANGED <<rxRD, RX_RSR, RX_RD, RX_inc, pc, len, ret>>
    BY <1>9 DEF Receive, libVars, callVars
  <2>4. Accounting'
    BY <2>1, <2>2, <2>3
  <2> QED
    BY <2>1, <2>3, <2>4
<1>10. CASE PeerFin
  BY <1>10 DEF PeerFin, libVars, callVars
<1>11. CASE Abort
  BY <1>11 DEF Abort, libVars, callVars
<1>12. CASE UNCHANGED vars
  BY <1>12 DEF vars, chipVars, libVars, callVars
<1> QED
  BY <1>1, <1>2, <1>3, <1>4, <1>5, <1>6, <1>7, <1>8, <1>9, <1>10, <1>11, <1>12
  DEF Next, Call, Chip

LEMMA Inductive == Spec => []IInv
  BY InitInv, StepInv, PTL DEF Spec

\* The counters of state[s] always describe the chip (lines 307-343, 350-362):
\* whatever arrives meanwhile, rsr - RX_inc never wraps below zero and RX_RD is
\* where the next unread byte is.
THEOREM AccountingHolds == Spec => []Accounting
<1>1. IInv => Accounting
  BY DEF IInv
<1> QED
  BY Inductive, <1>1, PTL

\* A reader that has read all it knows of has given every byte back, and never
\* withholds INC_LIMIT bytes (lines 334-343).
THEOREM WindowNeverStranded == Spec => []NoStrandedWindow
<1>1. IInv => NoStrandedWindow
  BY DEF IInv, WindowInv, NoStrandedWindow
<1> QED
  BY Inductive, <1>1, PTL
-----------------------------------------------------------------------------
\* The rest of the type invariant: the memory and what is copied out of it.
DataType == status \in Status /\ mem \in [Place -> Byte] /\ out \in Seq(Byte)

LEMMA PlaceOf == ASSUME NEW k \in Int PROVE k % SSIZE \in Place
  BY RingAssumption DEF Place

LEMMA LoadType ==
  ASSUME mem \in [Place -> Byte], NEW p \in Ptr, NEW n \in Nat
  PROVE  Load(mem, p, n) \in Seq(Byte)
<1>1. ASSUME NEW j \in 1..n PROVE mem[Plus(p, j - 1) % SSIZE] \in Byte
  <2>1. Plus(p, j - 1) \in Int
    BY RingAssumption DEF Plus, Ptr
  <2> QED
    BY <2>1, PlaceOf
<1>2. Load(mem, p, n) \in [1..n -> Byte]
  BY <1>1 DEF Load
<1> QED
  BY <1>2

LEMMA DataInit == Init => DataType
  BY DEF Init, DataType, Status

LEMMA DataStep == IInv /\ IInv' /\ DataType /\ [Next]_vars => DataType'
<1> SUFFICES ASSUME IInv, IInv', DataType, [Next]_vars PROVE DataType'
  OBVIOUS
<1> USE DEF DataType, Status
<1>1. ASSUME NEW n \in 0..MaxLen, Recv(n) PROVE DataType'
  <2>1. out' = <<>> /\ mem' = mem /\ status' = status
    BY <1>1 DEF Recv, chipVars
  <2>2. <<>> \in Seq(Byte)
    OBVIOUS
  <2> QED
    BY <2>1, <2>2
<1>2. CASE ReadRsr \/ ReadStatus \/ Commit \/ PeerFin \/ Abort
  BY <1>2 DEF ReadRsr, ReadStatus, Commit, PeerFin, Abort, chipVars, callVars
<1>3. CASE CopyOut
  <2>1. Minimum(ret, len) \in Nat /\ RX_RD \in Ptr
    BY <1>3, SizeAssumption DEF CopyOut, Minimum, IInv, NumType, CallInv
  <2>2. out' = Load(mem, RX_RD, Minimum(ret, len)) /\ UNCHANGED <<status, mem>>
    BY <1>3 DEF CopyOut, chipVars
  <2> QED
    BY <2>1, <2>2, LoadType
<1>4. CASE Available \/ Open
  <2>1. out' = <<>> /\ mem' = mem /\ status' \in {status, "ESTABLISHED"}
    BY <1>4 DEF Available, Open, chipVars
  <2>2. <<>> \in Seq(Byte)
    OBVIOUS
  <2> QED
    BY <2>1, <2>2
<1>5. CASE Peek
  <2>1. Load(mem, RX_RD, 1) \in Seq(Byte) /\ <<>> \in Seq(Byte)
    BY LoadType DEF IInv, NumType
  <2>2. out' \in {<<>>, Load(mem, RX_RD, 1)} /\ mem' = mem /\ status' = status
    BY <1>5 DEF Peek, chipVars
  <2> QED
    BY <2>1, <2>2
<1>6. ASSUME NEW b \in Byte, Receive(b) PROVE DataType'
  BY <1>6 DEF Receive, callVars
<1>7. CASE UNCHANGED vars
  BY <1>7 DEF vars, chipVars, callVars
<1> QED
  BY <1>1, <1>2, <1>3, <1>4, <1>5, <1>6, <1>7 DEF Next, Call, Chip

\* Type correctness.  That RX_RSR stays a natural number, where the code would
\* see a huge unsigned count, rests on the accounting (lines 311, 331, 357).
THEOREM TypeCorrect == Spec => []TypeOK
<1>1. IInv /\ DataType => TypeOK
  BY DEF IInv, NumType, DataType, TypeOK
<1> QED
  BY Inductive, DataInit, DataStep, <1>1, PTL DEF Spec
-----------------------------------------------------------------------------
(* The refinement: what the chip holds and no call has returned is a queue. *)

\* What is unread lies between the two pointers, all that the library believes unread in it.
LEMMA UnreadIs ==
  ASSUME IInv, DataType
  PROVE  /\ Diff(rxWr, RX_RD) \in Nat /\ Diff(rxWr, RX_RD) <= rsr /\ rsr \in 0..SSIZE
         /\ RX_RSR <= Diff(rxWr, RX_RD)
         /\ pc # "commit" => Diff(rxWr, RX_RD) = rsr - RX_inc
         /\ Unread \in Seq(Byte) /\ Len(Unread) = Diff(rxWr, RX_RD)
<1> USE DEF IInv, NumType, CallInv, Accounting
<1> PICK taken \in Nat : taken = IF pc = "commit" THEN RX_inc + ret ELSE RX_inc
  OBVIOUS
<1>1. rsr \in Nat /\ rsr <= SSIZE /\ taken + RX_RSR <= rsr /\ RX_RD = Plus(rxRD, taken)
  BY RingAssumption, PlusDiff DEF rsr
<1>2. Diff(rxWr, RX_RD) = rsr - taken
  BY <1>1, DiffLess DEF rsr
<1> PICK d \in Nat : d = Diff(rxWr, RX_RD)
  BY <1>1, <1>2
<1>3. d <= SSIZE
  BY <1>1, <1>2, RingAssumption
<1>4. Reads(Unread, Byte, mem, RX_RD, d)
  BY <1>3, LoadIs, Zenon DEF Unread, DataType
<1> QED
  BY <1>1, <1>2, <1>4 DEF Reads

\* The queue is what it was while neither its memory nor its ends change.
LEMMA UnreadSame == UNCHANGED <<mem, rxWr, RX_RD>> => UNCHANGED Unread
  BY DEF Unread

LEMMA StreamInit == Init => Stream!Init
<1> SUFFICES ASSUME Init PROVE Stream!Init
  OBVIOUS
<1>1. Diff(rxWr, RX_RD) = 0
  BY DEF Init, Diff
<1>2. Unread = <<>>
  BY <1>1 DEF Unread, Load
<1> QED
  BY <1>2 DEF Init, Stream!Init

\* A call that reads takes a prefix of the queue.
LEMMA CopyOutPops ==
  ASSUME IInv, DataType, CopyOut
  PROVE  Stream!Forget \/ \E n \in 1..Len(Unread) : Stream!Pop(n)
<1> PICK n \in Nat : n = Minimum(ret, len)
  BY SizeAssumption DEF CopyOut, Minimum, IInv, NumType, CallInv
<1> PICK d \in Nat : d = Diff(rxWr, RX_RD)
  BY UnreadIs
<1>1. /\ n <= d /\ d <= SSIZE /\ Len(Unread) = d /\ n <= SSIZE
  <2>1. n <= RX_RSR
    BY SizeAssumption DEF CopyOut, Minimum, IInv, NumType, CallInv
  <2> QED
    BY <2>1, UnreadIs, RingAssumption DEF IInv, NumType
<1>2. /\ out' = Load(mem, RX_RD, n) /\ RX_RD' = Plus(RX_RD, n) /\ UNCHANGED <<mem, rxWr>>
  BY DEF CopyOut, chipVars
<1>3. Diff(rxWr, Plus(RX_RD, n)) = d - n
  BY <1>1, DiffLess DEF IInv, NumType
<1>4. Unread = Load(mem, RX_RD, d) /\ Unread' = Load(mem, Plus(RX_RD, n), d - n)
  BY <1>2, <1>3 DEF Unread
<1>5. /\ SubSeq(Unread, 1, n) = Load(mem, RX_RD, n)
      /\ SubSeq(Unread, n + 1, d) = Load(mem, Plus(RX_RD, n), d - n)
  <2>1. n \in 0..d /\ RX_RD \in Ptr /\ mem \in [Place -> Byte]
    BY <1>1 DEF IInv, NumType, DataType
  <2> QED
    BY <1>1, <1>4, <2>1, LoadParts, Zenon
<1>6. CASE n = 0
  <2>1. out' = <<>>
    BY <1>2, <1>6 DEF Load
  <2>2. RX_RD' = RX_RD
    BY <1>2, <1>6, RingAssumption DEF Plus, IInv, NumType, Ptr
  <2> QED
    BY <1>2, <2>1, <2>2, UnreadSame DEF Stream!Forget
<1>7. CASE n # 0
  <2>1. n \in 1..Len(Unread) /\ n <= Len(Unread)
    BY <1>1, <1>7
  <2>2. out' = SubSeq(Unread, 1, n) /\ Unread' = SubSeq(Unread, n + 1, Len(Unread))
    BY <1>1, <1>2, <1>4, <1>5
  <2> QED
    BY <2>1, <2>2 DEF Stream!Pop
<1> QED
  BY <1>6, <1>7

\* A byte from the peer is appended.
LEMMA ReceivePushes ==
  ASSUME IInv, DataType, NEW b \in Byte, Receive(b)
  PROVE  Stream!Push(1) /\ Len(Load(mem, Plus(rxWr, PTRMOD - 1), 1))' = 1
<1> PICK d \in Nat : d = Diff(rxWr, RX_RD)
  BY UnreadIs
<1>1. /\ RX_RD \in Ptr /\ rxWr \in Ptr /\ mem \in [Place -> Byte] /\ d <= rsr /\ rsr < SSIZE
      /\ d < SSIZE /\ d + 1 <= SSIZE /\ Len(Unread) = d
  BY UnreadIs, RingAssumption DEF Receive, IInv, NumType, DataType
<1>2. Plus(RX_RD, d) = rxWr
  BY <1>1, RingAssumption, PlusDiff
<1>3. /\ mem' = [mem EXCEPT ![Plus(RX_RD, d) % SSIZE] = b] /\ rxWr' = Plus(rxWr, 1)
      /\ UNCHANGED <<RX_RD, out>>
  BY <1>2 DEF Receive, libVars, callVars
<1>4. Diff(Plus(rxWr, 1), RX_RD) = d + 1
  BY <1>1, DiffMore
<1>5. mem' \in [Place -> Byte] /\ Load(mem', RX_RD, d + 1) = Load(mem, RX_RD, d) \o <<b>>
  <2> PICK n : n = [mem EXCEPT ![Plus(RX_RD, d) % SSIZE] = b]
    OBVIOUS
  <2>1. RX_RD \in Ptr /\ mem \in [Place -> Byte] /\ d \in Nat /\ d < SSIZE
    BY <1>1
  <2>2. Grown(Byte, n, mem, RX_RD, d, b)
    BY <2>1, LoadAppend, Zenon
  <2> QED
    BY <1>3, <2>2 DEF Grown
<1>6. Unread' = Unread \o <<b>>
  BY <1>3, <1>4, <1>5 DEF Unread
<1>7. Load(mem, Plus(rxWr, PTRMOD - 1), 1)' = <<b>>
  <2>1. Plus(Plus(rxWr, 1), PTRMOD - 1) = rxWr
    BY <1>1, RingAssumption DEF Plus, Ptr
  <2>2. Plus(rxWr, 0) = rxWr /\ rxWr % SSIZE \in Place
    BY <1>1, RingAssumption DEF Plus, Ptr, Place
  <2>3. mem'[rxWr % SSIZE] = b
    BY <1>1, <1>2, <1>3, <2>2
  <2>4. Load(mem', rxWr, 1) = <<b>>
    BY <2>2, <2>3 DEF Load
  <2> QED
    BY <1>3, <2>1, <2>4
<1>8. SubSeq(<<b>>, 1, 1) = <<b>> /\ Len(<<b>>) = 1
  BY Single
<1> QED
  BY <1>1, <1>3, <1>6, <1>7, <1>8 DEF Stream!Push

LEMMA StreamStep == IInv /\ DataType /\ [Next]_vars => [Stream!Next]_<<Unread, out>>
<1> SUFFICES ASSUME IInv, DataType, [Next]_vars PROVE [Stream!Next]_<<Unread, out>>
  OBVIOUS
<1>1. ASSUME out' = <<>>, UNCHANGED <<mem, rxWr, RX_RD>> PROVE Stream!Next
  BY <1>1, UnreadSame DEF Stream!Next, Stream!Forget
<1>2. ASSUME NEW n \in 0..MaxLen, Recv(n) PROVE Stream!Next
  BY <1>1, <1>2 DEF Recv, chipVars, libVars
<1>3. CASE ReadRsr \/ ReadStatus \/ Commit \/ PeerFin \/ Abort
  BY <1>3, UnreadSame DEF ReadRsr, ReadStatus, Commit, PeerFin, Abort, chipVars, libVars, callVars
<1>4. CASE CopyOut
  BY <1>4, CopyOutPops DEF Stream!Next
<1>5. CASE Available
  BY <1>1, <1>5 DEF Available, chipVars
<1>6. CASE Peek
  <2>1. UNCHANGED <<mem, rxWr, RX_RD>>
    BY <1>6 DEF Peek, chipVars
  <2>2. CASE Avail = 0
    BY <1>1, <1>6, <2>1, <2>2 DEF Peek
  <2>3. CASE Avail # 0
    <3> PICK d \in Nat : d = Diff(rxWr, RX_RD)
      BY UnreadIs
    <3>1. d # 0 /\ d <= SSIZE /\ Len(Unread) = d
      BY <1>6, <2>3, UnreadIs, RingAssumption DEF Peek, Avail, IInv, NumType
    <3>2. out' = Load(mem, RX_RD, 1)
      BY <1>6, <2>3 DEF Peek
    <3>3. Unread # <<>> /\ Head(Unread) = mem[Plus(RX_RD, 0) % SSIZE]
      BY <3>1 DEF Unread, Load
    <3>4. Load(mem, RX_RD, 1) = <<mem[Plus(RX_RD, 0) % SSIZE]>>
      BY DEF Load
    <3> QED
      BY <2>1, <3>2, <3>3, <3>4, UnreadSame DEF Stream!Next, Stream!Look
  <2> QED
    BY <2>2, <2>3
<1>7. CASE Open
  <2>1. rxWr' = RX_RD' /\ out' = <<>>
    BY <1>7 DEF Open
  <2>2. Diff(rxWr, RX_RD)' = 0
    BY <1>7, <2>1 DEF Diff, Open, IInv, NumType, Ptr
  <2>3. Unread' = <<>>
    BY <2>2 DEF Unread, Load
  <2> QED
    BY <2>1, <2>3 DEF Stream!Next, Stream!Reset
<1>8. ASSUME NEW b \in Byte, Receive(b) PROVE Stream!Next
  BY <1>8, ReceivePushes DEF Stream!Next
<1>9. CASE UNCHANGED vars
  BY <1>9, UnreadSame DEF vars, chipVars, libVars, callVars
<1> QED
  BY <1>2, <1>3, <1>4, <1>5, <1>6, <1>7, <1>8, <1>9 DEF Next, Call, Chip

\* The receiver implements a queue of bytes, for every memory, pointer width and threshold: a call
\* returns the oldest bytes or looks at the first, the chip appends, and a connection starts empty
\* (socket.cpp, lines 302-375).
THEOREM StreamHolds == Spec => StreamSpec
<1>1. Spec => []DataType
  BY Inductive, DataInit, DataStep, PTL DEF Spec
<1> QED
  BY Inductive, <1>1, StreamInit, StreamStep, PTL DEF Spec, StreamSpec, Stream!Spec
=============================================================================

--------------------------- MODULE InternetProofs ---------------------------
(***************************************************************************)
(* Proofs about the parts of Ethernet and cf_internet that keep no         *)
(* stream: reading a counter of the chip, the calls of a sketch, names,    *)
(* the cutting of an answer, datagrams, and the lease of an address.  Each *)
(* part is a specification of its own, and its theorems hold for every     *)
(* value of its constants.                                                 *)
(***************************************************************************)
EXTENDS StableRead, HttpAnswer, CfInternet, EthernetUdp, DnsClient, DhcpLease, NatLemmas,
        SequenceTheorems

(* StableRead returns no torn value, for every register width. *)

Ordered(c) == Leq(start, c) /\ Leq(c, reg)

\* A complete read is right if the high byte has not moved since it was read;
\* a high byte read for the second time shows that it had not.
Torn ==
  /\ reading # "idle" => Leq(start, reg)
  /\ reading \in {"high", "low"} /\ val # Unread =>
       /\ start.hi <= val.hi /\ val.hi <= reg.hi
       /\ reg.hi = val.hi => Ordered(val)
  /\ reading = "low" =>
       /\ start.hi <= hi /\ hi <= reg.hi
       /\ val # Unread /\ hi = val.hi => Ordered(val)

ReadInv == ReadTypeOK /\ NoTornRead /\ Torn

LEMMA ReadStep == ReadInv /\ [ReadNext]_readVars => ReadInv'
<1> SUFFICES ASSUME ReadInv, [ReadNext]_readVars PROVE ReadInv'
  OBVIOUS
<1> USE BaseAssumption DEF ReadInv, ReadTypeOK
<1>1. CASE Grow
  <2>1. PICK c \in Count : Leq(reg, c) /\ reg' = c
    BY <1>1 DEF Grow
  <2>2. ReadTypeOK'
    BY <1>1, <2>1 DEF Grow
  <2>3. NoTornRead' /\ Torn'
    BY <1>1, <2>1 DEF Grow, NoTornRead, Torn, Ordered, Leq, Count, Unread
  <2> QED
    BY <2>2, <2>3
<1>2. CASE Shrink
  BY <1>2 DEF Shrink, NoTornRead, Torn
<1>3. CASE CallRead
  BY <1>3 DEF CallRead, NoTornRead, Torn, Leq, Count
<1>4. CASE ReadHigh
  <2>1. ReadTypeOK'
    BY <1>4 DEF ReadHigh, Count
  <2>2. NoTornRead' /\ Torn'
    BY <1>4 DEF ReadHigh, NoTornRead, Torn, Ordered, Leq, Count, Unread
  <2> QED
    BY <2>1, <2>2
<1>5. CASE ReadLow
  <2>1. ReadTypeOK' /\ val' \in Count /\ val' # Unread
    BY <1>5 DEF ReadLow, Count, Unread
  <2>2. CASE val' = val
    <3>1. reading' = "done" /\ val # Unread /\ hi = val.hi /\ UNCHANGED <<reg, start>>
      BY <1>5, <2>1, <2>2 DEF ReadLow
    <3>2. Leq(start, val) /\ Leq(val, reg) /\ Leq(start, reg)
      BY <1>5, <3>1 DEF ReadLow, Torn, Ordered
    <3> QED
      BY <2>1, <2>2, <3>1, <3>2 DEF NoTornRead, Torn, Leq
  <2>3. CASE val' # val
    <3>1. reading' = "high" /\ val'.hi = hi /\ val'.lo = reg.lo /\ UNCHANGED <<reg, start>>
      BY <1>5, <2>3 DEF ReadLow
    <3>2. Leq(start, reg) /\ start.hi <= hi /\ hi <= reg.hi
      BY <1>5 DEF ReadLow, Torn
    <3>3. Torn'
      BY <3>1, <3>2, <2>1 DEF Torn, Ordered, Leq, Count
    <3> QED
      BY <2>1, <3>1, <3>3 DEF NoTornRead
  <2> QED
    BY <2>2, <2>3
<1>6. CASE ReadReturn
  BY <1>6 DEF ReadReturn, NoTornRead, Torn, Ordered, Leq
<1>7. CASE UNCHANGED readVars
  BY <1>7 DEF readVars, NoTornRead, Torn, Ordered, Leq
<1> QED
  BY <1>1, <1>2, <1>3, <1>4, <1>5, <1>6, <1>7 DEF ReadNext

\* getSnRX_RSR and getSnTX_FSR (lines 263-275, 382-395) return a value between
\* the count at the call and the count at the return, for every byte width.
THEOREM NoTornReadHolds == ReadSpec => []NoTornRead
<1>1. ReadInit => ReadInv
  BY BaseAssumption DEF ReadInit, ReadInv, ReadTypeOK, NoTornRead, Torn, Leq, Count
<1>2. ReadInv => NoTornRead
  BY DEF ReadInv
<1> QED
  BY <1>1, <1>2, ReadStep, PTL DEF ReadSpec

-----------------------------------------------------------------------------
(* The calls of cf_internet. *)

Released == ~client /\ owed = <<>> /\ inbox = <<>>

\* Every byte that is read, waits or is still to come answers the call that runs or
\* ran last: the connect of a call lets go of what a former one left.
RequestInv ==
  /\ req \in 0..MaxCalls /\ kind \in Kind
  /\ owed \in Seq({req}) /\ inbox \in Seq({req}) /\ content \in Seq({req})
  /\ doing = "connect" \/ (doing \in {"idle", "parse"} /\ kind # "get") => Released

LEMMA RequestStep ==
  ASSUME RequestInv, [RequestNext]_requestVars
  PROVE  RequestInv'
<1> USE CallsAssumption DEF RequestInv, Released
<1>1. CASE ServerSends
  BY <1>1 DEF ServerSends
<1>2. CASE ServerStops
  BY <1>2 DEF ServerStops
<1>3. CASE TimePasses
  BY <1>3 DEF TimePasses
<1>4. ASSUME NEW k \in Kind, Call(k) PROVE RequestInv'
  BY <1>4 DEF Call, NoConnection
<1>5. CASE ConnectOk
  BY <1>5 DEF ConnectOk
<1>6. CASE ConnectFails
  BY <1>6 DEF ConnectFails, Return
<1>7. CASE SendRequest
  <2>1. <<req, req>> \in Seq({req}) /\ <<>> \in Seq({req})
    OBVIOUS
  <2>2. /\ owed' \in Seq({req}) /\ doing' = "wait"
        /\ UNCHANGED <<kind, req, client, inbox, content>>
    BY <1>7, <2>1 DEF SendRequest
  <2> QED
    BY <2>2
<1>8. CASE Wait \/ NotYet
  BY <1>8 DEF Wait, NotYet
<1>9. CASE Timeout
  BY <1>9 DEF Timeout, NoConnection, Return
<1>10. CASE ReadChunk
  BY <1>10 DEF ReadChunk
<1>11. CASE EndRead
  BY <1>11 DEF EndRead, NoConnection
<1>12. CASE EndGet
  BY <1>12 DEF EndGet, Return
<1>13. CASE ParseFails
  BY <1>13 DEF ParseFails, Return
<1>14. ASSUME NEW a \in Parsable, NEW rows \in SUBSET Row, Adopt(a, rows) PROVE RequestInv'
  BY <1>14 DEF Adopt, Return
<1>15. CASE UNCHANGED requestVars
  BY <1>15 DEF requestVars
<1> QED
  BY <1>1, <1>2, <1>3, <1>4, <1>5, <1>6, <1>7, <1>8, <1>9, <1>10, <1>11, <1>12, <1>13, <1>14,
     <1>15 DEF RequestNext, Sketch

\* No call reads a byte that answers another one, and a call that posts leaves no connection
\* behind (EthernetClient.cpp, lines 31-36, cf_internet.cpp, lines 226-276, 361-382, 528-549),
\* however many calls follow one another.
THEOREM OwnBytesOnlyHolds == RequestSpec => []OwnBytesOnly
<1>1. RequestInit => RequestInv
  BY CallsAssumption DEF RequestInit, RequestInv, Kind, Released
<1>2. RequestInv /\ [RequestNext]_requestVars => RequestInv'
  BY RequestStep
<1>3. RequestInv => OwnBytesOnly
  <2> SUFFICES ASSUME RequestInv PROVE OwnBytesOnly
    OBVIOUS
  <2>1. ReadsOwnAnswer
    BY DEF RequestInv, ReadsOwnAnswer
  <2>2. PostReleasesClient
    BY DEF RequestInv, Released, PostReleasesClient
  <2> QED
    BY <2>1, <2>2 DEF OwnBytesOnly
<1> QED
  BY <1>1, <1>2, <1>3, PTL DEF RequestSpec

-----------------------------------------------------------------------------
(* Names. *)

\* The question that waits for its answer is the last one, and it was for the name of this lookup.
DnsInv ==
  /\ asked \in Seq(Hosts) /\ host \in Hosts
  /\ step \in {"idle", "ask", "wait"}
  /\ step = "wait" => id \in 1..Len(asked) /\ asked[id] = host
  /\ ResolvesAsked

LEMMA DnsStep ==
  ASSUME DnsInv, [DnsNext]_dnsVars
  PROVE  DnsInv'
<1> USE DnsAssumption DEF DnsInv, ResolvesAsked
<1>1. \A r \in {-1, -2, -3, -4, -5, -6, -9, -10, 1} : AsInt(r) = 1 => r = 1
  BY DEF AsInt
<1>2. ASSUME NEW h \in Hosts, NEW s \in BOOLEAN, NEW p \in LocalPorts \cup {0}, Lookup(h, s, p)
      PROVE  DnsInv'
  BY <1>2 DEF Lookup, Finish, INVALID_SERVER
<1>3. CASE Ask
  BY <1>3 DEF Ask
<1>4. CASE AskFails
  BY <1>4 DEF AskFails, Finish
<1>5. CASE WaitEnds
  BY <1>5, <1>1 DEF WaitEnds, Finish, TIMED_OUT
<1>6. CASE TakeAnswer
  <2> DEFINE a == Head(arrived)
             r == ResultOf(a)
  <2>1. r \in {-1, -2, -3, -4, -5, -6, -9, -10, 1}
    BY DEF ResultOf, INVALID_SERVER, INVALID_RESPONSE
  <2>2. r = 1 => a.id = id
    BY DEF ResultOf, INVALID_SERVER, INVALID_RESPONSE
  <2>3. /\ step = "wait" /\ step' = "idle" /\ answer' = AsInt(r)
        /\ address' = IF r = 1 THEN <<"of", asked[a.id]>> ELSE address
        /\ UNCHANGED <<host, id, waits, asked, flight>>
    BY <1>6 DEF TakeAnswer, Finish
  <2> HIDE DEF a, r
  <2>4. answer' = 1 => r = 1
    BY <2>1, <2>3, <1>1
  <2> QED
    BY <2>2, <2>3, <2>4
<1>7. ASSUME NEW a \in flight, Deliver(a) PROVE DnsInv'
  BY <1>7 DEF Deliver
<1>8. CASE Stray
  BY <1>8 DEF Stray
<1>9. CASE UNCHANGED dnsVars
  BY <1>9 DEF dnsVars
<1> QED
  BY <1>2, <1>3, <1>4, <1>5, <1>6, <1>7, <1>8, <1>9 DEF DnsNext, Resolving

\* A name that is found is found at its own address, whatever late or repeated answers and
\* whatever strangers send to the port (Dns.cpp, lines 157, 246-253, 332-341), for every
\* number of lookups.
THEOREM ResolvesAskedHolds == DnsInit /\ [][DnsNext]_dnsVars => []ResolvesAsked
<1>1. DnsInit => DnsInv
  BY DEF DnsInit, DnsInv, ResolvesAsked
<1>2. DnsInv /\ [DnsNext]_dnsVars => DnsInv'
  BY DnsStep
<1>3. DnsInv => ResolvesAsked
  BY DEF DnsInv
<1> QED
  BY <1>1, <1>2, <1>3, PTL

-----------------------------------------------------------------------------
(* The cutting of an answer. *)

Cell == Text \cup {NUL}

LEMMA FindFirst ==
  ASSUME NEW b, NEW ch, NEW from \in Int, NEW k \in Index, from <= k, b[k] = ch,
         \A j \in Index : from <= j /\ j < k => b[j] # ch
  PROVE  Find(b, ch, from) = k
<1> DEFINE found == {j \in Index : j >= from /\ b[j] = ch}
<1>1. k \in found /\ found \in SUBSET Nat
  BY DEF Index
<1>2. Min(found) \in found /\ Min(found) <= k
  BY <1>1, MinOf
<1>3. Min(found) = k
  BY <1>2 DEF Index
<1>4. Find(b, ch, from) = Min(found)
  BY <1>1 DEF Find
<1> QED
  BY <1>3, <1>4

LEMMA FindHit ==
  ASSUME NEW b, NEW ch, NEW from \in Int
  PROVE  LET k == Find(b, ch, from)
         IN k = -1 \/ (k \in Index /\ from <= k /\ b[k] = ch)
<1> DEFINE found == {j \in Index : j >= from /\ b[j] = ch}
<1>1. CASE found = {}
  BY <1>1 DEF Find
<1>2. CASE found # {}
  <2>1. found \in SUBSET Nat
    BY DEF Index
  <2>2. Min(found) \in found
    BY <1>2, <2>1, MinOf
  <2>3. Find(b, ch, from) = Min(found)
    BY <1>2 DEF Find
  <2> QED
    BY <2>2, <2>3
<1> QED
  BY <1>1, <1>2

\* Before the first NUL a C string has the characters of the buffer.
LEMMA StringUpTo ==
  ASSUME NEW b, NEW n \in Index, b[n] = NUL, \A j \in Index : j < n => b[j] # NUL
  PROVE  AsString(b) = [k \in 1..n |-> b[k - 1]]
<1> DEFINE ends == {k \in Index : b[k] = NUL}
<1>1. n \in ends /\ ends \in SUBSET Nat
  BY DEF Index
<1>2. Min(ends) \in ends /\ Min(ends) <= n
  BY <1>1, MinOf
<1>3. Min(ends) = n
  BY <1>2 DEF Index
<1> QED
  BY <1>1, <1>3 DEF AsString

\* What readBytes has stored lies at the front of the buffer, with its terminator behind it.
Stored == /\ response \in Seq(Text) /\ Len(response) \in 1..SIZE /\ response[1] \in Char
          /\ \A k \in Index : k < Len(response) => buffer[k] = response[k + 1]
          /\ Len(response) < SIZE => buffer[Len(response)] = NUL
          /\ ~overrun => Len(response) < SIZE

AnswerInv == /\ buffer \in [Index -> Cell] /\ overrun \in BOOLEAN
             /\ cutting = "read" => Stored
             /\ KeepsTheArray

LEMMA ReceiveStores ==
  ASSUME AnswerInv, NEW r \in Responses, Receive(r)
  PROVE  AnswerInv'
<1> USE SizeAssumption DEF AnswerInv
<1>1. PICK n \in 1..SIZE : r \in [1..n -> Text] /\ r[1] \in Char
  BY DEF Responses
<1>2. r \in Seq(Text) /\ Len(r) = n
  BY <1>1
<1>3. /\ response' = r /\ cutting' = "read" /\ overrun' = (n >= SIZE)
      /\ buffer' = [k \in Index |-> IF k < n THEN r[k + 1] ELSE IF k = n THEN NUL ELSE buffer[k]]
  BY <1>2 DEF Receive
<1>4. buffer' \in [Index -> Cell]
  BY <1>1, <1>3 DEF Index, Cell
<1>5. Stored'
  BY <1>1, <1>2, <1>3, SMTT(60) DEF Stored, Index
<1>6. InBounds'
  <2>1. ASSUME Len(response') < SIZE PROVE ~overrun'
    <3>1. ~(n >= SIZE)
      BY <1>2, <1>3, <2>1
    <3> QED
      BY <1>3, <3>1, Zenon
  <2> QED
    BY <2>1 DEF InBounds
<1>7. HeadersRemoved'
  BY <1>3 DEF HeadersRemoved
<1> QED
  BY <1>3, <1>4, <1>5, <1>6, <1>7 DEF KeepsTheArray

LEMMA CutKeeps ==
  ASSUME AnswerInv, CutHeaders
  PROVE  AnswerInv'
<1> USE SizeAssumption DEF AnswerInv
<1> DEFINE s == Find(buffer, "[", 0)
           e == Find(buffer, "]", s)
<1>1. /\ Stored /\ cutting' = "done" /\ response' = response
      /\ overrun' = (overrun \/ RemoveOverruns(buffer)) /\ buffer' = RemoveHeaders(buffer)
  BY DEF CutHeaders
<1>2. s = -1 \/ (s \in Index /\ buffer[s] = "[")
  BY FindHit
<1>3. s \in Int
  BY <1>2 DEF Index
<1>4. e = -1 \/ (e \in Index /\ s <= e /\ buffer[e] = "]")
  BY <1>3, FindHit
<1>5. buffer' = IF s < 0 \/ e < 0 THEN buffer
                ELSE [k \in Index |-> IF k <= e - s THEN buffer[s + k]
                                      ELSE IF k = e - s + 1 THEN NUL ELSE buffer[k]]
  BY <1>1 DEF RemoveHeaders
<1>6. RemoveOverruns(buffer) <=> s >= 0 /\ e >= 0 /\ e - s + 1 = SIZE
  BY DEF RemoveOverruns
<1> HIDE DEF s, e
<1>7. buffer' \in [Index -> Cell]
  <2>1. CASE s < 0 \/ e < 0
    BY <1>5, <2>1
  <2>2. CASE ~(s < 0 \/ e < 0)
    <3>1. ASSUME NEW k \in Index, k <= e - s PROVE s + k \in Index
      BY <1>2, <1>4, <2>2, <3>1 DEF Index
    <3> QED
      BY <1>5, <2>2, <3>1 DEF Cell
  <2> QED
    BY <2>1, <2>2
<1>8. ~RemoveOverruns(buffer)
  <2>1. 0 \in Index /\ buffer[0] = response[1] /\ buffer[0] # "["
    BY <1>1, CharAssumption DEF Stored, Index
  <2>2. s # 0
    BY <1>2, <2>1
  <2> QED
    BY <1>2, <1>4, <1>6, <2>2 DEF Index
<1>9. overrun' = overrun
  BY <1>1, <1>8
<1>10. InBounds'
  BY <1>1, <1>9 DEF KeepsTheArray, InBounds
<1>11. ASSUME ~overrun, NEW a \in Arrays(response)
       PROVE  AsString(buffer') = SubSeq(response, a[1], a[2])
  <2> DEFINE len == Len(response)
             i == a[1]
             j == a[2]
  <2>1. /\ i \in 1..len /\ j \in 1..len /\ i <= j /\ response[i] = "[" /\ response[j] = "]"
        /\ \A k \in 1..(i - 1) : response[k] # "["
        /\ \A k \in i..(j - 1) : response[k] # "]"
    BY <1>11 DEF Arrays
  <2>2. /\ len \in Nat /\ len < SIZE /\ response \in Seq(Text)
        /\ \A k \in Index : k < len => buffer[k] = response[k + 1]
    BY <1>1, <1>11 DEF Stored
  <2> HIDE DEF len, i, j
  <2>3. i - 1 \in Index /\ j - 1 \in Index /\ buffer[i - 1] = "[" /\ buffer[j - 1] = "]"
    BY <2>1, <2>2 DEF Index
  <2>4. s = i - 1
    <3>1. ASSUME NEW k \in Index, 0 <= k, k < i - 1 PROVE buffer[k] # "["
      <4>1. k + 1 \in 1..(i - 1) /\ k < len
        BY <3>1, <2>1, <2>2 DEF Index
      <4> QED
        BY <4>1, <2>1, <2>2
    <3> QED
      BY <2>3, <3>1, FindFirst DEF s, Index
  <2>5. e = j - 1
    <3>1. ASSUME NEW k \in Index, s <= k, k < j - 1 PROVE buffer[k] # "]"
      <4>1. k + 1 \in i..(j - 1) /\ k < len
        BY <3>1, <2>1, <2>2, <2>4 DEF Index
      <4> QED
        BY <4>1, <2>1, <2>2
    <3>2. s <= j - 1
      BY <2>1, <2>2, <2>4
    <3> QED
      BY <1>3, <2>3, <3>1, <3>2, FindFirst DEF e
  <2> DEFINE n == j - i + 1
  <2>6. n \in Index /\ n \in Nat /\ n < SIZE
    BY <2>1, <2>2 DEF Index
  <2>7. \A k \in Index : buffer'[k] = IF k < n THEN buffer[i - 1 + k]
                                      ELSE IF k = n THEN NUL ELSE buffer[k]
    BY <1>5, <2>1, <2>2, <2>4, <2>5 DEF Index
  <2>8. ASSUME NEW k \in Index, k < n
        PROVE  buffer'[k] = response[i + k] /\ response[i + k] \in Text
    <3>1. i - 1 + k \in Index /\ i - 1 + k < len /\ i + k \in 1..len
      BY <2>1, <2>2, <2>8 DEF Index
    <3>2. buffer'[k] = buffer[i - 1 + k]
      BY <2>7, <2>8
    <3>3. buffer[i - 1 + k] = response[(i - 1 + k) + 1] /\ (i - 1 + k) + 1 = i + k
      BY <2>1, <2>2, <3>1 DEF Index
    <3>4. response[i + k] \in Text
      BY <2>2, <3>1 DEF len
    <3> QED
      BY <3>2, <3>3, <3>4
  <2> HIDE DEF n
  <2>9. buffer'[n] = NUL /\ \A k \in Index : k < n => buffer'[k] # NUL
    <3>1. NUL \notin Text
      BY CharAssumption DEF Text, NUL
    <3>2. buffer'[n] = NUL
      <4>1. ~(n < n)
        BY <2>6
      <4> QED
        BY <2>6, <2>7, <4>1
    <3>3. ASSUME NEW k \in Index, k < n PROVE buffer'[k] # NUL
      BY <2>8, <3>1, <3>3
    <3> QED
      BY <3>2, <3>3
  <2>10. AsString(buffer') = [k \in 1..n |-> buffer'[k - 1]]
    BY <2>6, <2>9, StringUpTo
  <2>11. /\ SubSeq(response, i, j) \in Seq(Text) /\ Len(SubSeq(response, i, j)) = n
         /\ \A k \in 1..n : SubSeq(response, i, j)[k] = response[i + k - 1]
    BY <2>1, <2>2, SubSeqProperties DEF n, len
  <2>12. SubSeq(response, i, j) = [k \in 1..n |-> SubSeq(response, i, j)[k]]
    BY <2>11, LenProperties
  <2>13. ASSUME NEW k \in 1..n PROVE buffer'[k - 1] = SubSeq(response, i, j)[k]
    <3>1. k - 1 \in Index /\ k - 1 < n
      BY <2>6 DEF Index
    <3>2. buffer'[k - 1] = response[i + (k - 1)] /\ i + (k - 1) = i + k - 1
      BY <3>1, <2>8, <2>1, <2>6
    <3> QED
      BY <3>2, <2>11
  <2> QED
    BY <2>10, <2>12, <2>13 DEF i, j
<1>12. HeadersRemoved'
  BY <1>1, <1>9, <1>11 DEF HeadersRemoved
<1> QED
  BY <1>1, <1>7, <1>9, <1>10, <1>12 DEF KeepsTheArray

\* Of a response that fits the array, exactly the array in it is left, and nothing beyond the
\* buffer is written (cf_internet.cpp, lines 543-552, 735-739), for every length of the buffer.
THEOREM KeepsTheArrayHolds == AnswerSpec => []KeepsTheArray
<1>1. AnswerInit => AnswerInv
  BY DEF AnswerInit, AnswerInv, Cell, KeepsTheArray, HeadersRemoved, InBounds
<1>2. AnswerInv /\ [AnswerNext]_answerVars => AnswerInv'
  <2> SUFFICES ASSUME AnswerInv, [AnswerNext]_answerVars PROVE AnswerInv'
    OBVIOUS
  <2>1. CASE NextCall
    BY <2>1 DEF NextCall, AnswerInv, KeepsTheArray, HeadersRemoved, InBounds
  <2>2. CASE UNCHANGED answerVars
    BY <2>2 DEF answerVars, AnswerInv, Stored, KeepsTheArray, HeadersRemoved, InBounds
  <2> QED
    BY <2>1, <2>2, ReceiveStores, CutKeeps DEF AnswerNext
<1>3. AnswerInv => KeepsTheArray
  BY DEF AnswerInv
<1> QED
  BY <1>1, <1>2, <1>3, PTL DEF AnswerSpec

-----------------------------------------------------------------------------
(* Datagrams. *)

\* Behind place p of the memory r lie the z bytes of its datagram, and then the next header.
WholeAt(r, p, z) ==
  /\ p + z <= Len(r)
  /\ \A k \in 0..z : r[p + k] = <<r[p][1], k>>
  /\ p + z < Len(r) => r[p + z + 1][2] = 0

\* Every header in the memory has its whole datagram behind it.
Framed(r) == \A p \in 1..Len(r) : r[p][2] = 0 =>
                r[p][1] \in 1..Len(sizes) /\ WholeAt(r, p, sizes[r[p][1]])

\* In front of the first header lies what is left of the datagram whose header was read last.
Rest == /\ remaining <= Len(rx)
        /\ remaining < Len(rx) => rx[remaining + 1][2] = 0
        /\ remaining > 0 => /\ remote \in 1..Len(sizes) /\ remaining + Len(taken) = sizes[remote]
                            /\ \A p \in 1..remaining : rx[p] = <<remote, Len(taken) + p>>

ReceiveInv == /\ rx \in Seq(Nat \X Nat) /\ sizes \in Seq(Nat) /\ remaining \in Nat
              /\ taken \in Seq(Nat \X Nat)
              /\ \A k \in 1..Len(taken) : taken[k] = <<remote, k>>
              /\ udp => Framed(rx) /\ Rest
              /\ ~udp => remote = 0 /\ rx = <<>> /\ taken = <<>>

\* What is written stands in the memory from its start on, as far as the memory goes.
TransmitInv == /\ tx \in [0..(TxSize - 1) -> Nat] /\ pointer \in Nat /\ offset \in Nat
               /\ written \in Nat \cup {-1}
               /\ written >= 0 => offset = written /\ written \in {0, pointer}
               /\ pointer <= TxSize => \A k \in 1..pointer : tx[k - 1] = k
               /\ SendsWhatWasWritten

LEMMA DropOf ==
  ASSUME NEW S, NEW r \in Seq(S), NEW n \in 0..Len(r)
  PROVE  /\ Drop(r, n) \in Seq(S) /\ Len(Drop(r, n)) = Len(r) - n
         /\ \A i \in 1..(Len(r) - n) : Drop(r, n)[i] = r[n + i]
<1>1. \A i \in (n + 1)..Len(r) : r[i] \in S
  OBVIOUS
<1>2. /\ SubSeq(r, n + 1, Len(r)) \in Seq(S)
      /\ Len(SubSeq(r, n + 1, Len(r))) = IF n + 1 <= Len(r) THEN Len(r) - (n + 1) + 1 ELSE 0
      /\ \A i \in 1..(Len(r) - (n + 1) + 1) : SubSeq(r, n + 1, Len(r))[i] = r[n + 1 + i - 1]
  BY <1>1, SubSeqProperties
<1>3. ASSUME NEW i \in 1..(Len(r) - n) PROVE i \in 1..(Len(r) - (n + 1) + 1) /\ n + 1 + i - 1 = n + i
  OBVIOUS
<1> QED
  BY <1>2, <1>3 DEF Drop

LEMMA ConcatOf ==
  ASSUME NEW S, NEW r \in Seq(S), NEW b \in Seq(S)
  PROVE  /\ r \o b \in Seq(S) /\ Len(r \o b) = Len(r) + Len(b)
         /\ \A i \in 1..Len(r) : (r \o b)[i] = r[i]
         /\ \A i \in 1..Len(b) : (r \o b)[Len(r) + i] = b[i]
<1>1. Len(r) \in Nat /\ Len(b) \in Nat
  OBVIOUS
<1>2. ASSUME NEW i \in 1..Len(r) PROVE (r \o b)[i] = r[i]
  BY <1>1, ConcatProperties
<1>3. ASSUME NEW i \in 1..Len(b) PROVE (r \o b)[Len(r) + i] = b[i]
  BY <1>1, ConcatProperties
<1> QED
  BY <1>2, <1>3, ConcatProperties

LEMMA WholeDrop ==
  ASSUME NEW S, NEW r \in Seq(S), NEW n \in 0..Len(r), NEW p \in 1..(Len(r) - n), NEW z \in Nat,
         WholeAt(r, n + p, z)
  PROVE  WholeAt(Drop(r, n), p, z)
<1>1. PICK d : d = Drop(r, n)
  OBVIOUS
<1>2. Len(d) = Len(r) - n /\ \A i \in 1..(Len(r) - n) : d[i] = r[n + i]
  BY <1>1, DropOf
<1>3. d[p] = r[n + p] /\ p + z <= Len(d)
  BY <1>2 DEF WholeAt
<1>4. ASSUME NEW k \in 0..z PROVE d[p + k] = <<d[p][1], k>>
  <2>1. p + k \in 1..(Len(r) - n) /\ n + (p + k) = n + p + k
    BY <1>2, <1>3
  <2>2. d[p + k] = r[n + p + k]
    BY <1>2, <2>1
  <2> QED
    BY <1>3, <2>2 DEF WholeAt
<1>5. ASSUME p + z < Len(d) PROVE d[p + z + 1][2] = 0
  <2>1. p + z + 1 \in 1..(Len(r) - n) /\ n + (p + z + 1) = n + p + z + 1 /\ n + p + z < Len(r)
    BY <1>2, <1>3, <1>5
  <2>2. d[p + z + 1] = r[n + p + z + 1]
    BY <1>2, <2>1
  <2> QED
    BY <2>1, <2>2 DEF WholeAt
<1> QED
  BY <1>1, <1>3, <1>4, <1>5 DEF WholeAt

LEMMA WholeConcat ==
  ASSUME NEW S, NEW r \in Seq(S), NEW b \in Seq(S), NEW p \in 1..Len(r), NEW z \in Nat,
         WholeAt(r, p, z), Len(b) > 0 => b[1][2] = 0
  PROVE  WholeAt(r \o b, p, z)
<1>1. PICK d : d = r \o b
  OBVIOUS
<1>2. /\ Len(d) = Len(r) + Len(b)
      /\ \A i \in 1..Len(r) : d[i] = r[i]
      /\ \A i \in 1..Len(b) : d[Len(r) + i] = b[i]
  BY <1>1, ConcatOf
<1>3. d[p] = r[p] /\ p + z <= Len(r) /\ p + z <= Len(d)
  BY <1>2 DEF WholeAt
<1>4. ASSUME NEW k \in 0..z PROVE d[p + k] = <<d[p][1], k>>
  <2>1. p + k \in 1..Len(r)
    BY <1>2, <1>3
  <2>2. d[p + k] = r[p + k]
    BY <1>2, <2>1
  <2> QED
    BY <1>3, <2>2 DEF WholeAt
<1>5. ASSUME p + z < Len(d) PROVE d[p + z + 1][2] = 0
  <2>2. CASE p + z < Len(r)
    <3>1. d[p + z + 1] = r[p + z + 1]
      BY <1>2, <1>3, <2>2
    <3> QED
      BY <2>2, <3>1 DEF WholeAt
  <2>3. CASE p + z = Len(r)
    <3>1. Len(d) = Len(r) + Len(b) /\ Len(r) \in Nat /\ Len(b) \in Nat
      BY <1>2
    <3>2. p + z + 1 = Len(r) + 1 /\ 1 \in 1..Len(b)
      BY <1>5, <2>3, <3>1
    <3>3. d[p + z + 1] = b[1]
      BY <1>2, <3>2
    <3> QED
      BY <3>2, <3>3
  <2> QED
    BY <1>3, <2>2, <2>3
<1> QED
  BY <1>1, <1>3, <1>4, <1>5 DEF WholeAt

\* What is dropped from the front takes nothing from the datagrams behind it.
LEMMA FramedDrop ==
  ASSUME NEW S, NEW r \in Seq(S), NEW n \in 0..Len(r), Framed(r), sizes \in Seq(Nat)
  PROVE  Framed(Drop(r, n))
<1>1. PICK d : d = Drop(r, n)
  OBVIOUS
<1>2. Len(d) = Len(r) - n /\ \A i \in 1..(Len(r) - n) : d[i] = r[n + i]
  BY <1>1, DropOf
<1>3. ASSUME NEW p \in 1..Len(d), d[p][2] = 0
      PROVE  d[p][1] \in 1..Len(sizes) /\ WholeAt(d, p, sizes[d[p][1]])
  <2>1. p \in 1..(Len(r) - n) /\ n + p \in 1..Len(r) /\ r[n + p] = d[p]
    BY <1>2
  <2>2. d[p][1] \in 1..Len(sizes) /\ WholeAt(r, n + p, sizes[d[p][1]])
    BY <1>3, <2>1 DEF Framed
  <2>3. sizes[d[p][1]] \in Nat
    BY <2>2
  <2> QED
    BY <1>1, <2>1, <2>2, <2>3, WholeDrop
<1> QED
  BY <1>1, <1>3 DEF Framed

LEMMA FramedConcat ==
  ASSUME NEW S, NEW r \in Seq(S), NEW n \in Nat, n = Len(sizes), NEW l \in Nat,
         NEW b \in Seq(S), sizes \in Seq(Nat), sizes' = Append(sizes, l), Framed(r), rx' = r \o b
  PROVE  Len(b) = l + 1 /\ (\A k \in 1..(l + 1) : b[k] = <<n + 1, k - 1>>) => Framed(rx)'
<1>0. /\ Len(r \o b) = Len(r) + Len(b)
      /\ \A i \in 1..Len(r) : (r \o b)[i] = r[i]
      /\ \A i \in 1..Len(b) : (r \o b)[Len(r) + i] = b[i]
  BY ConcatOf
<1> HAVE Len(b) = l + 1 /\ \A k \in 1..(l + 1) : b[k] = <<n + 1, k - 1>>
<1>1. PICK d : d = r \o b
  OBVIOUS
<1>2. /\ Len(d) = Len(r) + Len(b)
      /\ \A i \in 1..Len(r) : d[i] = r[i]
      /\ \A i \in 1..Len(b) : d[Len(r) + i] = b[i]
  BY <1>0, <1>1
<1>3. Len(d) = Len(r) + (l + 1) /\ Len(r) \in Nat
  BY <1>2
<1>4. ASSUME NEW m \in 1..n PROVE sizes'[m] = sizes[m] /\ sizes[m] \in Nat /\ m \in 1..Len(sizes')
  OBVIOUS
<1>5. sizes'[n + 1] = l /\ n + 1 \in 1..Len(sizes')
  OBVIOUS
<1>6. ASSUME NEW p \in 1..Len(d), d[p][2] = 0
      PROVE  d[p][1] \in 1..Len(sizes') /\ WholeAt(d, p, sizes'[d[p][1]])
  <2>1. CASE p <= Len(r)
    <3>1. p \in 1..Len(r) /\ d[p] = r[p]
      BY <1>2, <1>3, <2>1
    <3>2. d[p][1] \in 1..n /\ WholeAt(r, p, sizes[d[p][1]])
      BY <1>6, <3>1 DEF Framed
    <3>3. b[1][2] = 0
      OBVIOUS
    <3> QED
      BY <1>1, <1>4, <3>1, <3>2, <3>3, WholeConcat
  <2>2. CASE p > Len(r)
    <3>1. PICK k \in 1..(l + 1) : p = Len(r) + k
      <4>1. p - Len(r) \in 1..(l + 1) /\ p = Len(r) + (p - Len(r))
        BY <1>3, <2>2
      <4> QED
        BY <4>1
    <3>2. ASSUME NEW i \in 1..(l + 1) PROVE d[Len(r) + i] = <<n + 1, i - 1>>
      BY <1>2
    <3>3. k = 1 /\ p = Len(r) + 1 /\ d[p] = <<n + 1, 0>>
      BY <1>6, <3>1, <3>2
    <3>4. ASSUME NEW i \in 0..l PROVE d[p + i] = <<n + 1, i>>
      <4>1. i + 1 \in 1..(l + 1) /\ p + i = Len(r) + (i + 1) /\ (i + 1) - 1 = i
        BY <1>3, <3>3
      <4> QED
        BY <3>2, <4>1
    <3>5. p + l = Len(d)
      BY <1>3, <3>3
    <3>6. WholeAt(d, p, l)
      BY <1>3, <3>3, <3>4, <3>5, SMTT(60) DEF WholeAt
    <3> QED
      BY <1>5, <3>3, <3>6
  <2> QED
    BY <1>3, <2>1, <2>2
<1> QED
  BY <1>1, <1>6 DEF Framed

LEMMA ArriveKeeps ==
  ASSUME ReceiveInv, Arrive
  PROVE  ReceiveInv'
<1> USE UdpAssumption DEF ReceiveInv
<1> DEFINE n == Len(sizes)
<1>1. PICK l \in Lengths :
        /\ sizes' = Append(sizes, l)
        /\ rx' = IF Len(rx) + 1 + l > RxSize THEN rx
                 ELSE rx \o [k \in 1..(l + 1) |-> <<n + 1, k - 1>>]
  BY DEF Arrive
<1>2. /\ l \in Nat /\ udp /\ udp' = udp /\ remaining' = remaining /\ remote' = remote
      /\ taken' = taken /\ n \in Nat
  BY DEF Arrive
<1>3. sizes' \in Seq(Nat) /\ Len(sizes') = n + 1
  BY <1>1, <1>2
<1>4. \A m \in 1..n : sizes'[m] = sizes[m] /\ m \in 1..Len(sizes') /\ sizes[m] \in Nat
  BY <1>1, <1>2
<1>5. CASE rx' = rx
  <2>1. Framed(rx)'
    BY <1>2, <1>4, <1>5, ZenonT(60) DEF Framed, WholeAt
  <2>2. Rest'
    BY <1>2, <1>4, <1>5 DEF Rest
  <2> QED
    BY <1>2, <1>3, <1>5, <2>1, <2>2
<1>6. CASE rx' # rx
  <2>1. PICK b : b = [k \in 1..(l + 1) |-> <<n + 1, k - 1>>]
    OBVIOUS
  <2>2. /\ b \in Seq(Nat \X Nat) /\ Len(b) = l + 1
        /\ \A k \in 1..(l + 1) : b[k] = <<n + 1, k - 1>>
    BY <1>2, <2>1
  <2>3. rx' = rx \o b
    BY <1>1, <1>6, <2>1
  <2>4. /\ rx' \in Seq(Nat \X Nat) /\ Len(rx') = Len(rx) + (l + 1) /\ Len(rx) \in Nat
        /\ \A i \in 1..Len(rx) : rx'[i] = rx[i]
        /\ \A i \in 1..Len(b) : rx'[Len(rx) + i] = b[i]
    <3>1. PICK S : S = Nat \X Nat
      OBVIOUS
    <3>2. rx \in Seq(S) /\ b \in Seq(S)
      BY <2>2, <3>1
    <3>3. /\ rx \o b \in Seq(S) /\ Len(rx \o b) = Len(rx) + Len(b) /\ Len(rx) \in Nat
          /\ \A i \in 1..Len(rx) : (rx \o b)[i] = rx[i]
          /\ \A i \in 1..Len(b) : (rx \o b)[Len(rx) + i] = b[i]
      BY <3>2, ConcatOf, SMTT(60)
    <3> QED
      BY <2>2, <2>3, <3>1, <3>3
  <2>5. Framed(rx)'
    BY <1>1, <1>2, <2>2, <2>3, FramedConcat
  <2>6. Rest'
    <3>1. remaining <= Len(rx) /\ remaining <= Len(rx')
      BY <1>2, <2>4 DEF Rest
    <3>2. ASSUME remaining < Len(rx') PROVE rx'[remaining + 1][2] = 0
      <4>1. CASE remaining < Len(rx)
        <5>1. remaining \in Nat /\ Len(rx) \in Nat
          BY <1>2
        <5>2. remaining + 1 \in 1..Len(rx)
          BY <4>1, <5>1
        <5>3. rx'[remaining + 1] = rx[remaining + 1]
          BY <2>4, <5>2
        <5> QED
          BY <1>2, <4>1, <5>3 DEF Rest
      <4>2. CASE remaining = Len(rx)
        <5>1. rx'[remaining + 1] = b[1]
          <6>1. 1 \in 1..Len(b)
            BY <1>2, <2>2
          <6> QED
            BY <2>4, <4>2, <6>1
        <5> QED
          BY <1>2, <2>2, <5>1
      <4> QED
        BY <2>4, <3>1, <4>1, <4>2
    <3>3. ASSUME remaining > 0
          PROVE  /\ remote \in 1..Len(sizes') /\ remaining + Len(taken) = sizes'[remote]
                 /\ \A p \in 1..remaining : rx'[p] = <<remote, Len(taken) + p>>
      <4>1. /\ remote \in 1..n /\ remaining + Len(taken) = sizes[remote]
            /\ \A p \in 1..remaining : rx[p] = <<remote, Len(taken) + p>>
        BY <1>2, <3>3 DEF Rest
      <4>2. ASSUME NEW p \in 1..remaining PROVE rx'[p] = rx[p]
        BY <2>4, <3>1
      <4> QED
        BY <1>4, <4>1, <4>2
    <3> QED
      BY <1>2, <3>1, <3>2, <3>3 DEF Rest
  <2> QED
    BY <1>2, <1>3, <2>4, <2>5, <2>6
<1> QED
  BY <1>5, <1>6

LEMMA ParseKeeps ==
  ASSUME ReceiveInv, ParsePacket
  PROVE  ReceiveInv'
<1> USE DEF ReceiveInv
<1>1. PICK next : next = Drop(rx, remaining)
  OBVIOUS
<1>2. /\ udp /\ udp' = udp /\ taken' = <<>> /\ sizes' = sizes
      /\ IF next = <<>> THEN rx' = next /\ remaining' = 0 /\ UNCHANGED remote
         ELSE \E h \in Front8(next) : rx' = Tail(next) /\ remote' = h.from /\ remaining' = h.length
  BY <1>1 DEF ParsePacket
<1>3. PICK S : S = Nat \X Nat
  OBVIOUS
<1>4. rx \in Seq(S) /\ remaining \in 0..Len(rx) /\ Framed(rx)
  BY <1>2, <1>3 DEF Rest
<1>5. /\ next \in Seq(S) /\ Len(next) = Len(rx) - remaining
      /\ \A i \in 1..(Len(rx) - remaining) : next[i] = rx[remaining + i]
  BY <1>1, <1>4, DropOf
<1>6. Framed(next)
  BY <1>1, <1>4, FramedDrop
<1>7. CASE next = <<>>
  <2>1. rx' = <<>> /\ remaining' = 0
    BY <1>2, <1>7
  <2> QED
    BY <1>2, <2>1 DEF Framed, Rest
<1>8. CASE next # <<>>
  <2>1. Len(next) \in Nat /\ Len(next) > 0 /\ next[1] \in S
    BY <1>5, <1>8, SMTT(60)
  <2>2. next[1][2] = 0
    <3>1. remaining \in Nat /\ Len(rx) \in Nat /\ Len(next) = Len(rx) - remaining
      BY <1>4, <1>5
    <3>2. remaining < Len(rx) /\ 1 \in 1..(Len(rx) - remaining)
      BY <2>1, <3>1, SMTT(60)
    <3>3. next[1] = rx[remaining + 1]
      BY <1>5, <3>2
    <3> QED
      BY <1>2, <3>2, <3>3 DEF Rest
  <2> DEFINE m == next[1][1]
             z == sizes[m]
  <2>3. rx' = Tail(next) /\ remote' = m /\ remaining' = z
    BY <1>2, <1>8, <2>2 DEF Front8
  <2>4. m \in 1..Len(sizes) /\ WholeAt(next, 1, z)
    BY <1>6, <2>1, <2>2 DEF Framed
  <2>5. z \in Nat
    BY <2>4, SMTT(60)
  <2>6. /\ rx' \in Seq(S) /\ Len(rx') = Len(next) - 1
        /\ \A i \in 1..(Len(next) - 1) : rx'[i] = next[i + 1]
    BY <1>5, <1>8, <2>3, HeadTailProperties
  <2>7. Framed(rx)'
    <3>1. rx' = Drop(next, 1)
      <4>1. next \in Seq(S) /\ next # <<>>
        BY <1>5, <1>8
      <4>2. Tail(next) = SubSeq(next, 2, Len(next))
        BY <4>1, TailIsSubSeq, Zenon
      <4>3. Drop(next, 1) = SubSeq(next, 2, Len(next))
        BY 1 + 1 = 2 DEF Drop
      <4> QED
        BY <2>3, <4>2, <4>3
    <3>2. Framed(Drop(next, 1))
      BY <1>5, <1>6, <2>1, FramedDrop
    <3> QED
      BY <1>2, <3>1, <3>2 DEF Framed
  <2> HIDE DEF m, z
  <2>8. Rest'
    <3>1. 1 + z <= Len(next) /\ z <= Len(rx')
      BY <2>1, <2>4, <2>5, <2>6 DEF WholeAt
    <3>2. ASSUME z < Len(rx') PROVE rx'[z + 1][2] = 0
      <4>1. next[1 + z + 1][2] = 0
        BY <2>1, <2>4, <2>5, <2>6, <3>2 DEF WholeAt
      <4>2. z + 1 \in 1..(Len(next) - 1) /\ (z + 1) + 1 = 1 + z + 1
        BY <2>1, <2>5, <2>6, <3>2, SMTT(60)
      <4>3. rx'[z + 1] = next[1 + z + 1]
        BY <2>6, <4>2, SMTT(60)
      <4> QED
        BY <4>1, <4>3
    <3>3. ASSUME NEW p \in 1..z PROVE rx'[p] = <<m, p>>
      <4>1. next[1 + p] = <<m, p>>
        BY <2>4, <2>5, SMTT(60) DEF WholeAt, m
      <4>2. p \in 1..(Len(next) - 1) /\ p + 1 = 1 + p
        BY <2>1, <2>5, <3>1
      <4> QED
        BY <2>6, <4>1, <4>2
    <3>4. Len(taken') = 0
      BY <1>2
    <3>5. ASSUME NEW p \in 1..z PROVE rx'[p] = <<m, Len(taken') + p>>
      BY <3>3, <3>4, <2>5
    <3>6. z > 0 => m \in 1..Len(sizes) /\ z + Len(taken') = sizes[m]
      BY <2>4, <2>5, <3>4 DEF z
    <3> QED
      BY <1>2, <2>3, <3>1, <3>2, <3>5, <3>6 DEF Rest
  <2> QED
    BY <1>2, <1>3, <2>3, <2>5, <2>6, <2>7, <2>8
<1> QED
  BY <1>7, <1>8

LEMMA ReadKeeps ==
  ASSUME ReceiveInv, NEW n \in ReadSizes, UdpRead(n)
  PROVE  ReceiveInv'
<1> USE UdpAssumption DEF ReceiveInv
<1>1. PICK got : got = Least(Least(n, remaining), Len(rx))
  OBVIOUS
<1>2. /\ udp /\ udp' = udp /\ remaining > 0 /\ got > 0 /\ rx' = Drop(rx, got)
      /\ remaining' = remaining - got /\ taken' = taken \o SubSeq(rx, 1, got)
      /\ sizes' = sizes /\ remote' = remote
  BY <1>1 DEF UdpRead
<1>3. got \in 1..remaining /\ remaining \in 1..Len(rx) /\ Len(rx) \in Nat
  <2>1. n \in Nat /\ remaining <= Len(rx) /\ Len(rx) \in Nat
    BY <1>2 DEF Rest
  <2> QED
    BY <1>1, <1>2, <2>1 DEF Least
<1>4. PICK S : S = Nat \X Nat
  OBVIOUS
<1>5. rx \in Seq(S) /\ got \in 0..Len(rx) /\ Framed(rx)
  BY <1>2, <1>3, <1>4
<1>6. /\ rx' \in Seq(S) /\ Len(rx') = Len(rx) - got
      /\ \A i \in 1..(Len(rx) - got) : rx'[i] = rx[got + i]
  BY <1>2, <1>5, DropOf, ZenonT(60)
<1>7. Framed(rx)'
  <2>1. Framed(Drop(rx, got))
    BY <1>5, FramedDrop
  <2> QED
    BY <1>2, <2>1 DEF Framed
<1>8. PICK s : s = SubSeq(rx, 1, got)
  OBVIOUS
<1>9. s \in Seq(S) /\ Len(s) = got /\ \A i \in 1..got : s[i] = rx[i]
  <2>1. \A i \in 1..got : rx[i] \in S
    BY <1>3, <1>5, SMTT(60)
  <2>2. /\ s \in Seq(S) /\ Len(s) = (IF 1 <= got THEN got - 1 + 1 ELSE 0)
        /\ \A i \in 1..(got - 1 + 1) : s[i] = rx[1 + i - 1]
    BY <1>3, <1>8, <2>1, SubSeqProperties
  <2>3. \A i \in 1..got : i \in 1..(got - 1 + 1) /\ 1 + i - 1 = i
    BY <1>3
  <2> QED
    BY <1>3, <2>2, <2>3
<1> DEFINE t == Len(taken)
<1>10. taken \in Seq(S) /\ t \in Nat
  BY <1>4
<1>11. /\ taken' \in Seq(S) /\ Len(taken') = t + got
       /\ \A i \in 1..t : taken'[i] = taken[i]
       /\ \A i \in 1..got : taken'[t + i] = s[i]
  BY <1>2, <1>8, <1>9, <1>10, ConcatOf
<1>12. /\ remote \in 1..Len(sizes) /\ remaining + t = sizes[remote]
       /\ \A p \in 1..remaining : rx[p] = <<remote, t + p>>
       /\ remaining < Len(rx) => rx[remaining + 1][2] = 0
  BY <1>2, <1>3 DEF Rest
<1>13. \A k \in 1..t : taken[k] = <<remote, k>>
  OBVIOUS
<1> HIDE DEF t
<1>14. ASSUME NEW k \in 1..Len(taken') PROVE taken'[k] = <<remote, k>>
  <2>1. CASE k <= t
    <3>1. k \in 1..t
      BY <1>10, <2>1
    <3> QED
      BY <1>11, <1>13, <3>1
  <2>2. CASE k > t
    <3>1. PICK i \in 1..got : k = t + i
      <4>1. k - t \in 1..got /\ k = t + (k - t)
        BY <1>3, <1>10, <1>11, <2>2
      <4> QED
        BY <4>1
    <3>2. taken'[k] = rx[i] /\ i \in 1..remaining
      BY <1>3, <1>9, <1>11, <3>1, SMTT(60)
    <3> QED
      BY <1>12, <3>1, <3>2
  <2> QED
    BY <1>3, <1>10, <1>11, <2>1, <2>2
<1>15. Rest'
  <2>1. remaining' <= Len(rx') /\ remaining' \in Nat
    BY <1>2, <1>3, <1>6
  <2>2. ASSUME remaining' < Len(rx') PROVE rx'[remaining' + 1][2] = 0
    <3>1. /\ remaining < Len(rx) /\ remaining' + 1 \in 1..(Len(rx) - got)
          /\ got + (remaining' + 1) = remaining + 1
      BY <1>2, <1>3, <1>6, <2>2, SMTT(60)
    <3> QED
      BY <1>6, <1>12, <3>1
  <2>3. ASSUME NEW p \in 1..remaining' PROVE rx'[p] = <<remote, Len(taken') + p>>
    <3>1. Len(taken') = t + got
      BY <1>11
    <3>2. /\ p \in 1..(Len(rx) - got) /\ got + p \in 1..remaining
          /\ t + (got + p) = Len(taken') + p
      <4>1. p \in 1..(remaining - got)
        BY <1>2
      <4> QED
        BY <1>3, <1>10, <3>1, <4>1
    <3> QED
      BY <1>6, <1>12, <3>2
  <2>4. remaining' + Len(taken') = sizes[remote]
    <3>1. Len(taken') = t + got /\ remaining + t = sizes[remote] /\ remaining' = remaining - got
      BY <1>2, <1>11, <1>12
    <3> QED
      BY <1>3, <1>10, <3>1
  <2> QED
    BY <1>2, <1>12, <2>1, <2>2, <2>3, <2>4 DEF Rest
<1>16. remaining' \in Nat
  BY <1>2, <1>3
<1>17. rx' \in Seq(Nat \X Nat) /\ taken' \in Seq(Nat \X Nat)
  BY <1>4, <1>6, <1>11
<1>18. \A k \in 1..Len(taken') : taken'[k] = <<remote', k>>
  BY <1>2, <1>14
<1>19. sizes' \in Seq(Nat) /\ udp'
  BY <1>2
<1> QED
  BY <1>7, <1>15, <1>16, <1>17, <1>18, <1>19

LEMMA ReceiveStep ==
  ASSUME ReceiveInv, [UdpNext]_udpVars
  PROVE  ReceiveInv'
<1>1. CASE UdpBegin
  BY <1>1 DEF UdpBegin, ReceiveInv, Framed, Rest
<1>2. CASE UdpStop
  BY <1>2 DEF UdpStop, ReceiveInv
<1>3. ASSUME UNCHANGED <<udp, receiveVars>> PROVE ReceiveInv'
  BY <1>3 DEF receiveVars, ReceiveInv, Framed, WholeAt, Rest
<1>4. ASSUME NEW n \in WriteSizes, UdpWrite(n) PROVE ReceiveInv'
  BY <1>3, <1>4 DEF UdpWrite
<1>5. CASE BeginPacket \/ EndPacket
  BY <1>3, <1>5 DEF BeginPacket, EndPacket
<1>6. CASE UNCHANGED udpVars
  BY <1>3, <1>6 DEF udpVars
<1> QED
  BY <1>1, <1>2, <1>4, <1>5, <1>6, ArriveKeeps, ParseKeeps, ReadKeeps DEF UdpNext

LEMMA WriteKeeps ==
  ASSUME TransmitInv, NEW n \in WriteSizes, UdpWrite(n)
  PROVE  TransmitInv'
<1> USE UdpAssumption DEF TransmitInv
<1>1. PICK got : got = Least(n, TxSize)
  OBVIOUS
<1> DEFINE At(p) == {k \in 1..got : (offset + k - 1) % TxSize = p}
<1>2. /\ written \in 0..TxSize
      /\ tx' = [p \in DOMAIN tx |-> IF At(p) = {} THEN tx[p] ELSE written + CHOOSE k \in At(p) : TRUE]
      /\ pointer' = offset + got /\ offset' = offset + got /\ written' = written + got /\ sent' = <<>>
  BY <1>1 DEF UdpWrite
<1>3. got \in Nat
  BY <1>1 DEF Least
<1>4. offset = written /\ offset \in Nat /\ written \in {0, pointer} /\ pointer \in Nat
  BY <1>2
<1> DEFINE Cell1(p) == IF At(p) = {} THEN tx[p] ELSE written + CHOOSE k \in At(p) : TRUE
<1>5. tx' \in [0..(TxSize - 1) -> Nat] /\ \A p \in 0..(TxSize - 1) : tx'[p] = Cell1(p)
  <2>1. ASSUME NEW p \in 0..(TxSize - 1) PROVE Cell1(p) \in Nat
    <3>1. CASE At(p) = {}
      BY <3>1
    <3>2. CASE At(p) # {}
      <4>1. (CHOOSE k \in At(p) : TRUE) \in At(p)
        BY <3>2
      <4>2. (CHOOSE k \in At(p) : TRUE) \in 1..got
        BY <4>1
      <4> HIDE DEF At
      <4> QED
        BY <1>3, <1>4, <3>2, <4>2
    <3> QED
      BY <3>1, <3>2
  <2> HIDE DEF At
  <2>2. tx' = [p \in 0..(TxSize - 1) |-> Cell1(p)]
    BY <1>2
  <2> HIDE DEF Cell1
  <2> QED
    BY <2>1, <2>2
<1>6. ASSUME pointer' <= TxSize, NEW k \in 1..pointer' PROVE tx'[k - 1] = k
  <2>1. ASSUME NEW i \in 1..got PROVE (offset + i - 1) % TxSize = offset + i - 1
    <3>1. offset + i - 1 \in Nat /\ offset + i - 1 < TxSize /\ TxSize \in Nat \ {0}
      BY <1>2, <1>3, <1>4, <1>6
    <3> QED
      BY <3>1, ModSmall
  <2>2. k - 1 \in 0..(TxSize - 1) /\ k \in Nat
    BY <1>2, <1>3, <1>4, <1>6
  <2>3. CASE k <= offset
    <3>1. At(k - 1) = {}
      <4>1. ASSUME NEW i \in 1..got PROVE offset + i - 1 # k - 1
        BY <1>3, <1>4, <2>2, <2>3
      <4> QED
        BY <2>1, <4>1
    <3>2. k \in 1..pointer /\ pointer <= TxSize
      BY <1>2, <1>3, <1>4, <1>6, <2>2, <2>3
    <3> HIDE DEF At
    <3> QED
      BY <1>5, <2>2, <3>1, <3>2
  <2>4. CASE k > offset
    <3>1. PICK j \in 1..got : k = offset + j
      <4>1. k - offset \in 1..got /\ k = offset + (k - offset)
        BY <1>2, <1>3, <1>4, <2>2, <2>4
      <4> QED
        BY <4>1
    <3>2. offset + j - 1 = k - 1
      BY <1>3, <1>4, <3>1
    <3>3. j \in At(k - 1)
      BY <2>1, <3>2
    <3>4. ASSUME NEW i \in At(k - 1) PROVE i = j
      <4>1. i \in 1..got /\ offset + i - 1 = k - 1
        BY <2>1
      <4> HIDE DEF At
      <4> QED
        BY <1>3, <1>4, <3>2, <4>1
    <3> HIDE DEF At
    <3>5. (CHOOSE i \in At(k - 1) : TRUE) = j
      BY <3>3, <3>4
    <3>6. tx'[k - 1] = written + j
      BY <1>5, <2>2, <3>3, <3>5
    <3> QED
      BY <1>4, <3>1, <3>6
  <2> QED
    BY <1>4, <2>2, <2>3, <2>4
<1>7. pointer' \in Nat /\ offset' \in Nat /\ written' \in Nat /\ offset' = written' /\ written' = pointer'
  BY <1>2, <1>3, <1>4
<1>8. SendsWhatWasWritten'
  BY <1>2 DEF SendsWhatWasWritten
<1> HIDE DEF At, Cell1
<1> QED
  BY <1>5, <1>6, <1>7, <1>8

LEMMA EndPacketKeeps ==
  ASSUME TransmitInv, EndPacket
  PROVE  TransmitInv'
<1> USE UdpAssumption DEF TransmitInv
<1>1. /\ sent' \in {<<>>, [k \in 1..pointer |-> tx[(k - 1) % TxSize]]}
      /\ tx' = [p \in DOMAIN tx |-> 0] /\ pointer' = 0 /\ written' = -1 /\ offset' = offset
  BY DEF EndPacket
<1>2. SendsWhatWasWritten'
  <2> SUFFICES ASSUME sent' # <<>>, Len(sent') <= TxSize
               PROVE  sent' = [k \in DOMAIN sent' |-> k]
    BY DEF SendsWhatWasWritten
  <2>1. sent' = [k \in 1..pointer |-> tx[(k - 1) % TxSize]]
    BY <1>1
  <2>2. DOMAIN sent' = 1..pointer /\ Len(sent') = pointer
    BY <2>1
  <2>3. pointer <= TxSize
    BY <2>2
  <2>4. ASSUME NEW k \in 1..pointer PROVE tx[(k - 1) % TxSize] = k
    <3>1. k - 1 \in 0..(TxSize - 1)
      BY <2>3
    <3>2. k - 1 \in Nat /\ k - 1 < TxSize /\ TxSize \in Nat \ {0}
      BY <3>1
    <3>3. (k - 1) % TxSize = k - 1
      BY <3>2, ModSmall
    <3> QED
      BY <2>3, <3>3
  <2> QED
    BY <2>1, <2>2, <2>4
<1> QED
  BY <1>1, <1>2

LEMMA TransmitStep ==
  ASSUME TransmitInv, [UdpNext]_udpVars
  PROVE  TransmitInv'
<1> USE UdpAssumption DEF TransmitInv
<1>1. CASE UdpBegin
  BY <1>1 DEF UdpBegin, SendsWhatWasWritten
<1>2. CASE BeginPacket
  BY <1>2 DEF BeginPacket, SendsWhatWasWritten
<1>3. ASSUME UNCHANGED transmitVars PROVE TransmitInv'
  BY <1>3 DEF transmitVars, SendsWhatWasWritten
<1>4. ASSUME NEW n \in ReadSizes, UdpRead(n) PROVE TransmitInv'
  BY <1>3, <1>4 DEF UdpRead
<1>5. CASE Arrive \/ UdpStop \/ ParsePacket
  BY <1>3, <1>5 DEF Arrive, UdpStop, ParsePacket
<1>6. CASE UNCHANGED udpVars
  BY <1>3, <1>6 DEF udpVars
<1> QED
  BY <1>1, <1>2, <1>4, <1>5, <1>6, WriteKeeps, EndPacketKeeps DEF UdpNext

\* Datagrams are neither mixed nor cut, whatever a sketch leaves unread and in whatever pieces
\* it writes (EthernetUdp.cpp, lines 73-166, socket.cpp, lines 398-418, 483-497), for every
\* number and length of datagrams and every size of the two memories.
THEOREM DatagramsWholeHolds == UdpInit /\ [][UdpNext]_udpVars => []DatagramsWhole
<1> DEFINE UdpInv == ReceiveInv /\ TransmitInv
<1>1. UdpInit => UdpInv
  <2> SUFFICES ASSUME UdpInit PROVE UdpInv
    OBVIOUS
  <2>1. ReceiveInv
    BY DEF UdpInit, ReceiveInv
  <2>2. TransmitInv
    BY UdpAssumption DEF UdpInit, TransmitInv, SendsWhatWasWritten
  <2> QED
    BY <2>1, <2>2
<1>2. UdpInv /\ [UdpNext]_udpVars => UdpInv'
  BY ReceiveStep, TransmitStep
<1>3. UdpInv => DatagramsWhole
  <2> SUFFICES ASSUME UdpInv PROVE DatagramsWhole
    OBVIOUS
  <2>1. HeadersFound
    <3> SUFFICES ASSUME udp
                 PROVE  /\ remaining <= Len(rx)
                        /\ Drop(rx, remaining) # <<>> => Drop(rx, remaining)[1][2] = 0
      BY DEF HeadersFound
    <3>1. PICK S : S = Nat \X Nat
      OBVIOUS
    <3>2. rx \in Seq(S) /\ remaining \in 0..Len(rx) /\ Len(rx) \in Nat
      BY <3>1 DEF ReceiveInv, Rest
    <3>3. PICK next : next = Drop(rx, remaining)
      OBVIOUS
    <3>4. /\ next \in Seq(S) /\ Len(next) = Len(rx) - remaining
          /\ \A i \in 1..(Len(rx) - remaining) : next[i] = rx[remaining + i]
      BY <3>2, <3>3, DropOf
    <3>5. ASSUME next # <<>> PROVE next[1][2] = 0
      <4>1. Len(next) \in Nat /\ Len(next) > 0 /\ Len(next) = Len(rx) - remaining
        BY <3>4, <3>5
      <4>2. remaining < Len(rx) /\ 1 \in 1..(Len(rx) - remaining)
        BY <3>2, <4>1
      <4>3. next[1] = rx[remaining + 1]
        BY <3>4, <4>2
      <4> QED
        BY <4>2, <4>3 DEF ReceiveInv, Rest
    <3> QED
      BY <3>2, <3>3, <3>5
  <2>2. ReadsOneDatagram
    <3>1. \A k \in DOMAIN taken : taken[k] = <<remote, k>>
      <4>1. PICK S : S = Nat \X Nat
        OBVIOUS
      <4>2. taken \in Seq(S) /\ \A k \in 1..Len(taken) : taken[k] = <<remote, k>>
        BY <4>1 DEF ReceiveInv
      <4>3. DOMAIN taken = 1..Len(taken)
        BY <4>2, LenProperties
      <4> QED
        BY <4>2, <4>3
    <3>2. remaining > 0 /\ remote # 0 => remaining + Len(taken) = sizes[remote]
      BY DEF ReceiveInv, Rest
    <3> QED
      BY <3>1, <3>2 DEF ReadsOneDatagram
  <2>3. SendsWhatWasWritten
    BY DEF TransmitInv
  <2> QED
    BY <2>1, <2>2, <2>3 DEF DatagramsWhole
<1> HIDE DEF UdpInv
<1> QED
  BY <1>1, <1>2, <1>3, PTL

-----------------------------------------------------------------------------
(* The DHCP client: the address in use is an acknowledged one, the counters *)
(* of a lease are exact, and a renewal is never late, for every set of      *)
(* servers and options, every clock width and every pattern of calls.       *)

\* TypeOK without the bound on the seconds, which is TLC's.
LeaseTypes ==
  /\ dhcp_state \in State
  /\ {leaseTime, T1, T2, renewInSec, rebindInSec} \subseteq Nat
  /\ {localIp, serverIp, chipIp, acked} \subseteq Server \cup {None}
  /\ now \in 0..(CLOCKMOD - 1) /\ last \in 0..(CLOCKMOD - 1) /\ age \in Nat
  /\ pc \in {"off", "idle", "open", "loop", "check"}
  /\ rcBase \in {0, 1, 3} /\ rc \in 0..4

\* A lease is held between calls only: whatever call goes on has left the
\* state LEASED, so no message can touch the counters of a lease.
LeasedIdle == dhcp_state = "LEASED" => pc = "idle"

LeaseInv == LeaseTypes /\ LeasedIdle /\ ChipUsesAcked /\ NoDrift
-----------------------------------------------------------------------------
\* A quotient from a product and a difference.
LEMMA QuotientLess ==
  ASSUME NEW a \in Nat, NEW t \in Nat, NEW n \in Nat \ {0}, NEW d \in Nat \ {0},
         NEW g \in 0..(d - 1), n * d + (a - g) = t * d
  PROVE  a \div d < t
<1>1. (t - n) * d = t * d - n * d /\ (t - n + 1) * d = (t - n) * d + d
  OBVIOUS
<1>2. a = (t - n) * d + g
  BY <1>1
<1>3. (t - n + 1) * d > 0
  BY <1>1, <1>2
<1>4. t - n + 1 > 0
  BY <1>3
<1>5. t - n \in Nat
  BY <1>4
<1> QED
  BY <1>2, <1>5, DivUnique

\* The ticks since the last count, after a tick and after a count.
LEMMA GapIsNat == LeaseTypes => gap \in 0..(CLOCKMOD - 1)
  BY DhcpAssumption DEF LeaseTypes, gap

LEMMA GapTicks ==
  ASSUME LeaseTypes, gap < CLOCKMOD - 1, now' = (now + 1) % CLOCKMOD, last' = last
  PROVE  gap' = gap + 1
  BY DhcpAssumption DEF LeaseTypes, gap

LEMMA GapCounted ==
  ASSUME LeaseTypes, NEW r \in Nat, r < CLOCKMOD, now' = now,
         last' = (now + CLOCKMOD - r) % CLOCKMOD
  PROVE  last' \in 0..(CLOCKMOD - 1) /\ gap' = r
  BY DhcpAssumption DEF LeaseTypes, gap
-----------------------------------------------------------------------------
LEMMA InitLease == Init => LeaseInv
  BY DhcpAssumption DEF Init, LeaseInv, LeaseTypes, LeasedIdle, ChipUsesAcked, NoDrift, State

\* A call of maintain() while the lease lasts: what it leaves of a counter and
\* the ticks it leaves uncounted make up what it found.
LEMMA MaintainCounts ==
  ASSUME LeaseInv, Maintain, dhcp_state = "LEASED"
  PROVE  /\ gap' \in 0..(TICKS - 1)
         /\ renewInSec' > 0 => renewInSec' * TICKS + (age - gap') = T1 * TICKS
         /\ rebindInSec' > 0 => rebindInSec' * TICKS + (age - gap') = T2 * TICKS
<1> USE DhcpAssumption
<1> DEFINE secs == gap \div TICKS
           rest == gap % TICKS
<1>1. gap \in Nat /\ gap < CLOCKMOD /\ age \in Nat /\ renewInSec \in Nat /\ rebindInSec \in Nat
      /\ T1 \in Nat /\ T2 \in Nat /\ last \in 0..(CLOCKMOD - 1) /\ now' = now
  BY GapIsNat DEF LeaseInv, LeaseTypes, Maintain
<1>2. secs \in Nat /\ rest \in 0..(TICKS - 1) /\ gap = secs * TICKS + rest /\ rest <= gap
  BY <1>1, DivMod
<1>3. /\ renewInSec > 0 => renewInSec * TICKS + (age - gap) = T1 * TICKS
      /\ rebindInSec > 0 => rebindInSec * TICKS + (age - gap) = T2 * TICKS
  BY DEF LeaseInv, NoDrift, LeasedIdle
<1>4. CASE secs > 0
  <2>1. /\ last' = (now + CLOCKMOD - rest) % CLOCKMOD
        /\ renewInSec' = CountDown(renewInSec, secs)
        /\ rebindInSec' = CountDown(rebindInSec, secs)
    BY <1>4 DEF Maintain
  <2>2. last' \in 0..(CLOCKMOD - 1) /\ gap' = rest
    <3> HIDE DEF rest
    <3> QED
      BY <1>1, <1>2, <2>1, GapCounted DEF LeaseInv
  <2> HIDE DEF secs, rest
  <2>3. ASSUME NEW n \in Nat, NEW total \in Nat, n * TICKS + (age - gap) = total * TICKS,
               CountDown(n, secs) > 0
        PROVE  CountDown(n, secs) * TICKS + (age - rest) = total * TICKS
    <3>1. CountDown(n, secs) = n - secs
      BY <2>3, <1>2 DEF CountDown
    <3>2. (n - secs) * TICKS = n * TICKS - secs * TICKS
      BY <1>2
    <3> QED
      BY <3>1, <3>2, <2>3, <1>1, <1>2
  <2>4. \A n \in Nat : CountDown(n, secs) \in Nat /\ (CountDown(n, secs) > 0 => n > 0)
    BY <1>2, <1>4 DEF CountDown
  <2> QED
    BY <1>1, <1>2, <1>3, <2>1, <2>2, <2>3, <2>4
<1>5. CASE ~(secs > 0)
  <2>1. last' = last /\ renewInSec' = renewInSec /\ rebindInSec' = rebindInSec
    BY <1>5 DEF Maintain
  <2>2. gap' = gap
    BY <1>1, <2>1 DEF gap
  <2>3. gap < TICKS
    <3>1. secs = 0
      BY <1>2, <1>5
    <3> HIDE DEF secs, rest
    <3> QED
      BY <1>2, <3>1
  <2> QED
    BY <1>1, <1>3, <2>1, <2>2, <2>3
<1> QED
  BY <1>4, <1>5

\* Only Ack takes a lease; any other step of a request ends in another state.
LEMMA RebindLeavesLease ==
  ASSUME NEW rebind, NEW state \in State, NEW newRc, CheckRebind(rebind, state, newRc)
  PROVE  \/ /\ dhcp_state' = state /\ pc' = "idle" /\ rc' = newRc
            /\ UNCHANGED <<addrVars, rcBase>>
         \/ /\ dhcp_state' = "START" /\ pc' = "open" /\ rcBase' = 3 /\ UNCHANGED rc
            /\ localIp' = None /\ serverIp' = None
  BY DEF CheckRebind

LEMMA MaintainInv == LeaseInv /\ Maintain => LeaseInv'
<1> SUFFICES ASSUME LeaseInv, Maintain PROVE LeaseInv'
  OBVIOUS
<1>0. gap \in Nat /\ gap \div TICKS \in Nat /\ gap % TICKS \in Nat /\ gap % TICKS < CLOCKMOD
  <2>1. gap \in 0..(CLOCKMOD - 1)
    BY GapIsNat DEF LeaseInv
  <2>2. gap \in Nat /\ gap < CLOCKMOD /\ TICKS \in Nat \ {0} /\ CLOCKMOD \in Nat
    BY <2>1, DhcpAssumption
  <2> QED
    BY <2>2, DivMod
<1> USE DhcpAssumption DEF LeaseInv, LeaseTypes, LeasedIdle, ChipUsesAcked, NoDrift, State, addrVars
<1>1. last' \in 0..(CLOCKMOD - 1) /\ {renewInSec', rebindInSec'} \subseteq Nat
  <2>2. \A n \in Nat : CountDown(n, gap \div TICKS) \in Nat
    BY <1>0 DEF CountDown
  <2>3. last' \in 0..(CLOCKMOD - 1)
    BY <1>0, GapCounted DEF Maintain
  <2> QED
    BY <1>0, <2>2, <2>3 DEF Maintain
<1>2. UNCHANGED <<leaseTime, T1, T2, chipIp, now, age, acked>>
  BY DEF Maintain
<1>3. CASE dhcp_state' = "REREQUEST" /\ pc' = "open" /\ rcBase' = 1 /\ UNCHANGED <<addrVars, rc>>
  BY <1>1, <1>2, <1>3
<1>4. ASSUME NEW rebind, CheckRebind(rebind, dhcp_state, 0) PROVE LeaseInv'
  <2>1. LeaseTypes' /\ LeasedIdle' /\ ChipUsesAcked'
    BY <1>1, <1>2, <1>4, RebindLeavesLease
  <2>2. NoDrift'
    BY <1>2, <1>4, MaintainCounts, RebindLeavesLease
  <2> QED
    BY <2>1, <2>2
<1> QED
  BY <1>3, <1>4 DEF Maintain

\* The steps of a request: none but Ack ends with a lease.
LEMMA RequestKeeps ==
  ASSUME LeaseInv, Request
  PROVE  LeaseInv'
<1> USE DhcpAssumption DEF LeaseInv, LeaseTypes, LeasedIdle, ChipUsesAcked, NoDrift, State,
        leaseVars, addrVars, timeVars
<1>1. CASE OpenOk \/ Send \/ NoAnswer \/ Ignored \/ Again
  BY <1>1 DEF OpenOk, Send, NoAnswer, Ignored, Again
<1>2. CASE OpenFails \/ GiveUp
  <2>1. dhcp_state # "LEASED" /\ dhcp_state \in State
    BY <1>2 DEF OpenFails, GiveUp
  <2>2. /\ UNCHANGED <<leaseVars, chipIp, now, age, acked>>
        /\ last' \in {last, now}
    BY <1>2 DEF OpenFails, GiveUp
  <2>3. CASE rcBase = 1
    <3>1. CheckRebind(rebindInSec, dhcp_state, 1)
      BY <1>2, <2>3 DEF OpenFails, GiveUp
    <3> QED
      BY <2>1, <2>2, <3>1, RebindLeavesLease
  <2>4. CASE rcBase # 1
    <3>1. pc' = "idle" /\ rc' = rcBase /\ UNCHANGED <<rcBase, dhcp_state, addrVars>>
      BY <1>2, <2>4 DEF OpenFails, GiveUp
    <3> QED
      BY <2>1, <2>2, <3>1
  <2> QED
    BY <2>3, <2>4
<1>3. ASSUME NEW m \in Message, Answer(m) PROVE LeaseInv'
  <2>1. {leaseTime', T1', T2', renewInSec'} \subseteq Nat
    BY <1>3 DEF Answer, Message, Option
  <2>2. {localIp', serverIp'} \subseteq Server \cup {None}
    BY <1>3 DEF Answer, Message, Parse
  <2>3. dhcp_state' \in State \ {"LEASED"}
    BY <1>3 DEF Answer
  <2> QED
    BY <1>3, <2>1, <2>2, <2>3 DEF Answer
<1>4. ASSUME NEW m \in Message, Ack(m) PROVE LeaseInv'
  <2>1. {leaseTime', T1', T2'} \subseteq Nat
    <3>1. leaseTime' \in Nat
      BY <1>4 DEF Ack, Message, Option
    <3>2. leaseTime' \div 2 \in Nat /\ leaseTime' - leaseTime' \div 8 \in Nat
      BY <3>1
    <3> QED
      BY <1>4, <3>1, <3>2 DEF Ack, Message, Option
  <2>2. {localIp', serverIp', chipIp', acked'} \subseteq Server \cup {None}
    BY <1>4 DEF Ack, Message, Parse
  <2>3. gap' = 0
    BY <1>4 DEF Ack, gap
  <2> HIDE DEF gap
  <2>4. NoDrift'
    BY <1>4, <2>1, <2>3 DEF Ack
  <2> QED
    BY <1>4, <2>1, <2>2, <2>4 DEF Ack
<1> QED
  BY <1>1, <1>2, <1>3, <1>4 DEF Request

LEMMA StepLease == LeaseInv /\ [Next]_vars => LeaseInv'
<1> SUFFICES ASSUME LeaseInv, [Next]_vars PROVE LeaseInv'
  OBVIOUS
<1> USE DhcpAssumption DEF LeaseInv, LeaseTypes, LeasedIdle, ChipUsesAcked, NoDrift, State,
        leaseVars, addrVars, timeVars
<1>1. CASE Tick
  <2>1. gap \in Nat /\ gap' = gap + 1
    BY <1>1, GapIsNat, GapTicks DEF Tick
  <2>2. LeaseTypes' /\ LeasedIdle' /\ ChipUsesAcked'
    BY <1>1 DEF Tick
  <2> HIDE DEF gap
  <2>3. NoDrift'
    BY <1>1, <2>1 DEF Tick
  <2> QED
    BY <2>2, <2>3
<1>2. CASE Begin
  BY <1>2 DEF Begin
<1>3. CASE Maintain
  BY <1>3, MaintainInv
<1>4. CASE Request
  BY <1>4, RequestKeeps
<1>5. CASE UNCHANGED vars
  BY <1>5 DEF vars, gap
<1> QED
  BY <1>1, <1>2, <1>3, <1>4, <1>5 DEF Next

LEMMA LeaseInvHolds == Spec => []LeaseInv
  BY InitLease, StepLease, PTL DEF Spec
-----------------------------------------------------------------------------
\* The chip never uses an address that no server has acknowledged (Ethernet.cpp,
\* lines 38-50, 128-155): whatever else servers send, and however often the
\* sketch begins anew.
THEOREM ChipUsesAckedHolds == Spec => []ChipUsesAcked
  BY LeaseInvHolds, PTL DEF LeaseInv

\* The counters of a lease are exact for every clock width and every pattern of
\* calls less than a wrap apart (Dhcp.cpp, lines 352-366).
THEOREM NoDriftHolds == Spec => []NoDrift
  BY LeaseInvHolds, PTL DEF LeaseInv

LEMMA MaintainRenews ==
  LeaseInv /\ LeaseInv' /\ [Next]_vars =>
    [Maintain /\ dhcp_state = "LEASED" /\ pc' = "idle" => age \div TICKS < T1]_vars
<1> SUFFICES ASSUME LeaseInv, LeaseInv', Maintain, dhcp_state = "LEASED", pc' = "idle"
             PROVE  age \div TICKS < T1
  OBVIOUS
<1> USE DhcpAssumption
<1>1. renewInSec' # 0
  BY DEF Maintain
<1>2. renewInSec' \in Nat /\ T1 \in Nat /\ age \in Nat
  BY DEF LeaseInv, LeaseTypes
<1>3. renewInSec' * TICKS + (age - gap') = T1 * TICKS /\ gap' \in 0..(TICKS - 1)
  BY <1>1, <1>2, MaintainCounts
<1> QED
  BY <1>1, <1>2, <1>3, QuotientLess

\* A maintain() that leaves a lease alone finds it younger than T1, so a sketch
\* that keeps calling it renews in time for all the rounding (Dhcp.cpp, lines 352-383).
THEOREM RenewsByT1Holds == Spec => RenewsByT1
  BY LeaseInvHolds, MaintainRenews, PTL DEF Spec, RenewsByT1
=============================================================================

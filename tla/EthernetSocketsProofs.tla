----------------------- MODULE EthernetSocketsProofs -----------------------
(***************************************************************************)
(* Proofs about EthernetSockets for every number of sockets, client        *)
(* variables, servers and connections, and for sketches that make any of   *)
(* the calls: a server listens on one socket at most and its table names   *)
(* the connections that came to it, accept() returns each of them once,    *)
(* and no open socket is forgotten.                                        *)
(***************************************************************************)
EXTENDS EthernetSockets, NatLemmas

\* The numbers of connections that anything in the state names.
Named == {conn[s] : s \in Sock} \cup {own[c] : c \in Client} \cup incoming \cup {0}

SocketTypes ==
  /\ status \in [Sock -> Status]
  /\ server_port \in [Sock -> Ports \cup {0}]
  /\ rx \in [Sock -> BOOLEAN]
  /\ sock \in [Client -> Sock \cup {MAX_SOCK_NUM}]
  /\ pc \in {"idle", "open", "connect", "stop", "scan", "begin"}
  /\ cl \in Client /\ op \in {"accept", "available"} /\ port \in Ports
  /\ pc = "scan" => i \in Sock
  /\ listening \in BOOLEAN /\ sockindex \in Sock \cup {MAX_SOCK_NUM}
  /\ conn \in [Sock -> Nat] /\ own \in [Client -> Nat] /\ incoming \subseteq Nat
  /\ via \in [Client -> {"none", "connect", "accept", "available"}]

\* The variable a call is for: free while it is to be given a handle, in
\* possession of one while the call works on its socket.
CallHandle ==
  /\ pc \in {"open", "scan", "begin"} => sock[cl] = MAX_SOCK_NUM
  /\ pc \in {"connect", "stop"} => sock[cl] # MAX_SOCK_NUM

\* A socket that is about to be opened for a client is in no server's table.
SynsentPrivate == \A s \in Sock : status[s] = "SYNSENT" => server_port[s] = 0

\* At most one socket listens on a port.  A scan that has seen no listening
\* socket so far leaves none behind it.
OneListener ==
  /\ \A s, t \in Sock :
       status[s] = "LISTEN" /\ status[t] = "LISTEN" /\ server_port[s] = server_port[t] => s = t
  /\ \A s \in Sock : status[s] = "LISTEN" => server_port[s] # 0
  /\ pc \in {"scan", "begin"} /\ ~listening =>
       \A s \in Sock : status[s] = "LISTEN" /\ server_port[s] = port => pc = "scan" /\ s >= i

\* Connections are numbered as they are made: no two sockets had the same one,
\* and what accept() has returned has left the table.
NumberInv ==
  /\ Named \subseteq 0..MaxConns
  /\ pc = "open" => \A n \in Named : n < MaxConns
  /\ \A s, t \in Sock : s # t /\ conn[s] # 0 => conn[s] # conn[t]
  /\ given \subseteq incoming /\ 0 \notin incoming
  /\ \A s \in Sock : server_port[s] # 0 /\ status[s] \in Connected => conn[s] \notin given

\* Whoever has to let go of an open socket: its server, a variable that connected or
\* accepted, or the accept() that is about to return it.  A handle of available() does
\* not count, for it may go out of scope at any time.
Kept ==
  \A s \in Sock :
    status[s] \in Connected \cup {"LISTEN", "SYNSENT"} =>
      \/ server_port[s] # 0
      \/ \E c \in Client : sock[c] = s /\ via[c] \in {"connect", "accept"}
      \/ pc \in {"scan", "begin"} /\ op = "accept" /\ sockindex = s

TableInv == SocketTypes /\ CallHandle /\ SynsentPrivate /\ OneListener /\ TableIsIncoming
-----------------------------------------------------------------------------
LEMMA SockFacts ==
  /\ IsFiniteSet(Sock) /\ Sock \in SUBSET Nat /\ 0 \notin Sock
  /\ Min(Sock) = 1 /\ 1 \in Sock /\ Max(Sock) \in Sock
  /\ \A s \in Sock : s >= 1 /\ s <= Max(Sock) /\ (s # Max(Sock) => s + 1 \in Sock)
<1> DEFINE n == Cardinality(Sock)
<1>1. n \in Nat /\ Sock = 1 .. n /\ Sock # {} /\ IsFiniteSet(Sock)
  BY SocketAssumption, FS_CardinalityType
<1> HIDE DEF n
<1>2. Sock \in SUBSET (0 .. n) /\ Sock \in SUBSET Nat
  BY <1>1
<1>3. Max(Sock) \in Sock /\ \A s \in Sock : s <= Max(Sock)
  BY <1>1, <1>2, MaxOf
<1>4. 1 \in Sock /\ n \in Sock
  BY <1>1
<1>5. Max(Sock) = n
  BY <1>1, <1>3, <1>4
<1>6. Min(Sock) = 1
  BY <1>1, <1>2, <1>4, MinOf
<1> QED
  BY <1>1, <1>2, <1>3, <1>4, <1>5, <1>6

\* socketBegin never takes a socket that is in use.
LEMMA BeginFree ==
  ASSUME SocketTypes, BeginSocket # MAX_SOCK_NUM
  PROVE  BeginSocket \in Sock /\ status[BeginSocket] \in {"CLOSED"} \cup Closing
<1> DEFINE closed == {s \in Sock : status[s] = "CLOSED"}
           closing == {s \in Sock : status[s] \in Closing}
<1>1. closed \in SUBSET Nat /\ closing \in SUBSET Nat
  BY SockFacts
<1>2. closed # {} => Min(closed) \in closed
  <2> HIDE DEF closed
  <2> QED
    BY <1>1, MinOf
<1>3. closing # {} => Min(closing) \in closing
  <2> HIDE DEF closing
  <2> QED
    BY <1>1, MinOf
<1>4. BeginSocket = IF closed # {} THEN Min(closed)
                    ELSE IF closing = {} THEN MAX_SOCK_NUM ELSE Min(closing)
  BY DEF BeginSocket
<1> QED
  BY <1>2, <1>3, <1>4

\* A step of a scan: the next socket, or the end when all have been looked at.
LEMMA AdvanceTo ==
  ASSUME SocketTypes, pc = "scan", Advance
  PROVE  \/ pc' = "begin" /\ i' = i /\ \A s \in Sock : s <= i
         \/ pc' = "scan" /\ i' = i + 1 /\ i' \in Sock
  BY SockFacts DEF SocketTypes, Advance

LEMMA InitTable == Init => TableInv
<1> SUFFICES ASSUME Init PROVE TableInv
  OBVIOUS
<1>1. SocketTypes
  BY DEF Init, SocketTypes, Status
<1>2. CallHandle /\ SynsentPrivate /\ OneListener /\ TableIsIncoming
  BY DEF Init, CallHandle, SynsentPrivate, OneListener, TableIsIncoming, Connected
<1> QED
  BY <1>1, <1>2 DEF TableInv

\* The chip and the peers open no listening socket and enter nothing in a table.
LEMMA ChipTable ==
  ASSUME TableInv, NEW s \in Sock,
         PeerConnects(s) \/ PeerAnswers(s) \/ PeerSends(s) \/ PeerFin(s) \/ ChipCloses(s),
         made \in Nat
  PROVE  TableInv'
<1> USE DEF TableInv, SocketTypes, Status, Connected, Closing, clientVars, callVars, Chip
<1>1. /\ UNCHANGED <<server_port, clientVars, pc, cl, callVars>>
      /\ \A t \in Sock : t # s => status'[t] = status[t] /\ conn'[t] = conn[t]
      /\ incoming \subseteq incoming'
      /\ status'[s] \in {"ESTABLISHED", "CLOSE_WAIT", "FIN_WAIT", "TIME_WAIT", "CLOSED"}
  BY DEF PeerConnects, PeerAnswers, PeerSends, PeerFin, ChipCloses
<1>2. SocketTypes'
  <2>1. status' \in [Sock -> Status] /\ rx' \in [Sock -> BOOLEAN]
    BY <1>1 DEF PeerConnects, PeerAnswers, PeerSends, PeerFin, ChipCloses
  <2>2. conn' \in [Sock -> Nat] /\ incoming' \subseteq Nat
    BY <1>1 DEF PeerConnects, PeerAnswers, PeerSends, PeerFin, ChipCloses
  <2> QED
    BY <1>1, <2>1, <2>2
<1>3. CallHandle'
  BY <1>1 DEF CallHandle
<1>4. SynsentPrivate'
  BY <1>1 DEF SynsentPrivate
<1>5. OneListener'
  BY <1>1 DEF OneListener
<1>6. TableIsIncoming'
  <2>1. server_port[s] # 0 /\ status'[s] \in Connected => conn'[s] \in incoming'
    <3>1. CASE PeerConnects(s)
      BY <3>1 DEF PeerConnects
    <3>2. CASE PeerAnswers(s)
      BY <3>2 DEF PeerAnswers, SynsentPrivate
    <3>3. CASE PeerSends(s) \/ PeerFin(s) \/ ChipCloses(s)
      BY <3>3 DEF PeerSends, PeerFin, ChipCloses, TableIsIncoming
    <3> QED
      BY <3>1, <3>2, <3>3
  <2> QED
    BY <1>1, <2>1 DEF TableIsIncoming
<1> QED
  BY <1>2, <1>3, <1>4, <1>5, <1>6

\* A call of a scan looks at socket i: it may take that socket out of the table,
\* and a listening one is remembered.
LEMMA LookTable ==
  ASSUME TableInv, AvailableLook \/ AcceptLook
  PROVE  TableInv'
<1> USE DEF TableInv, SocketTypes, Status, Connected, Closing, clientVars, chipVars
<1>1. /\ pc = "scan" /\ i \in Sock /\ Advance
      /\ UNCHANGED <<rx, conn, incoming, clientVars, cl, op, port>>
      /\ listening' = (listening \/ (server_port[i] = port /\ status[i] = "LISTEN"))
      /\ \A s \in Sock : s # i => status'[s] = status[s] /\ server_port'[s] = server_port[s]
      /\ status'[i] \in {status[i], "LAST_ACK"}
      /\ server_port'[i] \in {server_port[i], 0}
      /\ server_port'[i] # server_port[i] => status[i] \in {"CLOSED"} \cup Connected
      /\ sockindex' \in {sockindex, i}
      /\ status' \in [Sock -> Status] /\ server_port' \in [Sock -> Ports \cup {0}]
  BY DEF AvailableLook, AcceptLook
<1>2. \/ pc' = "begin" /\ i' = i /\ \A s \in Sock : s <= i
      \/ pc' = "scan" /\ i' = i + 1 /\ i' \in Sock
  BY <1>1, AdvanceTo
<1>3. SocketTypes' /\ CallHandle'
  BY <1>1, <1>2 DEF CallHandle
<1>4. SynsentPrivate'
  BY <1>1 DEF SynsentPrivate
<1>5. OneListener'
  <2>1. \A s \in Sock : status'[s] = "LISTEN" =>
           status[s] = "LISTEN" /\ server_port'[s] = server_port[s]
    BY <1>1
  <2>2. ASSUME pc' \in {"scan", "begin"}, ~listening', NEW s \in Sock, status'[s] = "LISTEN",
               server_port'[s] = port'
        PROVE  pc' = "scan" /\ s >= i'
    <3>1. ~listening /\ s >= i /\ s # i
      BY <1>1, <2>1, <2>2 DEF OneListener
    <3>2. s \in Nat /\ i \in Nat
      BY <1>1, SockFacts
    <3> QED
      BY <1>2, <3>1, <3>2
  <2> QED
    BY <2>1, <2>2 DEF OneListener
<1>6. TableIsIncoming'
  BY <1>1 DEF TableIsIncoming
<1> QED
  BY <1>3, <1>4, <1>5, <1>6

\* begin() after a scan that saw no listening socket: the one it opens is the only one.
LEMMA ReturnTable ==
  ASSUME TableInv, ScanReturn
  PROVE  TableInv'
<1> USE DEF TableInv, SocketTypes, Status, Connected, Closing, clientVars, callVars
<1> DEFINE b == IF listening THEN MAX_SOCK_NUM ELSE BeginSocket
<1>1. pc = "begin" /\ pc' = "idle" /\ UNCHANGED <<conn, incoming, cl, callVars>>
  BY DEF ScanReturn
<1>2. \/ UNCHANGED clientVars
      \/ /\ sockindex # MAX_SOCK_NUM
         /\ sock' = [sock EXCEPT ![cl] = sockindex]
         /\ own' = [own EXCEPT ![cl] = conn[sockindex]]
         /\ via' = [via EXCEPT ![cl] = op]
  BY DEF ScanReturn
<1>3. /\ sock' \in [Client -> Sock \cup {MAX_SOCK_NUM}] /\ own' \in [Client -> Nat]
      /\ via' \in [Client -> {"none", "connect", "accept", "available"}]
  BY <1>2
<1>4. CASE b = MAX_SOCK_NUM
  <2>1. UNCHANGED <<status, rx, server_port>>
    BY <1>4 DEF ScanReturn
  <2> QED
    BY <1>1, <1>3, <2>1 DEF CallHandle, SynsentPrivate, OneListener, TableIsIncoming
<1>5. CASE b # MAX_SOCK_NUM
  <2>1. ~listening /\ b \in Sock /\ status[b] \in {"CLOSED"} \cup Closing
    BY <1>5, BeginFree
  <2> HIDE DEF b
  <2>2. /\ status' = [status EXCEPT ![b] = "LISTEN"]
        /\ rx' = [rx EXCEPT ![b] = FALSE]
        /\ server_port' = [server_port EXCEPT ![b] = port]
    BY <1>5 DEF ScanReturn, b
  <2>3. port # 0
    BY SocketAssumption
  <2>4. SocketTypes' /\ CallHandle'
    BY <1>1, <1>3, <2>1, <2>2 DEF CallHandle
  <2>5. OneListener'
    BY <1>1, <2>1, <2>2, <2>3 DEF OneListener
  <2>6. SynsentPrivate' /\ TableIsIncoming'
    BY <1>1, <2>1, <2>2 DEF SynsentPrivate, TableIsIncoming
  <2> QED
    BY <2>4, <2>5, <2>6
<1> QED
  BY <1>4, <1>5

\* The calls of a client variable open no listening socket either.
LEMMA ClientTable ==
  ASSUME TableInv, NEW c \in Client,
         Connect(c) \/ Stop(c) \/ Read(c) \/ Leave(c)
  PROVE  TableInv'
<1> USE DEF TableInv, SocketTypes, Status, Connected, Closing, clientVars, callVars, chipVars
<1>1. CASE Connect(c) \/ Stop(c)
  <2>1. /\ UNCHANGED <<rx, conn, incoming, server_port, callVars>>
        /\ status' = [t \in Sock |-> IF t = sock[c] THEN AfterDiscon(status[t]) ELSE status[t]]
    BY <1>1, SockFacts DEF Connect, Stop, MAX_SOCK_NUM
  <2>2. \A t \in Sock : /\ status'[t] \in Status
                        /\ status'[t] \in {status[t], "FIN_WAIT", "LAST_ACK", "CLOSED"}
    BY <2>1 DEF AfterDiscon
  <2>3. pc' \in {"open", "stop"} /\ cl' = c
    BY <1>1 DEF Connect, Stop
  <2>4. SocketTypes' /\ CallHandle'
    BY <1>1, <2>1, <2>2, <2>3 DEF Connect, Stop, CallHandle
  <2>5. SynsentPrivate' /\ TableIsIncoming'
    BY <2>1, <2>2 DEF SynsentPrivate, TableIsIncoming
  <2>6. OneListener'
    BY <2>1, <2>2, <2>3 DEF OneListener
  <2> QED
    BY <2>4, <2>5, <2>6
<1>2. CASE Read(c)
  BY <1>2 DEF Read, CallHandle, SynsentPrivate, OneListener, TableIsIncoming
<1>3. CASE Leave(c)
  BY <1>3 DEF Leave, CallHandle, SynsentPrivate, OneListener, TableIsIncoming
<1> QED
  BY <1>1, <1>2, <1>3

\* Opening a socket for a connection of the sketch's own takes it from its server.
LEMMA ConnectTable ==
  ASSUME TableInv, ConnectOpen \/ ConnectDone \/ ConnectTimeout \/ StopDone, made \in Nat
  PROVE  TableInv'
<1> USE DEF TableInv, SocketTypes, Status, Connected, Closing, clientVars, callVars, chipVars
<1>1. CASE ConnectOpen /\ BeginSocket = MAX_SOCK_NUM
  <2>1. pc' = "idle" /\ UNCHANGED <<chipVars, server_port, clientVars, cl, callVars>>
    BY <1>1 DEF ConnectOpen
  <2> QED
    BY <2>1 DEF CallHandle, SynsentPrivate, OneListener, TableIsIncoming
<1>2. CASE ConnectOpen /\ BeginSocket # MAX_SOCK_NUM
  <2> DEFINE b == BeginSocket
  <2>1. b \in Sock /\ b # MAX_SOCK_NUM /\ status[b] \in {"CLOSED"} \cup Closing
    BY <1>2, BeginFree
  <2> HIDE DEF b
  <2>2. /\ status' = [status EXCEPT ![b] = "SYNSENT"]
        /\ rx' = [rx EXCEPT ![b] = FALSE]
        /\ conn' = [conn EXCEPT ![b] = made + 1]
        /\ server_port' = [server_port EXCEPT ![b] = 0]
        /\ sock' = [sock EXCEPT ![cl] = b]
        /\ own' = [own EXCEPT ![cl] = made + 1]
        /\ via' = [via EXCEPT ![cl] = "connect"]
        /\ pc' = "connect" /\ UNCHANGED <<incoming, cl, callVars>>
    BY <1>2 DEF ConnectOpen, b
  <2>3. SocketTypes' /\ CallHandle'
    BY <2>1, <2>2 DEF CallHandle
  <2>4. SynsentPrivate' /\ OneListener' /\ TableIsIncoming'
    BY <2>1, <2>2 DEF SynsentPrivate, OneListener, TableIsIncoming
  <2> QED
    BY <2>3, <2>4
<1>3. CASE ConnectDone
  BY <1>3 DEF ConnectDone, CallHandle, SynsentPrivate, OneListener, TableIsIncoming
<1>4. CASE ConnectTimeout \/ StopDone
  <2>1. /\ status' = [status EXCEPT ![sock[cl]] = "CLOSED"]
        /\ sock' = [sock EXCEPT ![cl] = MAX_SOCK_NUM]
        /\ own' = [own EXCEPT ![cl] = 0] /\ via' = [via EXCEPT ![cl] = "none"]
        /\ pc' = "idle" /\ UNCHANGED <<rx, conn, incoming, server_port, cl, callVars>>
        /\ sock[cl] \in Sock
    BY <1>4 DEF ConnectTimeout, StopDone, CloseHandle, CallHandle
  <2>2. SocketTypes' /\ CallHandle'
    BY <2>1 DEF CallHandle
  <2>3. SynsentPrivate' /\ OneListener' /\ TableIsIncoming'
    BY <2>1 DEF SynsentPrivate, OneListener, TableIsIncoming
  <2> QED
    BY <2>2, <2>3
<1> QED
  BY <1>1, <1>2, <1>3, <1>4

LEMMA ScanTable ==
  ASSUME TableInv, ScanCall
  PROVE  TableInv'
<1> USE DEF TableInv, SocketTypes, clientVars, chipVars
<1>1. PICK what \in {"accept", "available"}, p \in Ports, c \in Client : Scan(what, p, c)
  BY DEF ScanCall
<1>2. SocketTypes' /\ CallHandle'
  BY <1>1, SockFacts DEF Scan, CallHandle
<1>3. OneListener'
  BY <1>1, SockFacts DEF Scan, OneListener
<1> QED
  BY <1>1, <1>2, <1>3 DEF Scan, SynsentPrivate, TableIsIncoming
-----------------------------------------------------------------------------
LEMMA MadeIsMax ==
  ASSUME NumberInv
  PROVE  made \in Named /\ made \in Nat /\ \A n \in Named : n \in Nat /\ n <= made
<1>1. Named \in SUBSET (0..MaxConns) /\ Named # {} /\ MaxConns \in Nat
  BY SocketAssumption DEF NumberInv, Named
<1>2. made = Max(Named)
  BY DEF made, Named
<1> HIDE DEF Named
<1>3. Max(Named) \in Named /\ \A n \in Named : Max(Named) >= n
  BY <1>1, MaxOf
<1>4. \A n \in Named : n \in Nat
  BY <1>1
<1> QED
  BY <1>2, <1>3, <1>4

\* Every step but the two that make a connection names old connections only.
LEMMA OldNumbers ==
  ASSUME TableInv, NumberInv, UNCHANGED <<conn, incoming>>,
         own' \in [Client -> Named], pc' = "open" => pc = "open" \/ made < MaxConns
  PROVE  /\ Named' \subseteq 0..MaxConns
         /\ pc' = "open" => \A n \in Named' : n < MaxConns
<1>1. Named' \subseteq Named
  BY DEF Named
<1> HIDE DEF Named
<1> QED
  BY <1>1, MadeIsMax, SocketAssumption DEF NumberInv

\* The two that do: the new number is greater than all others.
LEMMA NewNumber ==
  ASSUME TableInv, NumberInv, NEW s \in Sock,
         conn' = [conn EXCEPT ![s] = made + 1],
         own' = own \/ own' = [own EXCEPT ![cl] = made + 1],
         incoming' \in {incoming, incoming \cup {made + 1}},
         made < MaxConns, pc' = "open" => made + 1 < MaxConns
  PROVE  /\ Named' \subseteq 0..MaxConns
         /\ pc' = "open" => \A n \in Named' : n < MaxConns
         /\ \A t, u \in Sock : t # u /\ conn'[t] # 0 => conn'[t] # conn'[u]
         /\ 0 \notin incoming' /\ incoming \subseteq incoming' /\ made + 1 \notin incoming
<1>1. made \in Nat /\ \A n \in Named : n \in Nat /\ n <= made
  BY MadeIsMax
<1>2. Named' \subseteq Named \cup {made + 1}
  <2> HIDE DEF made
  <2> QED
    BY DEF Named, TableInv, SocketTypes
<1>3. \A t \in Sock : conn[t] \in Named
  BY DEF Named
<1>4. incoming \subseteq Named
  BY DEF Named
<1> HIDE DEF Named, made
<1>5. \A t \in Sock : conn[t] < made + 1 /\ made + 1 \notin incoming
  BY <1>1, <1>3, <1>4
<1>6. \A n \in Named' : n \in Nat /\ n <= made + 1
  BY <1>1, <1>2
<1>7. /\ Named' \subseteq 0..MaxConns
      /\ pc' = "open" => \A n \in Named' : n < MaxConns
  BY <1>1, <1>6, SocketAssumption
<1>8. \A t, u \in Sock : t # u /\ conn'[t] # 0 => conn'[t] # conn'[u]
  BY <1>1, <1>5 DEF TableInv, SocketTypes, NumberInv
<1> QED
  BY <1>1, <1>5, <1>7, <1>8 DEF NumberInv

LEMMA InitNumber == Init => NumberInv /\ Kept
  BY SocketAssumption DEF Init, NumberInv, Named, Kept, Connected

LEMMA ChipNumber ==
  ASSUME TableInv, NumberInv, NEW s \in Sock,
         PeerConnects(s) \/ PeerAnswers(s) \/ PeerSends(s) \/ PeerFin(s) \/ ChipCloses(s)
  PROVE  NumberInv'
<1> USE DEF TableInv, SocketTypes, Connected, Closing, clientVars, callVars, Chip
<1>1. UNCHANGED <<server_port, clientVars, pc, given>>
  BY DEF PeerConnects, PeerAnswers, PeerSends, PeerFin, ChipCloses
<1>2. own \in [Client -> Named]
  BY DEF Named
<1>3. CASE PeerConnects(s)
  <2>1. /\ conn' = [conn EXCEPT ![s] = made + 1] /\ incoming' = incoming \cup {made + 1}
        /\ status' = [status EXCEPT ![s] = "ESTABLISHED"]
        /\ made + (IF pc = "open" THEN 1 ELSE 0) < MaxConns
    BY <1>3 DEF PeerConnects
  <2>2. made < MaxConns /\ (pc' = "open" => made + 1 < MaxConns)
    BY <1>1, <2>1, MadeIsMax, SocketAssumption
  <2> HIDE DEF made
  <2> QED
    BY <1>1, <2>1, <2>2, NewNumber DEF NumberInv
<1>4. CASE ~PeerConnects(s)
  <2>1. UNCHANGED <<conn, incoming>>
    BY <1>4 DEF PeerConnects, PeerAnswers, PeerSends, PeerFin, ChipCloses
  <2> QED
    BY <1>1, <1>2, <1>4, <2>1, OldNumbers
       DEF PeerAnswers, PeerSends, PeerFin, ChipCloses, SynsentPrivate, NumberInv
<1> QED
  BY <1>3, <1>4

LEMMA LookNumber ==
  ASSUME TableInv, NumberInv, AvailableLook \/ AcceptLook
  PROVE  NumberInv'
<1> USE DEF TableInv, SocketTypes, Connected, clientVars, chipVars
<1>1. /\ i \in Sock /\ pc = "scan" /\ pc' \in {"scan", "begin"}
      /\ UNCHANGED <<conn, incoming, own>>
      /\ \A s \in Sock : s # i => status'[s] = status[s] /\ server_port'[s] = server_port[s]
      /\ status'[i] \in {status[i], "LAST_ACK"} /\ server_port'[i] \in {server_port[i], 0}
  BY DEF AvailableLook, AcceptLook, Advance
<1>2. /\ Named' \subseteq 0..MaxConns
      /\ pc' = "open" => \A n \in Named' : n < MaxConns
  <2>1. own' \in [Client -> Named]
    BY <1>1 DEF Named
  <2> QED
    BY <1>1, <2>1, OldNumbers
<1>3. CASE given' = given
  BY <1>1, <1>2, <1>3 DEF NumberInv
<1>4. CASE given' # given
  <2>1. /\ given' = given \cup {conn[i]} /\ server_port' = [server_port EXCEPT ![i] = 0]
        /\ server_port[i] # 0 /\ status[i] \in Connected /\ status' = status
    BY <1>4, SocketAssumption DEF AvailableLook, AcceptLook
  <2>2. conn[i] \in incoming /\ conn[i] # 0
    BY <1>1, <2>1 DEF TableIsIncoming, NumberInv
  <2> QED
    BY <1>1, <1>2, <2>1, <2>2 DEF NumberInv
<1> QED
  BY <1>3, <1>4

\* The steps that leave the sockets' connections and what accept() has returned alone.
LEMMA CalmNumber ==
  ASSUME TableInv, NumberInv, UNCHANGED <<conn, incoming, given>>,
         own' \in [Client -> Named], pc' = "open" => pc = "open" \/ made < MaxConns,
         \A s \in Sock : server_port'[s] # 0 /\ status'[s] \in Connected =>
                           server_port[s] # 0 /\ status[s] \in Connected
  PROVE  NumberInv'
  BY OldNumbers DEF NumberInv

LEMMA ReturnNumber ==
  ASSUME TableInv, NumberInv, ScanReturn
  PROVE  NumberInv'
<1> USE DEF TableInv, SocketTypes, Connected, clientVars, chipVars, callVars
<1>1. UNCHANGED <<conn, incoming, given>> /\ pc' = "idle"
  BY DEF ScanReturn
<1>2. own' \in [Client -> Named]
  BY DEF ScanReturn, Named
<1>3. ASSUME NEW s \in Sock, server_port'[s] # 0, status'[s] \in Connected
      PROVE  server_port[s] # 0 /\ status[s] \in Connected
  BY <1>3 DEF ScanReturn
<1> QED
  BY <1>1, <1>2, <1>3, CalmNumber

LEMMA ConnectNumber ==
  ASSUME TableInv, NumberInv, ConnectOpen \/ ConnectDone \/ ConnectTimeout \/ StopDone
  PROVE  NumberInv'
<1> USE DEF TableInv, SocketTypes, Connected, clientVars, chipVars, callVars
<1>1. CASE ConnectOpen /\ BeginSocket # MAX_SOCK_NUM
  <2> DEFINE b == BeginSocket
  <2>1. b \in Sock
    BY <1>1, BeginFree
  <2> HIDE DEF b
  <2>2. /\ pc = "open" /\ pc' = "connect" /\ UNCHANGED <<incoming, given>>
        /\ status' = [status EXCEPT ![b] = "SYNSENT"]
        /\ conn' = [conn EXCEPT ![b] = made + 1]
        /\ server_port' = [server_port EXCEPT ![b] = 0]
        /\ own' = [own EXCEPT ![cl] = made + 1]
    BY <1>1 DEF ConnectOpen, b
  <2>3. made < MaxConns
    BY <2>2, MadeIsMax DEF NumberInv
  <2> HIDE DEF made
  <2> QED
    BY <2>1, <2>2, <2>3, NewNumber DEF NumberInv
<1>2. CASE ~(ConnectOpen /\ BeginSocket # MAX_SOCK_NUM)
  <2>1. UNCHANGED <<conn, incoming, given, server_port>> /\ pc' # "open"
    BY <1>2 DEF ConnectOpen, ConnectDone, ConnectTimeout, StopDone, CloseHandle
  <2>2. own' = own \/ own' = [own EXCEPT ![cl] = 0]
    BY <1>2 DEF ConnectOpen, ConnectDone, ConnectTimeout, StopDone, CloseHandle
  <2>3. own' \in [Client -> Named]
    BY <2>2 DEF Named
  <2>4. status' = status \/ status' = [status EXCEPT ![sock[cl]] = "CLOSED"]
    BY <1>2 DEF ConnectOpen, ConnectDone, ConnectTimeout, StopDone, CloseHandle
  <2> QED
    BY <2>1, <2>3, <2>4, CalmNumber
<1> QED
  BY <1>1, <1>2

LEMMA ClientNumber ==
  ASSUME TableInv, NumberInv, NEW c \in Client,
         Connect(c) \/ Stop(c) \/ Read(c) \/ Leave(c)
  PROVE  NumberInv'
<1> USE DEF TableInv, SocketTypes, Connected, clientVars, chipVars, callVars
<1>1. /\ UNCHANGED <<conn, incoming, given, server_port>>
      /\ pc' = "open" => made < MaxConns
  BY DEF Connect, Stop, Read, Leave
<1>2. own' \in [Client -> Named]
  <2>1. own' = own \/ own' = [own EXCEPT ![c] = 0]
    BY DEF Connect, Stop, Read, Leave
  <2> QED
    BY <2>1 DEF Named
<1>3. ASSUME NEW s \in Sock, status'[s] \in Connected
      PROVE  status[s] \in Connected
  <2>1. \/ status' = status
        \/ sock[c] \in Sock /\ status' = [status EXCEPT ![sock[c]] = AfterDiscon(@)]
    BY DEF Connect, Stop, Read, Leave
  <2> QED
    BY <1>3, <2>1 DEF AfterDiscon
<1> QED
  BY <1>1, <1>2, <1>3, CalmNumber

\* Open: in use, and never taken back by socketBegin.
Open == Connected \cup {"LISTEN", "SYNSENT"}

LEMMA ChipKept ==
  ASSUME TableInv, Kept, NEW s \in Sock,
         PeerConnects(s) \/ PeerAnswers(s) \/ PeerSends(s) \/ PeerFin(s) \/ ChipCloses(s)
  PROVE  Kept'
<1> USE DEF TableInv, SocketTypes, clientVars, callVars, Chip
<1>1. /\ UNCHANGED <<server_port, sock, via, pc, op, sockindex>>
      /\ \A t \in Sock : status'[t] \in Open => status[t] \in Open
  BY DEF PeerConnects, PeerAnswers, PeerSends, PeerFin, ChipCloses, Open, Connected, Closing
<1> QED
  BY <1>1 DEF Kept, Open

LEMMA LookKept ==
  ASSUME TableInv, Kept, AvailableLook \/ AcceptLook
  PROVE  Kept'
<1> USE DEF TableInv, SocketTypes, clientVars, chipVars
<1>1. /\ i \in Sock /\ pc = "scan" /\ pc' \in {"scan", "begin"}
      /\ UNCHANGED <<sock, via, op>>
      /\ \A t \in Sock : status'[t] \in Open => status[t] \in Open
      /\ \A t \in Sock : t # i => server_port'[t] = server_port[t]
  BY DEF AvailableLook, AcceptLook, Advance, Open, Connected
<1>2. CASE AvailableLook
  <2>1. status'[i] \in Open => server_port'[i] = server_port[i]
    BY <1>2 DEF AvailableLook, Open, Connected
  <2> QED
    BY <1>1, <1>2, <2>1 DEF AvailableLook, Kept, Open
<1>3. CASE AcceptLook
  <2>1. op = "accept" /\ (sockindex # MAX_SOCK_NUM => sockindex' = sockindex)
    BY <1>3 DEF AcceptLook
  <2>2. status'[i] \in Open => server_port'[i] = server_port[i] \/ sockindex' = i
    BY <1>3 DEF AcceptLook, Open, Connected
  <2>3. \A t \in Sock : t # MAX_SOCK_NUM
    BY SockFacts DEF MAX_SOCK_NUM
  <2> QED
    BY <1>1, <2>1, <2>2, <2>3 DEF Kept, Open
<1> QED
  BY <1>2, <1>3

\* The variable of the call gets its handle when accept() returns; it held none before.
LEMMA ReturnKept ==
  ASSUME TableInv, Kept, ScanReturn
  PROVE  Kept'
<1> USE DEF TableInv, SocketTypes
<1>1. sock[cl] = MAX_SOCK_NUM /\ MAX_SOCK_NUM \notin Sock /\ pc = "begin"
  BY SockFacts DEF ScanReturn, CallHandle, MAX_SOCK_NUM
<1>2. \A t \in Sock : status'[t] \in Open =>
         (status[t] \in Open /\ server_port'[t] = server_port[t]) \/ server_port'[t] # 0
  BY SocketAssumption DEF ScanReturn
<1>3. ASSUME NEW t \in Sock, NEW c \in Client, sock[c] = t
      PROVE  sock'[c] = t /\ via'[c] = via[c]
  BY <1>1, <1>3 DEF ScanReturn, clientVars
<1>4. ASSUME NEW t \in Sock, sockindex = t, op = "accept"
      PROVE  sock'[cl] = t /\ via'[cl] = "accept"
  BY <1>1, <1>4 DEF ScanReturn
<1> QED
  BY <1>1, <1>2, <1>3, <1>4 DEF Kept, Open

LEMMA ConnectKept ==
  ASSUME TableInv, Kept, ConnectOpen \/ ConnectDone \/ ConnectTimeout \/ StopDone
  PROVE  Kept'
<1> USE DEF TableInv, SocketTypes, clientVars, callVars, chipVars
<1>1. CASE ConnectOpen
  <2>1. sock[cl] = MAX_SOCK_NUM /\ MAX_SOCK_NUM \notin Sock /\ pc = "open"
    BY <1>1, SockFacts DEF ConnectOpen, CallHandle, MAX_SOCK_NUM
  <2>2. CASE BeginSocket = MAX_SOCK_NUM
    BY <1>1, <2>2 DEF ConnectOpen, Kept
  <2>3. CASE BeginSocket # MAX_SOCK_NUM
    <3> DEFINE b == BeginSocket
    <3>1. b \in Sock
      BY <2>3, BeginFree
    <3> HIDE DEF b
    <3>2. /\ status' = [status EXCEPT ![b] = "SYNSENT"]
          /\ server_port' = [server_port EXCEPT ![b] = 0]
          /\ sock' = [sock EXCEPT ![cl] = b]
          /\ via' = [via EXCEPT ![cl] = "connect"]
      BY <1>1, <2>3 DEF ConnectOpen, b
    <3> QED
      BY <2>1, <3>1, <3>2 DEF Kept
  <2> QED
    BY <2>2, <2>3
<1>2. CASE ConnectDone
  BY <1>2 DEF ConnectDone, Kept
<1>3. CASE ConnectTimeout \/ StopDone
  <2>1. /\ status' = [status EXCEPT ![sock[cl]] = "CLOSED"]
        /\ sock' = [sock EXCEPT ![cl] = MAX_SOCK_NUM]
        /\ via' = [via EXCEPT ![cl] = "none"]
        /\ UNCHANGED server_port /\ pc \notin {"scan", "begin"} /\ sock[cl] \in Sock
    BY <1>3 DEF ConnectTimeout, StopDone, CloseHandle, CallHandle
  <2> QED
    BY <2>1 DEF Kept, Connected
<1> QED
  BY <1>1, <1>2, <1>3

LEMMA ClientKept ==
  ASSUME TableInv, Kept, NEW c \in Client,
         Connect(c) \/ Stop(c) \/ Read(c) \/ Leave(c)
  PROVE  Kept'
<1> USE DEF TableInv, SocketTypes, clientVars, callVars, chipVars
<1>1. UNCHANGED server_port /\ pc = "idle"
  BY DEF Connect, Stop, Read, Leave
<1>2. CASE Connect(c) \/ Stop(c)
  <2>1. /\ status' = [t \in Sock |-> IF t = sock[c] THEN AfterDiscon(status[t]) ELSE status[t]]
        /\ \A d \in Client : d # c => sock'[d] = sock[d] /\ via'[d] = via[d]
    BY <1>2, SockFacts DEF Connect, Stop, MAX_SOCK_NUM
  <2>2. \A t \in Sock : status'[t] \in Open => status[t] \in Open /\ t # sock[c]
    BY <2>1 DEF AfterDiscon, Open, Connected
  <2> QED
    BY <1>1, <2>1, <2>2 DEF Kept, Open
<1>3. CASE Read(c)
  BY <1>3 DEF Read, Kept
<1>4. CASE Leave(c)
  <2>1. /\ via[c] = "available" /\ UNCHANGED status
        /\ \A d \in Client : d # c => sock'[d] = sock[d] /\ via'[d] = via[d]
    BY <1>4 DEF Leave
  <2> QED
    BY <1>1, <2>1 DEF Kept
<1> QED
  BY <1>2, <1>3, <1>4
-----------------------------------------------------------------------------
SocketInv == TableInv /\ NumberInv /\ Kept

LEMMA StepSockets == SocketInv /\ [Next]_vars => SocketInv'
<1> SUFFICES ASSUME TableInv, NumberInv, Kept, [Next]_vars
             PROVE  TableInv' /\ NumberInv' /\ Kept'
  BY DEF SocketInv
<1>0. made \in Nat
  BY MadeIsMax
<1>1. CASE ChipStep
  BY <1>0, <1>1, ChipTable, ChipNumber, ChipKept DEF ChipStep
<1>2. CASE ScanCall
  <2>1. TableInv'
    BY <1>2, ScanTable
  <2>2. PICK what \in {"accept", "available"}, p \in Ports, c \in Client : Scan(what, p, c)
    BY <1>2 DEF ScanCall
  <2>3. NumberInv'
    <3>1. own' \in [Client -> Named]
      BY <2>2 DEF Scan, clientVars, Named, TableInv, SocketTypes
    <3> QED
      BY <2>2, <3>1, CalmNumber DEF Scan, chipVars
  <2>4. Kept'
    BY <2>2 DEF Scan, Kept, chipVars, clientVars
  <2> QED
    BY <2>1, <2>3, <2>4
<1>3. CASE AvailableLook \/ AcceptLook
  BY <1>3, LookTable, LookNumber, LookKept
<1>4. CASE ScanReturn
  BY <1>4, ReturnTable, ReturnNumber, ReturnKept
<1>5. CASE ConnectOpen \/ ConnectDone \/ ConnectTimeout \/ StopDone
  BY <1>0, <1>5, ConnectTable, ConnectNumber, ConnectKept
<1>6. CASE ClientCall
  BY <1>6, ClientTable, ClientNumber, ClientKept DEF ClientCall
<1>7. CASE UNCHANGED vars
  <2>1. UNCHANGED stateVars
    BY <1>7 DEF vars
  <2> QED
    BY <2>1 DEF stateVars, chipVars, clientVars, callVars, TableInv, SocketTypes, CallHandle,
       SynsentPrivate, OneListener, TableIsIncoming, NumberInv, Named, Kept
<1> QED
  BY <1>1, <1>2, <1>3, <1>4, <1>5, <1>6, <1>7 DEF Next, CallStep

LEMMA SocketInvHolds == Spec => []SocketInv
<1>1. Init => SocketInv
  BY InitTable, InitNumber DEF SocketInv
<1> QED
  BY <1>1, StepSockets, PTL DEF Spec

\* However often a server is polled while peers come and go, it keeps one listening
\* socket at most, and its table names no connection but those that came to it
\* (EthernetServer.cpp, lines 28-105).
THEOREM ServerTableSoundHolds == Spec => []ServerTableSound
<1>1. SocketInv => ServerTableSound
  <2> SUFFICES ASSUME SocketInv PROVE AtMostOneListener
    BY DEF SocketInv, TableInv, ServerTableSound
  <2>1. ASSUME NEW p \in Ports
        PROVE  Cardinality({s \in Sock : status[s] = "LISTEN" /\ server_port[s] = p}) <= 1
    <3> DEFINE L == {s \in Sock : status[s] = "LISTEN" /\ server_port[s] = p}
    <3>1. IsFiniteSet(L)
      BY SockFacts, FS_Subset
    <3>2. \A s, t \in L : s = t
      BY DEF SocketInv, TableInv, OneListener
    <3> HIDE DEF L
    <3>3. Cardinality(L) <= 1
      BY <3>1, <3>2, AtMostOne
    <3> QED
      BY <3>3 DEF L
  <2> QED
    BY <2>1 DEF AtMostOneListener, SocketInv, TableInv, OneListener
<1> QED
  BY <1>1, SocketInvHolds, PTL

\* No open socket is forgotten: a server, a variable or the call in progress knows it.
THEOREM NoLeakHolds == Spec => []NoLeak
<1>1. SocketInv => NoLeak
  BY DEF SocketInv, Kept, NoLeak
<1> QED
  BY <1>1, SocketInvHolds, PTL

LEMMA AcceptsNew ==
  SocketInv /\ [Next]_vars =>
    [AcceptLook /\ sockindex' # sockindex => conn[sockindex'] \notin given]_vars
<1> SUFFICES ASSUME SocketInv, AcceptLook, sockindex' # sockindex
             PROVE  conn[sockindex'] \notin given
  OBVIOUS
<1>1. /\ sockindex' = i /\ i \in Sock
      /\ server_port[i] = port /\ port # 0 /\ status[i] \in Connected
  BY SocketAssumption DEF AcceptLook, SocketInv, TableInv, SocketTypes
<1> QED
  BY <1>1 DEF SocketInv, NumberInv

\* accept() returns a connection only once (EthernetServer.cpp, lines 75-105).
THEOREM AcceptOnceHolds == Spec => AcceptOnce
  BY SocketInvHolds, AcceptsNew, PTL DEF Spec, AcceptOnce
=============================================================================

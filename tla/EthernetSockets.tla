-------------------------- MODULE EthernetSockets --------------------------
(***************************************************************************)
(* The socket table of the Ethernet library: socketBegin (socket.cpp), the *)
(* handles EthernetClient objects hold into it, and EthernetServer's       *)
(* server_port table.  A sketch runs one call at a time; the chip and the  *)
(* peers change the sockets' status between any two accesses of a call.    *)
(***************************************************************************)
EXTENDS Naturals, FiniteSets, FiniteSetsExt

CONSTANTS Sock,      \* hardware sockets, 1..MAX_SOCK_NUM
          Client,    \* EthernetClient variables of the sketch
          Ports,     \* ports of its EthernetServer objects
          Sketches,  \* sketches, each the set of the calls it makes of
                     \* "accept", "available" and "connect"
          MaxConns   \* bound on connections made in a behaviour

ASSUME SocketAssumption ==
  /\ IsFiniteSet(Sock) /\ Sock # {} /\ Sock = 1 .. Cardinality(Sock)
  /\ Ports \subseteq Nat \ {0} /\ MaxConns \in Nat
  /\ Sketches \subseteq SUBSET {"accept", "available", "connect"}

MAX_SOCK_NUM == 0     \* no socket

VARIABLES calls,         \* the calls of the sketch that runs
          status,        \* SnSR of every socket
          server_port,   \* EthernetServer::server_port
          rx,            \* has unread data, by socket
          sock,          \* _sockindex of every client variable
          pc, cl,        \* the call in progress and the variable it is for
          op, port, i, listening, sockindex,   \* locals of available/accept
          conn, own,     \* history: a socket's and a handle's connection
          incoming,      \* history: connections peers opened to a server
          given,         \* history: connections accept() has returned
          via            \* history: how a variable got its handle

chipVars == <<status, rx, conn, incoming>>
callVars == <<op, port, i, listening, sockindex>>
clientVars == <<sock, own, via>>
stateVars == <<chipVars, server_port, clientVars, pc, cl, callVars, given>>
vars == <<calls, stateVars>>

Connected == {"ESTABLISHED", "CLOSE_WAIT"}
Closing == {"FIN_WAIT", "TIME_WAIT", "LAST_ACK"}
Status == {"CLOSED", "LISTEN", "SYNSENT"} \cup Connected \cup Closing

made == Max({conn[s] : s \in Sock} \cup {own[c] : c \in Client} \cup incoming \cup {0})

Init == /\ calls \in Sketches
        /\ status = [s \in Sock |-> "CLOSED"]
        /\ server_port = [s \in Sock |-> 0]
        /\ rx = [s \in Sock |-> FALSE]
        /\ sock = [c \in Client |-> MAX_SOCK_NUM]
        /\ pc = "idle" /\ cl \in Client
        /\ op = "accept" /\ port \in Ports /\ i = 0
        /\ listening = FALSE /\ sockindex = MAX_SOCK_NUM
        /\ conn = [s \in Sock |-> 0] /\ own = [c \in Client |-> 0]
        /\ via = [c \in Client |-> "none"]
        /\ incoming = {} /\ given = {}
-----------------------------------------------------------------------------
(* The chip and the peers. *)

Chip(s, from, to) == /\ status[s] \in from
                     /\ status' = [status EXCEPT ![s] = to]
                     /\ UNCHANGED <<server_port, clientVars, pc, cl, callVars, given>>

\* A peer completes a handshake with a listening socket.
PeerConnects(s) == /\ Chip(s, {"LISTEN"}, "ESTABLISHED")
                   /\ made + (IF pc = "open" THEN 1 ELSE 0) < MaxConns
                   /\ conn' = [conn EXCEPT ![s] = made + 1]
                   /\ incoming' = incoming \cup {made + 1}
                   /\ UNCHANGED rx

PeerAnswers(s) == Chip(s, {"SYNSENT"}, "ESTABLISHED") /\ UNCHANGED <<rx, conn, incoming>>

PeerSends(s) == /\ Chip(s, {"ESTABLISHED", "FIN_WAIT"}, status[s])
                /\ rx' = [rx EXCEPT ![s] = TRUE]
                /\ UNCHANGED <<conn, incoming>>

PeerFin(s) == /\ \/ Chip(s, {"ESTABLISHED"}, "CLOSE_WAIT")
                 \/ Chip(s, {"FIN_WAIT"}, "TIME_WAIT")
              /\ UNCHANGED <<rx, conn, incoming>>

\* A reset, a refused connection, or the end of an orderly close.
ChipCloses(s) == /\ Chip(s, {"SYNSENT"} \cup Connected \cup Closing, "CLOSED")
                 /\ UNCHANGED <<rx, conn, incoming>>
-----------------------------------------------------------------------------
(* socketBegin, socketDisconnect, socketClose. *)

\* The first closed socket, else the first that is already closing.  Both
\* passes use one reading of the status registers; a socket can only have
\* become CLOSED since, so reading again would not choose a live one.
BeginSocket ==
  LET first(S) == IF S = {} THEN MAX_SOCK_NUM ELSE Min(S)
      closed == {s \in Sock : status[s] = "CLOSED"}
  IN IF closed # {} THEN first(closed)
     ELSE first({s \in Sock : status[s] \in Closing})

AfterDiscon(st) == CASE st = "ESTABLISHED" -> "FIN_WAIT"
                     [] st = "CLOSE_WAIT" -> "LAST_ACK"
                     [] st \in {"LISTEN", "SYNSENT"} -> "CLOSED"
                     [] OTHER -> st
-----------------------------------------------------------------------------
(* EthernetClient. *)

\* connect: disconnect what the variable held, take a socket, send the SYN.
\* Opening a socket resets its counters and takes it from any server.
Connect(c) ==
  /\ pc = "idle" /\ "connect" \in calls /\ made < MaxConns
  /\ LET t == sock[c]
         st == IF t = MAX_SOCK_NUM THEN status
               ELSE [status EXCEPT ![t] = AfterDiscon(@)]
     IN /\ status' = st
        /\ sock' = [sock EXCEPT ![c] = MAX_SOCK_NUM]
  /\ own' = [own EXCEPT ![c] = 0] /\ via' = [via EXCEPT ![c] = "none"]
  /\ pc' = "open" /\ cl' = c
  /\ UNCHANGED <<rx, conn, incoming, server_port, callVars, given>>

\* Mutant: the socket stays in the server's table.
ConnectOpenKeepsPort ==
  /\ pc = "open"
  /\ LET s == BeginSocket
     IN IF s = MAX_SOCK_NUM
        THEN pc' = "idle" /\ UNCHANGED <<status, rx, conn, clientVars>>
        ELSE /\ status' = [status EXCEPT ![s] = "SYNSENT"]
             /\ rx' = [rx EXCEPT ![s] = FALSE]
             /\ conn' = [conn EXCEPT ![s] = made + 1]
             /\ sock' = [sock EXCEPT ![cl] = s]
             /\ own' = [own EXCEPT ![cl] = made + 1]
             /\ via' = [via EXCEPT ![cl] = "connect"]
             /\ pc' = "connect"
  /\ UNCHANGED <<server_port, incoming, cl, callVars, given>>

ConnectOpen ==
  /\ pc = "open"
  /\ LET s == BeginSocket
     IN IF s = MAX_SOCK_NUM
        THEN pc' = "idle" /\ UNCHANGED <<status, rx, conn, server_port, clientVars>>
        ELSE /\ status' = [status EXCEPT ![s] = "SYNSENT"]
             /\ rx' = [rx EXCEPT ![s] = FALSE]
             /\ conn' = [conn EXCEPT ![s] = made + 1]
             /\ server_port' = [server_port EXCEPT ![s] = 0]
             /\ sock' = [sock EXCEPT ![cl] = s]
             /\ own' = [own EXCEPT ![cl] = made + 1]
             /\ via' = [via EXCEPT ![cl] = "connect"]
             /\ pc' = "connect"
  /\ UNCHANGED <<incoming, cl, callVars, given>>

\* Answered, or refused: the handle stays, even on a socket that is CLOSED.
ConnectDone == /\ pc = "connect"
               /\ status[sock[cl]] \in Connected \cup {"CLOSED"}
               /\ pc' = "idle"
               /\ UNCHANGED <<chipVars, server_port, clientVars, cl, callVars, given>>

\* _timeout passed: the socket is closed and the handle dropped.
CloseHandle(c) == /\ status' = [status EXCEPT ![sock[c]] = "CLOSED"]
                  /\ sock' = [sock EXCEPT ![c] = MAX_SOCK_NUM]
                  /\ own' = [own EXCEPT ![c] = 0] /\ via' = [via EXCEPT ![c] = "none"]

\* Mutant: the handle is dropped and the socket left as it is.
ConnectTimeoutLeaks ==
  /\ pc = "connect" /\ status[sock[cl]] \notin Connected \cup {"CLOSED"}
  /\ sock' = [sock EXCEPT ![cl] = MAX_SOCK_NUM]
  /\ own' = [own EXCEPT ![cl] = 0] /\ via' = [via EXCEPT ![cl] = "none"]
  /\ pc' = "idle"
  /\ UNCHANGED <<chipVars, server_port, cl, callVars, given>>

ConnectTimeout == /\ pc = "connect" /\ status[sock[cl]] \notin Connected \cup {"CLOSED"}
                  /\ CloseHandle(cl)
                  /\ pc' = "idle"
                  /\ UNCHANGED <<rx, conn, incoming, server_port, cl, callVars, given>>

\* stop: FIN, then wait for CLOSED, at most _timeout, then close by force.
Stop(c) == /\ pc = "idle" /\ sock[c] # MAX_SOCK_NUM
           /\ status' = [status EXCEPT ![sock[c]] = AfterDiscon(@)]
           /\ pc' = "stop" /\ cl' = c
           /\ UNCHANGED <<rx, conn, incoming, server_port, clientVars, callVars, given>>

StopDone == /\ pc = "stop"
            /\ CloseHandle(cl)
            /\ pc' = "idle"
            /\ UNCHANGED <<rx, conn, incoming, server_port, cl, callVars, given>>

\* read: takes what available() counts on the socket the handle points to.
Read(c) == /\ pc = "idle" /\ sock[c] # MAX_SOCK_NUM /\ rx[sock[c]]
           /\ rx' = [rx EXCEPT ![sock[c]] = FALSE]
           /\ UNCHANGED <<status, conn, incoming, server_port, clientVars, pc, cl,
                          callVars, given>>

connected(c) ==
  sock[c] # MAX_SOCK_NUM /\
  LET s == sock[c] IN ~ \/ status[s] \in {"LISTEN", "CLOSED", "FIN_WAIT"}
                        \/ status[s] = "CLOSE_WAIT" /\ ~rx[s]

\* A variable that got its handle from available() goes out of scope.
Leave(c) == /\ pc = "idle" /\ via[c] = "available"
            /\ sock' = [sock EXCEPT ![c] = MAX_SOCK_NUM]
            /\ own' = [own EXCEPT ![c] = 0] /\ via' = [via EXCEPT ![c] = "none"]
            /\ UNCHANGED <<chipVars, server_port, pc, cl, callVars, given>>
-----------------------------------------------------------------------------
(* EthernetServer::available and accept, one step per socket they look at. *)

Scan(what, p, c) == /\ pc = "idle" /\ what \in calls /\ sock[c] = MAX_SOCK_NUM
                    /\ op' = what /\ port' = p /\ cl' = c
                    /\ i' = Min(Sock) /\ listening' = FALSE /\ sockindex' = MAX_SOCK_NUM
                    /\ pc' = "scan"
                    /\ UNCHANGED <<chipVars, server_port, clientVars, given>>

Advance == IF i = Max(Sock) THEN pc' = "begin" /\ UNCHANGED i
                            ELSE i' = i + 1 /\ UNCHANGED pc

\* Mutant: half-closed connections are left alone.
AvailableLookKeeps ==
  /\ pc = "scan" /\ op = "available" /\ Advance
  /\ LET mine == server_port[i] = port
         ready == mine /\ status[i] \in Connected
     IN /\ sockindex' = IF ready /\ rx[i] THEN i ELSE sockindex
        /\ listening' = (listening \/ (mine /\ status[i] = "LISTEN"))
        /\ server_port' = IF mine /\ status[i] = "CLOSED"
                          THEN [server_port EXCEPT ![i] = 0] ELSE server_port
  /\ UNCHANGED <<chipVars, clientVars, cl, op, port, given>>

\* available: the last socket of the port with data; a socket the peer closed
\* and with nothing left to read is disconnected.
AvailableLook ==
  /\ pc = "scan" /\ op = "available" /\ Advance
  /\ LET mine == server_port[i] = port
         ready == mine /\ status[i] \in Connected
     IN /\ sockindex' = IF ready /\ rx[i] THEN i ELSE sockindex
        /\ status' = IF ready /\ ~rx[i] /\ status[i] = "CLOSE_WAIT"
                     THEN [status EXCEPT ![i] = "LAST_ACK"] ELSE status
        /\ listening' = (listening \/ (mine /\ status[i] = "LISTEN"))
        /\ server_port' = IF mine /\ status[i] = "CLOSED"
                          THEN [server_port EXCEPT ![i] = 0] ELSE server_port
  /\ UNCHANGED <<rx, conn, incoming, clientVars, cl, op, port, given>>

\* Mutant: a listening socket is not noticed.
AcceptLookDeaf ==
  /\ pc = "scan" /\ op = "accept" /\ Advance
  /\ LET mine == server_port[i] = port
         take == mine /\ sockindex = MAX_SOCK_NUM /\ status[i] \in Connected
     IN /\ sockindex' = IF take THEN i ELSE sockindex
        /\ given' = IF take THEN given \cup {conn[i]} ELSE given
        /\ server_port' = IF take \/ (mine /\ status[i] = "CLOSED")
                          THEN [server_port EXCEPT ![i] = 0] ELSE server_port
  /\ UNCHANGED <<chipVars, clientVars, cl, op, port, listening>>

\* Mutant: the socket stays in the table after it was returned.
AcceptLookAgain ==
  /\ pc = "scan" /\ op = "accept" /\ Advance
  /\ LET mine == server_port[i] = port
         take == mine /\ sockindex = MAX_SOCK_NUM /\ status[i] \in Connected
     IN /\ sockindex' = IF take THEN i ELSE sockindex
        /\ given' = IF take THEN given \cup {conn[i]} ELSE given
        /\ listening' = (listening \/ (mine /\ status[i] = "LISTEN"))
        /\ server_port' = IF mine /\ status[i] = "CLOSED"
                          THEN [server_port EXCEPT ![i] = 0] ELSE server_port
  /\ UNCHANGED <<chipVars, clientVars, cl, op, port>>

\* accept: the first connected socket of the port, which then leaves the table.
AcceptLook ==
  /\ pc = "scan" /\ op = "accept" /\ Advance
  /\ LET mine == server_port[i] = port
         take == mine /\ sockindex = MAX_SOCK_NUM /\ status[i] \in Connected
     IN /\ sockindex' = IF take THEN i ELSE sockindex
        /\ given' = IF take THEN given \cup {conn[i]} ELSE given
        /\ listening' = (listening \/ (mine /\ status[i] = "LISTEN"))
        /\ server_port' = IF take \/ (mine /\ status[i] = "CLOSED")
                          THEN [server_port EXCEPT ![i] = 0] ELSE server_port
  /\ UNCHANGED <<chipVars, clientVars, cl, op, port>>

\* begin() when no socket of the port listens (OPEN leaves a TCP socket in
\* INIT, so socketListen succeeds), then the handle is returned.
ScanReturn ==
  /\ pc = "begin"
  /\ LET s == IF listening THEN MAX_SOCK_NUM ELSE BeginSocket
     IN IF s = MAX_SOCK_NUM THEN UNCHANGED <<status, rx, server_port>>
        ELSE /\ status' = [status EXCEPT ![s] = "LISTEN"]
             /\ rx' = [rx EXCEPT ![s] = FALSE]
             /\ server_port' = [server_port EXCEPT ![s] = port]
  /\ IF sockindex = MAX_SOCK_NUM THEN UNCHANGED clientVars
     ELSE /\ sock' = [sock EXCEPT ![cl] = sockindex]
          /\ own' = [own EXCEPT ![cl] = conn[sockindex]]
          /\ via' = [via EXCEPT ![cl] = op]
  /\ pc' = "idle"
  /\ UNCHANGED <<conn, incoming, cl, callVars, given>>
-----------------------------------------------------------------------------
ChipStep == \E s \in Sock : \/ PeerConnects(s) \/ PeerAnswers(s) \/ PeerSends(s)
                            \/ PeerFin(s) \/ ChipCloses(s)
ScanCall == \E what \in {"accept", "available"}, p \in Ports, c \in Client : Scan(what, p, c)
CallStep == \/ ConnectOpen \/ ConnectDone \/ ConnectTimeout \/ StopDone
            \/ AvailableLook \/ AcceptLook \/ ScanReturn
ClientCall == \E c \in Client : Connect(c) \/ Stop(c) \/ Read(c) \/ Leave(c)
Next == (ChipStep \/ ScanCall \/ CallStep \/ ClientCall) /\ UNCHANGED calls

Spec == Init /\ [][Next]_vars

\* A sketch that polls its server and lets go of the clients it got.
FairSpec == /\ Spec /\ WF_stateVars(CallStep) /\ SF_stateVars(ScanCall)
            /\ SF_stateVars(\E c \in Client : Leave(c))
-----------------------------------------------------------------------------
(* Properties. *)

TypeOK == /\ calls \in Sketches
          /\ status \in [Sock -> Status]
          /\ server_port \in [Sock -> Ports \cup {0}]
          /\ rx \in [Sock -> BOOLEAN]
          /\ sock \in [Client -> Sock \cup {MAX_SOCK_NUM}]
          /\ pc \in {"idle", "open", "connect", "stop", "scan", "begin"}
          /\ cl \in Client /\ op \in {"accept", "available"} /\ port \in Ports
          /\ i \in 0..Max(Sock) /\ listening \in BOOLEAN
          /\ sockindex \in Sock \cup {MAX_SOCK_NUM}
          /\ conn \in [Sock -> 0..MaxConns] /\ own \in [Client -> 0..MaxConns]
          /\ via \in [Client -> {"none", "connect", "accept", "available"}]
          /\ incoming \subseteq 1..MaxConns /\ given \subseteq 1..MaxConns

\* However often a server is polled while peers connect, it has at most one
\* listening socket of the few there are, and no socket listens for nobody.
AtMostOneListener ==
  /\ \A p \in Ports :
       Cardinality({s \in Sock : status[s] = "LISTEN" /\ server_port[s] = p}) <= 1
  /\ \A s \in Sock : status[s] = "LISTEN" => server_port[s] # 0

\* A server's table names only connections that peers opened to it: accept(),
\* available() and server.write() never get hold of a connection the sketch
\* made itself on a socket the server once had.
TableIsIncoming ==
  \A s \in Sock :
    server_port[s] # 0 /\ status[s] \in Connected => conn[s] \in incoming

\* However often a server is polled while peers come and go, it keeps one listening socket at
\* most, and its table names no connection but those that came to it.
ServerTableSound == AtMostOneListener /\ TableIsIncoming

\* accept() gives the client only once (docs/api.md; "only return the client
\* once", EthernetServer.cpp line 95).
AcceptOnce ==
  [][AcceptLook /\ sockindex' # sockindex => conn[sockindex'] \notin given]_vars

\* No socket is lost: whatever is open is known to a server, held by a client
\* variable, or about to be returned to one.  Sockets socketBegin never takes
\* back (it takes CLOSED ones and those already closing) cannot pile up.
NoLeak ==
  \A s \in Sock :
    status[s] \in Connected \cup {"LISTEN", "SYNSENT"} =>
      \/ server_port[s] # 0
      \/ \E c \in Client : sock[c] = s
      \/ pc \in {"scan", "begin"} /\ sockindex = s

\* A sketch that polls available() gets rid of clients whose peer has closed and
\* that have nothing left to read (EthernetServer.cpp, lines 57-62).
HalfClosedReclaimed ==
  \A s \in Sock : /\ calls = {"available"} /\ server_port[s] # 0
                   /\ status[s] = "CLOSE_WAIT" /\ ~rx[s]
                   ~> status[s] # "CLOSE_WAIT"

(* Not true of this code (README, known disagreements). *)

\* A client counts as connected while data of its closed connection is unread
\* (docs/api.md, connected).
ConnectedWhileUnread ==
  \A c \in Client :
    sock[c] # MAX_SOCK_NUM /\ own[c] = conn[sock[c]] /\ rx[sock[c]] => connected(c)

\* What a client reads was sent on its own connection (docs/api.md, available).
ReadsOwnData ==
  [][\A c \in Client : Read(c) => own[c] = conn[sock[c]]]_vars
=============================================================================

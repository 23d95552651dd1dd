------------------------------ MODULE DnsClient ------------------------------
(***************************************************************************)
(* DNSClient (Ethernet/src/Dns.cpp): one question is sent, and the first   *)
(* datagram that comes back decides, whether it is the answer or not.  The *)
(* other actors are the server, which may answer late, twice or never, and *)
(* the network, which may lose datagrams or hand in others'.               *)
(*                                                                         *)
(* A datagram is a record; EthernetUdp shows how it is told from the next  *)
(* one.  Names that look like an address, or begin like one, are known.    *)
(***************************************************************************)
EXTENDS Integers, Sequences, FiniteSets

CONSTANTS Hosts,         \* names that sketches look up
          Literals, Dotted,   \* those that are an address, and those that only begin like one
          LocalPorts,    \* the sixteen ports 1024 .. 1039
          Bodies,        \* of answers: an address, no address, a record of another length than
                         \* four, or one of those without any record; all are as long as they say
          MaxLookups,    \* bound: lookups that ask the server
          IntBits        \* width of an int: 16 on an AVR, 32 elsewhere

ASSUME DnsAssumption == /\ Literals \cup Dotted \subseteq Hosts /\ Literals \cap Dotted = {}
                        /\ Bodies \subseteq {"address", "none", "odd", "refused", "empty", "short"}
                        /\ IntBits \in {16, 32}

TIMED_OUT == -1
INVALID_SERVER == -2
INVALID_RESPONSE == -4

VARIABLES step,          \* "idle", "ask", "wait"
          host,          \* aHostname
          local,         \* the port of iUdp
          id,            \* iRequestId: the number of the question
          waits,         \* wait_retries
          address,       \* aResult: <<"of", name>>, what "part" of a name gave, or "none"
          answer,        \* the value returned
          asked,         \* history: names of the questions sent
          flight,        \* answers on their way
          arrived        \* datagrams in the socket
dnsVars == <<step, host, local, id, waits, address, answer, asked, flight, arrived>>

DnsInit == /\ step = "idle" /\ host \in Hosts /\ local = 0 /\ id = 0 /\ waits = 0
           /\ address = <<"none", host>> /\ answer = 0 /\ asked = <<>> /\ flight = {} /\ arrived = <<>>

\* uint16_t ProcessResponse() in an int
AsInt(r) == IF IntBits = 16 THEN r ELSE r % 65536
Finish(r) == step' = "idle" /\ local' = 0 /\ arrived' = <<>> /\ answer' = r

\* getHostByName() to the socket; inet_aton writes the bytes it has read before it gives up.
\* dns_server: a server is configured; p = 0: no socket is free.
Lookup(h, dns_server, p) ==
    /\ step = "idle" /\ Len(asked) < MaxLookups
    /\ host' = h /\ waits' = 0 /\ id' = 0
    /\ address' = <<IF h \in Literals THEN "of" ELSE IF h \in Dotted THEN "part" ELSE "none", h>>
    /\ IF h \in Literals \/ ~dns_server \/ p = 0
       THEN Finish(IF h \in Literals THEN 1 ELSE IF ~dns_server THEN INVALID_SERVER ELSE 0)
       ELSE step' = "ask" /\ local' = p /\ arrived' = <<>> /\ UNCHANGED answer
    /\ UNCHANGED <<asked, flight>>

\* BuildRequest() and endPacket(): the server answers, or it or the network does not.
\* An id is the number of the question.  The code takes (uint16_t) millis() (line 157): of two
\* questions in the same millisecond, or whole turns of 65536 ms apart, the ids are the same.
Ask == /\ step = "ask" /\ step' = "wait"
       /\ asked' = Append(asked, host) /\ id' = Len(asked')
       /\ \E c \in Bodies :
            flight' \in {flight, flight \cup {[to |-> local, id |-> id', from |-> "server", body |-> c]}}
       /\ UNCHANGED <<host, local, waits, address, answer, arrived>>
AskFails == /\ step = "ask" /\ Finish(0) /\ UNCHANGED <<host, id, waits, address, asked, flight>>

\* Mutant: the waits are not counted.
WaitEndsUncounted ==
    /\ step = "wait" /\ arrived = <<>>
    /\ IF waits < 2 /\ AsInt(TIMED_OUT) = TIMED_OUT
       THEN UNCHANGED <<waits, step, local, arrived, answer>>
       ELSE waits' = waits + 1 /\ Finish(AsInt(TIMED_OUT))
    /\ UNCHANGED <<host, id, address, asked, flight>>

\* ProcessResponse() gives up after the time a wait may take.
WaitEnds ==
    /\ step = "wait" /\ arrived = <<>> /\ waits' = waits + 1
    /\ IF waits' < 3 /\ AsInt(TIMED_OUT) = TIMED_OUT
       THEN UNCHANGED <<step, local, arrived, answer>>
       ELSE Finish(AsInt(TIMED_OUT))
    /\ UNCHANGED <<host, id, address, asked, flight>>

\* Mutant: the id of the answer is not compared.
ResultOfAny(a) == IF a.from # "server" THEN INVALID_SERVER
                  ELSE CASE a.body = "short" -> -3
                         [] a.body = "refused" -> -5
                         [] a.body = "empty" -> -6
                         [] a.body = "odd" -> -9
                         [] a.body = "none" -> -10
                         [] OTHER -> 1

\* ProcessResponse(), from the checks of the header to the answers
ResultOf(a) == IF a.from # "server" THEN INVALID_SERVER
               ELSE IF a.body = "short" THEN -3
               ELSE IF a.id # id THEN INVALID_RESPONSE
               ELSE CASE a.body = "refused" -> -5
                      [] a.body = "empty" -> -6
                      [] a.body = "odd" -> -9
                      [] a.body = "none" -> -10
                      [] OTHER -> 1
TakeAnswer == /\ step = "wait" /\ arrived # <<>>
              /\ LET a == Head(arrived)
                     r == ResultOf(a)
                 IN /\ Finish(AsInt(r))
                    /\ address' = IF r = 1 THEN <<"of", asked[a.id]>> ELSE address
              /\ UNCHANGED <<host, id, waits, asked, flight>>

-----------------------------------------------------------------------------
\* The network hands a datagram to the socket of its port, once or more than once, or loses it.
Deliver(a) == /\ arrived' = IF a.to = local THEN Append(arrived, a) ELSE arrived
              /\ flight' \in {flight, flight \ {a}} /\ Len(arrived) < 2
              /\ UNCHANGED <<step, host, local, id, waits, address, answer, asked>>
\* Another host sends to the port.
Stray == /\ local # 0 /\ arrived = <<>>
         /\ arrived' = <<[to |-> local, id |-> 0, from |-> "other", body |-> "none"]>>
         /\ UNCHANGED <<step, host, local, id, waits, address, answer, asked, flight>>

Resolving == Ask \/ AskFails \/ WaitEnds \/ TakeAnswer
DnsNext == \/ \E h \in Hosts, s \in BOOLEAN, p \in LocalPorts \cup {0} : Lookup(h, s, p)
           \/ Resolving \/ Stray \/ \E a \in flight : Deliver(a)
-----------------------------------------------------------------------------
\* A name that is found is found at its own address, although the answer to a former lookup,
\* late or sent twice, comes to the same port (lines 157, 246-253, 332-341).
ResolvesAsked == step = "idle" /\ answer = 1 => address = <<"of", host>>

\* Every lookup ends, answered or not (lines 117-134, 218-224).
LookupEnds == step # "idle" ~> step = "idle"

(* Not true of this code (README, known disagreements). *)

\* connect() of a host and its "if (!dns.getHostByName(host, remote_addr)) return 0"
\* (EthernetClient.cpp, line 39): what it connects to is the address of that host.
\* IPAddress() is refused by connect() itself (line 55).
ConnectsToHost == step = "idle" /\ answer # 0 /\ address[1] # "none" => address[1] = "of"

\* "(wait_retries < 3) && (ret == TIMED_OUT)" (line 120): nothing came in three waits.
WaitsThreeTimes == step = "idle" /\ waits > 0 => waits = 3 \/ answer # AsInt(TIMED_OUT)
=============================================================================

----------------------------- MODULE MCInternet -----------------------------
(***************************************************************************)
(* The parts of Ethernet and cf_internet that a connection's byte streams  *)
(* do without: reading a counter of the chip, the calls of a sketch and    *)
(* the answers they work on, datagrams, and names.  They share no state;   *)
(* `part' says which of them a behaviour is about, and the others stay as  *)
(* they began.  InternetProofs has the proofs about each of them.          *)
(***************************************************************************)
EXTENDS StableRead, HttpAnswer, CfInternet, EthernetUdp, DnsClient

VARIABLE part
vars == <<part, readVars, answerVars, requestVars, udpVars, dnsVars>>

Init ==
    /\ part \in {"read", "answer", "request", "udp", "dns"}
    /\ ReadInit /\ (part # "read" => reg = [hi |-> 0, lo |-> 0])
    /\ IF part = "answer" THEN AnswerInit
       ELSE buffer = [k \in Index |-> NUL] /\ response = <<>> /\ overrun = FALSE /\ cutting = "idle"
    /\ RequestInit /\ UdpInit
    /\ DnsInit /\ (part # "dns" => host = CHOOSE h \in Hosts : TRUE)

Next ==
    /\ UNCHANGED part
    /\ \/ part = "read" /\ ReadNext /\ UNCHANGED <<answerVars, requestVars, udpVars, dnsVars>>
       \/ part = "answer" /\ AnswerNext /\ UNCHANGED <<readVars, requestVars, udpVars, dnsVars>>
       \/ part = "request" /\ RequestNext /\ UNCHANGED <<readVars, answerVars, udpVars, dnsVars>>
       \/ part = "udp" /\ UdpNext /\ UNCHANGED <<readVars, answerVars, requestVars, dnsVars>>
       \/ part = "dns" /\ DnsNext /\ UNCHANGED <<readVars, answerVars, requestVars, udpVars>>

\* The fairness of each part, as its module states it, for the behaviours about that part.
Fairness == /\ WF_readVars(part = "read" /\ ReadHigh)
            /\ WF_readVars(part = "read" /\ ReadLow)
            /\ WF_readVars(part = "read" /\ ReadReturn)
            /\ WF_requestVars(part = "request" /\ Sketch)
            /\ WF_requestVars(part = "request" /\ TimePasses)
            /\ WF_dnsVars(part = "dns" /\ Resolving)
Spec == Init /\ [][Next]_vars /\ Fairness
-----------------------------------------------------------------------------
\* The calls that wait all return: the reading of a counter (socket.cpp, lines 263-275,
\* 382-395), the calls of a sketch whether the server answers or not (cf_internet.cpp, lines
\* 260-268, 361-370, 528-537), and the lookup of a name (Dns.cpp, lines 117-134, 218-224).
CallsReturn == ReadReturns /\ RequestReturns /\ LookupEnds
=============================================================================

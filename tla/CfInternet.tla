----------------------------- MODULE CfInternet -----------------------------
(***************************************************************************)
(* The calls of cf_internet.cpp that a sketch makes in its loop:           *)
(* askServerJson (askServerJsonGet is the same code under another name)    *)
(* fetches the settings of the control ports, jsonSendData and             *)
(* jsonSendDataGET deliver measurements.  All of them use the one global   *)
(* EthernetClient.  The other actors are the server, whose response        *)
(* arrives in two chunks, late, cut short or never, and millis().          *)
(*                                                                         *)
(* Bytes are known by the call whose request they answer.  What is left of *)
(* a response in the stack array is the subject of HttpAnswer; here it is  *)
(* the call whose answer lies there (`left').                              *)
(***************************************************************************)
EXTENDS Integers, Sequences

CONSTANTS Row,       \* the rows of soll, modus and anw
          MaxCalls   \* bound: the calls are numbered 1..MaxCalls, over and over

ASSUME CallsAssumption == MaxCalls \in Nat \ {0}

CallNumber == 1..MaxCalls
Kind == {"ask", "send", "get"}

VARIABLES doing, kind, req, \* the call that runs or ran last, and its number
          client,          \* does the client hold an established connection?
          owed, inbox,     \* chunks the server has to send, chunks unread
          late,            \* millis() - timeout > HTTP_TIMEOUT_MS
          printed,         \* a request was printed without a connection
          content,         \* the chunks this call has read
          left,            \* whose answer the stack array holds, 0: none
          settings,        \* whose answer each row holds, 0: the sketch's own
          result
requestVars == <<doing, kind, req, client, owed, inbox, late, printed, content, left,
                 settings, result>>

RequestInit == /\ doing = "idle" /\ kind = "ask" /\ req = 0 /\ result = 0
               /\ client = FALSE /\ owed = <<>> /\ inbox = <<>> /\ late = FALSE
               /\ printed = FALSE /\ content = <<>> /\ left = 0
               /\ settings = [r \in Row |-> 0]

\* ---- the server and the clock ----
ServerSends == /\ owed # <<>> /\ owed' = Tail(owed)
               /\ inbox' = Append(inbox, Head(owed))
               /\ UNCHANGED <<doing, kind, req, client, late, printed, content,
                              left, settings, result>>

ServerStops == /\ owed # <<>> /\ owed' = <<>>
               /\ UNCHANGED <<doing, kind, req, client, inbox, late, printed,
                              content, left, settings, result>>

TimePasses == /\ doing \in {"wait", "check"} /\ ~late /\ late' = TRUE
              /\ UNCHANGED <<doing, kind, req, client, owed, inbox, printed,
                             content, left, settings, result>>

\* ---- the sketch ----
NoConnection == client' = FALSE /\ owed' = <<>> /\ inbox' = <<>>

Return(value) == doing' = "idle" /\ result' = value

\* Mutant: connect goes on with the connection the client has.
CallKeepsConnection(k) ==
  /\ doing = "idle"
  /\ req' = (req % MaxCalls) + 1 /\ kind' = k /\ doing' = "connect"
  /\ late' = FALSE /\ content' = <<>>
  /\ UNCHANGED <<client, owed, inbox, printed, left, settings, result>>

\* client.connect first lets go of whatever connection the client still has.
Call(k) == /\ doing = "idle"
           /\ req' = (req % MaxCalls) + 1 /\ kind' = k /\ doing' = "connect"
           /\ NoConnection /\ late' = FALSE /\ content' = <<>>
           /\ UNCHANGED <<printed, left, settings, result>>

ConnectOk == /\ doing = "connect" /\ doing' = "print" /\ client' = TRUE
             /\ UNCHANGED <<kind, req, owed, inbox, late, printed, content,
                            left, settings, result>>

\* The result of a failed connect is 0: askServerJson returns, the switch of
\* the two others has no case for it.
ConnectFails == /\ doing = "connect"
                /\ IF kind = "ask" THEN Return(-1)
                   ELSE doing' = "print" /\ UNCHANGED result
                /\ UNCHANGED <<kind, req, client, owed, inbox, late, printed,
                               content, left, settings>>

SendRequest == /\ doing = "print" /\ doing' = "wait"
               /\ owed' = IF client THEN <<req, req>> ELSE <<>>
               /\ printed' = (printed \/ ~client)
               /\ UNCHANGED <<kind, req, client, inbox, late, content, left,
                              settings, result>>

\* while (client.available() == 0) ...
Wait == /\ doing = "wait"
        /\ doing' = IF inbox = <<>> THEN "check" ELSE "read"
        /\ UNCHANGED <<kind, req, client, owed, inbox, late, printed, content,
                       left, settings, result>>

\* ... if (millis() - timeout > HTTP_TIMEOUT_MS) { client.stop(); return -1; }
NotYet == /\ doing = "check" /\ ~late /\ doing' = "wait"
          /\ UNCHANGED <<kind, req, client, owed, inbox, late, printed, content,
                         left, settings, result>>

Timeout == /\ doing = "check" /\ late
           /\ NoConnection /\ Return(-1)
           /\ UNCHANGED <<kind, req, late, printed, content, left, settings>>

\* readBytes, or the next line of readStringUntil: what has arrived.
ReadChunk == /\ doing = "read" /\ inbox # <<>>
             /\ content' = Append(content, Head(inbox)) /\ inbox' = Tail(inbox)
             /\ UNCHANGED <<doing, kind, req, client, owed, late, printed, left,
                            settings, result>>

\* No byte for the stream's timeout, or the end: askServerJson and jsonSendData
\* close the connection.
EndRead == /\ doing = "read" /\ inbox = <<>> /\ kind # "get"
           /\ NoConnection /\ doing' = "parse"
           /\ UNCHANGED <<kind, req, late, printed, content, left, settings,
                          result>>

\* jsonSendDataGET returns as soon as nothing is available; what follows its
\* return, client.stop() included, is not reached.
EndGet == /\ doing = "read" /\ inbox = <<>> /\ kind = "get"
          /\ Return(1)
          /\ UNCHANGED <<kind, req, client, owed, inbox, late, printed, content,
                         left, settings>>

\* The answers deserializeJson may be given: the response's own array when all
\* of it was read, else whatever the stack array still held.
Parsable == (IF Len(content) = 2 THEN {req} ELSE {}) \cup ({left} \ {0})

\* A response without an array, or an array that is no JSON.
ParseFails == /\ doing = "parse"
              /\ Return(-1)
              /\ UNCHANGED <<kind, req, client, owed, inbox, late, printed,
                             content, left, settings>>

\* The rows of the answer are copied, or its confirmations counted.
Adopt(a, rows) ==
  /\ doing = "parse" /\ left' = a
  /\ settings' = IF kind = "ask" THEN [r \in Row |-> IF r \in rows THEN a ELSE settings[r]]
                 ELSE settings
  /\ Return(1)
  /\ UNCHANGED <<kind, req, client, owed, inbox, late, printed, content>>

Sketch == \/ ConnectOk \/ ConnectFails \/ SendRequest \/ Wait \/ NotYet \/ Timeout
          \/ ReadChunk \/ EndRead \/ EndGet \/ ParseFails
          \/ \E a \in Parsable, rows \in SUBSET Row : Adopt(a, rows)

RequestNext == ServerSends \/ ServerStops \/ TimePasses \/ (\E k \in Kind : Call(k))
               \/ Sketch
RequestSpec == RequestInit /\ [][RequestNext]_requestVars

\* The sketch runs and time passes; the server owes nothing.
RequestFairSpec == RequestSpec /\ WF_requestVars(Sketch) /\ WF_requestVars(TimePasses)
-----------------------------------------------------------------------------
RequestTypeOK == /\ doing \in {"idle", "connect", "print", "wait", "check", "read", "parse"}
                 /\ kind \in Kind /\ req \in 0..MaxCalls /\ result \in {-1, 0, 1}
                 /\ client \in BOOLEAN /\ late \in BOOLEAN /\ printed \in BOOLEAN
                 /\ owed \in Seq(CallNumber) /\ inbox \in Seq(CallNumber)
                 /\ content \in Seq(CallNumber) /\ left \in 0..MaxCalls
                 /\ settings \in [Row -> 0..MaxCalls]

\* The bytes a call reads answer its own request, although the former call may
\* have left its connection open with the rest of a response on the way
\* (EthernetClient.cpp, lines 31-36, and cf_internet.cpp, lines 226-276).
ReadsOwnAnswer == \A k \in DOMAIN content : content[k] = req

\* A call that posts leaves no connection behind, however it ends (lines
\* 361-382, 528-549).
PostReleasesClient == doing = "idle" /\ kind \in {"ask", "send"} =>
                        ~client /\ owed = <<>> /\ inbox = <<>>

\* No call works on the bytes of another one: those left by a GET are dropped by the next
\* connect, and a POST leaves none.
OwnBytesOnly == ReadsOwnAnswer /\ PostReleasesClient

\* Every call returns, whether the server answers, stops half-way or stays
\* silent (lines 260-268, 361-370, 528-537).
RequestReturns == doing # "idle" ~> doing = "idle"

(* Not true of this code (README, known disagreements). *)

\* "connection failed ..." and return -1 (lines 237-244, 339-346): no request is
\* printed without a connection.
RequestOnlyWhenConnected == ~printed

\* "closing connection" (lines 276-280): jsonSendDataGET stops the client.
GetClosesConnection == doing = "idle" /\ kind = "get" => ~client
=============================================================================

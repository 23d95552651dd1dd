---------------------------- MODULE SerialFirmata ----------------------------
(***************************************************************************)
(* Firmata/utility/SerialFirmata.cpp: the host opens serial ports of the   *)
(* board, writes to them and has them polled.  A software port is an       *)
(* object of the heap; its pointer is never cleared.                       *)
(***************************************************************************)
EXTENDS Integers, Sequences, FiniteSets, SequencesExt

CONSTANTS HwPorts, SwPorts,     \* Serial1 .. on this board; SW_SERIAL0 ..
          MAX_SERIAL_PORTS,
          Limits,               \* bytes to read at a time, 0 for all
          MaxWaiting, MaxSerialMessages   \* bounds

SerialPorts == HwPorts \cup SwPorts

VARIABLES swSerial,        \* pointer of a software port: "null", "live" or "freed"
          listening,       \* the software port that listens, as a set
          reportSerial,    \* the ports that are polled, in order
          bytesToRead,     \* serialBytesToRead
          waiting,         \* bytes a port has received
          dangling,        \* a freed port has been used
          polled,          \* history: the ports the host has asked for and has not stopped
          serialAdrift,    \* history: a stop of no such port has stopped another one
          serialMessages
serialVars == <<swSerial, listening, reportSerial, bytesToRead, waiting, dangling, polled, serialAdrift, serialMessages>>

SerialInit == /\ swSerial = [p \in SwPorts |-> "null"] /\ listening = {} /\ reportSerial = <<>>
              /\ bytesToRead = [p \in SerialPorts |-> 0] /\ waiting = [p \in SerialPorts |-> 0]
              /\ dangling = FALSE /\ polled = <<>> /\ serialAdrift = FALSE /\ serialMessages = 0

\* getPortFromId(): a port that is there, alive or not.
GetPortFromId(p) == p \in SwPorts => swSerial[p] # "null"
Uses(p) == dangling' = (p \in SwPorts /\ swSerial[p] = "freed")

SerialMessage == ~dangling /\ serialMessages < MaxSerialMessages /\ serialMessages' = serialMessages + 1

\* SERIAL_CONFIG: a software port is made once; begin() makes it the listener.
SerialConfig(p) ==
    /\ SerialMessage /\ Uses(p)
    /\ swSerial' = [q \in SwPorts |-> IF q = p /\ swSerial[q] = "null" THEN "live" ELSE swSerial[q]]
    /\ listening' = IF p \in SwPorts THEN {p} ELSE listening
    /\ UNCHANGED <<reportSerial, bytesToRead, waiting, polled, serialAdrift>>

\* SERIAL_WRITE, SERIAL_FLUSH
SerialUse(p) == /\ SerialMessage /\ GetPortFromId(p) /\ Uses(p)
                /\ UNCHANGED <<swSerial, listening, reportSerial, bytesToRead, waiting, polled, serialAdrift>>

SerialListen(p) == /\ SerialMessage /\ p \in SwPorts /\ GetPortFromId(p) /\ Uses(p)
                   /\ listening' = {p}
                   /\ UNCHANGED <<swSerial, reportSerial, bytesToRead, waiting, polled, serialAdrift>>

\* With the list full the request is dropped, and the host is not told.
SerialRead(p, n) ==
    /\ SerialMessage
    /\ \/ /\ Len(reportSerial) < MAX_SERIAL_PORTS
          /\ bytesToRead' = [bytesToRead EXCEPT ![p] = n]
          /\ reportSerial' = Append(reportSerial, p) /\ polled' = Append(polled, p)
       \/ /\ Len(reportSerial) >= MAX_SERIAL_PORTS
          /\ UNCHANGED <<bytesToRead, reportSerial, polled>>
    /\ UNCHANGED <<swSerial, listening, waiting, dangling, serialAdrift>>

\* The first entry of the port goes; if there is none the first of all, and the only one in any case.
SerialStop(p) ==
    LET hits == {i \in 1 .. Len(reportSerial) : reportSerial[i] = p}
        i == IF hits = {} THEN 1 ELSE CHOOSE i \in hits : \A j \in hits : i <= j
    IN /\ SerialMessage
       /\ reportSerial' = IF Len(reportSerial) <= 1 THEN <<>> ELSE RemoveAt(reportSerial, i)
       /\ \/ \E k \in 1 .. Len(polled) :
                /\ polled[k] = p /\ \A j \in 1 .. k - 1 : polled[j] # p
                /\ polled' = RemoveAt(polled, k) /\ UNCHANGED serialAdrift
          \/ /\ \A k \in 1 .. Len(polled) : polled[k] # p
             /\ serialAdrift' = (serialAdrift \/ reportSerial # <<>>) /\ UNCHANGED polled
       /\ UNCHANGED <<swSerial, listening, bytesToRead, waiting, dangling>>

\* SERIAL_CLOSE: the object is freed; only the local copy of the pointer is cleared.
SerialClose(p) ==
    /\ SerialMessage /\ GetPortFromId(p) /\ Uses(p)
    /\ swSerial' = [q \in SwPorts |-> IF q = p THEN "freed" ELSE swSerial[q]]
    /\ listening' = listening \ {p}
    /\ UNCHANGED <<reportSerial, bytesToRead, waiting, polled, serialAdrift>>

\* Mutant: the ports are freed, and polled on.
SerialResetPollsOn ==
    /\ SerialMessage
    /\ dangling' = \E p \in SwPorts : swSerial[p] = "freed"
    /\ swSerial' = [q \in SwPorts |-> IF swSerial[q] = "null" THEN "null" ELSE "freed"]
    /\ listening' = {} /\ polled' = <<>> /\ serialAdrift' = FALSE /\ bytesToRead' = [p \in SerialPorts |-> 0]
    /\ UNCHANGED <<reportSerial, waiting>>

\* reset(): the software ports are freed, once more if they are freed already.
SerialReset ==
    /\ SerialMessage
    /\ dangling' = \E p \in SwPorts : swSerial[p] = "freed"
    /\ swSerial' = [q \in SwPorts |-> IF swSerial[q] = "null" THEN "null" ELSE "freed"]
    /\ listening' = {} /\ reportSerial' = <<>> /\ polled' = <<>> /\ serialAdrift' = FALSE
    /\ bytesToRead' = [p \in SerialPorts |-> 0]
    /\ UNCHANGED waiting

\* checkSerial(): of every polled port that has something, at most the bytes asked for.
CheckSerial ==
    LET Polled == {reportSerial[i] : i \in 1 .. Len(reportSerial)}
        ready == {p \in Polled : GetPortFromId(p) /\ (p \in SwPorts => p \in listening)}
        Times(p) == Cardinality({i \in 1 .. Len(reportSerial) : reportSerial[i] = p})
        Left(n, p) == IF bytesToRead[p] = 0 THEN 0 ELSE IF n > Times(p) * bytesToRead[p] THEN n - Times(p) * bytesToRead[p] ELSE 0
    IN /\ ~dangling
       /\ dangling' = \E p \in Polled \cap SwPorts : swSerial[p] = "freed"
       /\ waiting' = [p \in SerialPorts |-> IF p \in ready THEN Left(waiting[p], p) ELSE waiting[p]]
       /\ UNCHANGED <<swSerial, listening, reportSerial, bytesToRead, polled, serialAdrift, serialMessages>>

SerialReceives(p) == /\ waiting[p] < MaxWaiting /\ waiting' = [waiting EXCEPT ![p] = @ + 1]
                     /\ UNCHANGED <<swSerial, listening, reportSerial, bytesToRead, dangling, polled, serialAdrift, serialMessages>>

SerialNext == \/ \E p \in SerialPorts : \/ SerialConfig(p) \/ SerialUse(p) \/ SerialListen(p)
                                        \/ SerialStop(p) \/ SerialClose(p) \/ SerialReceives(p)
                                        \/ \E n \in Limits : SerialRead(p, n)
              \/ SerialReset \/ CheckSerial
-----------------------------------------------------------------------------
\* The ports that are polled are those the host has asked for and not stopped, until it stops
\* one that is not polled, and again after a reset.
PolledAsAsked == ~serialAdrift => reportSerial = polled

(* Not true of this code (README, known disagreements). *)

\* Line 161: "fill space left by removed element", whether the port to stop is there or not
\* (lines 150-168), say because its SERIAL_READ found the list full (line 137).
OnlyAskedPorts == reportSerial = polled

\* A port that was closed is not used again.
NoUseAfterFree == ~dangling
=============================================================================

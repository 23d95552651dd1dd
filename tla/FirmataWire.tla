---------------------------- MODULE FirmataWire ----------------------------
(***************************************************************************)
(* Firmata/FirmataMarshaller.cpp and FirmataParser.cpp: messages become    *)
(* bytes at one end of a stream and calls of the sketch's callbacks at the *)
(* other.  A stream over Ethernet may be closed and opened again in the    *)
(* middle of a message; the parser is not told.                            *)
(*                                                                         *)
(* A message is the callback it is meant to cause: its name and arguments; *)
(* but a report of the protocol version is <<"protocol", major, minor>>, a *)
(* query of a pin's state <<"pinState", pin>>.                             *)
(***************************************************************************)
EXTENDS Integers, Sequences

CONSTANTS Messages,     \* what the other end sends
          BufferSize,   \* MAX_DATA_BYTES
          Commands,     \* callbacks the sketch attaches and detaches
          MaxStream,    \* bound: bytes on the way when a message is sent
          MaxReconnects \* bound: connections lost

ASSUME WireAssumption == BufferSize \in Nat /\ BufferSize >= 4

VARIABLES stream,     \* bytes written and not yet read
          parser,     \* the FirmataParser; call is the callback the last byte caused
          attached,   \* callbacks that are set
          reconnects
wireVars == <<stream, parser, attached, reconnects>>

DIGITAL_MESSAGE == 144    REPORT_ANALOG == 192    REPORT_DIGITAL == 208
ANALOG_MESSAGE  == 224    START_SYSEX   == 240    SET_PIN_MODE   == 244
SET_DIGITAL_PIN_VALUE == 245    END_SYSEX == 247  REPORT_VERSION == 249
SYSTEM_RESET    == 255    EXTENDED_ANALOG == 111  STRING_DATA    == 113
REPORT_FIRMWARE == 121  PIN_STATE_QUERY == 109

-----------------------------------------------------------------------------
(* FirmataMarshaller.                                                       *)

\* encodeByteStream(): a number, cut into groups of 7 bits.  A byte fills two of them, and
\* of a word no more than two are sent.
EncodeByteStream(value) == <<value % 128, (value \div 128) % 128>>

EncodeEach(bytes) == [i \in 1 .. 2 * Len(bytes) |-> EncodeByteStream(bytes[(i + 1) \div 2])[2 - (i % 2)]]
SysexOf(bytes)    == <<START_SYSEX>> \o bytes \o <<END_SYSEX>>

SendSysex(command, bytes) == SysexOf(<<command>> \o EncodeEach(bytes))
SendAnalog(pin, value) ==
    IF pin <= 15 /\ value <= 16383 THEN <<ANALOG_MESSAGE + pin>> \o EncodeByteStream(value)
    ELSE SysexOf(<<EXTENDED_ANALOG, pin>> \o EncodeByteStream(value))

Marshal(m) ==
    CASE m[1] = "analog"        -> SendAnalog(m[2], m[3])
      [] m[1] = "digital"       -> <<DIGITAL_MESSAGE + (m[2] % 16)>> \o EncodeByteStream(m[3])
      [] m[1] = "reportAnalog"  -> <<REPORT_ANALOG + (m[2] % 16), m[3]>>
      [] m[1] = "reportDigital" -> <<REPORT_DIGITAL + (m[2] % 16), m[3]>>
      [] m[1] = "pinMode"       -> <<SET_PIN_MODE, m[2], m[3]>>
      [] m[1] = "pinValue"      -> <<SET_DIGITAL_PIN_VALUE, m[2] % 128, IF m[3] # 0 THEN 1 ELSE 0>>
      [] m[1] = "version"       -> <<REPORT_VERSION>>
      [] m[1] = "protocol"      -> <<REPORT_VERSION, m[2], m[3]>>
      [] m[1] = "pinState"      -> SysexOf(<<PIN_STATE_QUERY, m[2]>>)
      [] m[1] = "reset"         -> <<SYSTEM_RESET>>
      [] m[1] = "string"        -> SendSysex(STRING_DATA, m[2])
      [] m[1] = "query"         -> SysexOf(<<REPORT_FIRMWARE>>)
      [] m[1] = "firmware"      -> SysexOf(<<REPORT_FIRMWARE, m[2], m[3]>> \o EncodeEach(m[4]))
      [] m[1] = "sysex"         -> SendSysex(m[2], m[3])

\* What the protocol has a message for: data of 14 bits at most, no more than the parser's
\* buffer holds, and nothing in a sysex message that ends it.
InSysex       == (0 .. 255) \ {END_SYSEX}
Data14        == 0 .. 16383
Bytes(before) == {d \in Seq(0 .. 255) : before + 2 * Len(d) <= BufferSize}
WellFormed(m) ==
    \/ m \in {<<"version">>, <<"reset">>, <<"query">>}
    \/ m \in {"analog"} \X InSysex \X Data14
    \/ m \in {"digital"} \X (0 .. 15) \X Data14
    \/ m \in {"reportAnalog", "reportDigital"} \X (0 .. 15) \X {0, 1}
    \/ m \in {"pinMode", "protocol"} \X (0 .. 127) \X (0 .. 127)
    \/ m \in {"pinState"} \X InSysex
    \/ m \in {"pinValue"} \X (0 .. 127) \X {0, 1}
    \/ m \in {"string"} \X Bytes(1)
    \/ m \in {"firmware"} \X InSysex \X InSysex \X Bytes(3)
    \/ m \in {"sysex"} \X (InSysex \ {REPORT_FIRMWARE, STRING_DATA}) \X Bytes(1)

ASSUME MessagesAssumption == \A m \in Messages : WellFormed(m)

\* The callback a message is meant to cause.  To a parser a report of the version is a query.
Meant(m) ==
    CASE m[1] = "sysex" -> <<"sysex", m[2], EncodeEach(m[3])>>
      [] m[1] = "protocol" -> <<"version">>
      [] m[1] = "pinState" -> <<"sysex", PIN_STATE_QUERY, <<m[2]>>>>
      [] m[1] = "query" -> <<"firmware", 0, 0, <<>>>>
      [] m[1] = "analog" /\ m[2] > 15 -> <<"sysex", EXTENDED_ANALOG, <<m[2], m[3] % 128, m[3] \div 128>>>>
      [] OTHER -> m

-----------------------------------------------------------------------------
(* FirmataParser.                                                           *)

Idle == [buf |-> [i \in 0 .. BufferSize - 1 |-> 0], wait |-> 0, cmd |-> 0, chan |-> 0,
         sysex |-> FALSE, n |-> 0, call |-> <<>>]

BufferDataAtPosition(p, byte, pos) == IF pos >= BufferSize THEN p ELSE [p EXCEPT !.buf[pos] = byte]

\* Two bytes of 7 bits become one of 8, from a position of the buffer on.
Joined(low, high) == (low % 128) + (IF low >= 128 \/ high % 2 = 1 THEN 128 ELSE 0)
DecodeByteStream(p, from, count) ==
    [i \in 1 .. (count + 1) \div 2 |->
        Joined(p.buf[from + 2 * i - 2], p.buf[(from + 2 * i - 1) % BufferSize])]

\* A message longer than the buffer: the callback is told of bytes behind it.
ProcessSysexMessage(p) ==
    IF p.n > BufferSize THEN <<"overrun", p.buf[0]>>
    ELSE IF p.buf[0] = REPORT_FIRMWARE
    THEN IF p.n < 3 THEN <<"firmware", 0, 0, <<>>>>
         ELSE <<"firmware", p.buf[1], p.buf[2], DecodeByteStream(p, 3, p.n - 3)>>
    ELSE IF p.n = 0 THEN <<"overrun", p.buf[0]>>
    ELSE IF p.buf[0] = STRING_DATA THEN <<"string", DecodeByteStream(p, 1, p.n - 1)>>
    ELSE <<"sysex", p.buf[0], [i \in 1 .. p.n - 1 |-> p.buf[i]]>>

MultiByteMessage(p) ==
    LET value == p.buf[0] * 128 + p.buf[1] IN
    CASE p.cmd = ANALOG_MESSAGE        -> <<"analog", p.chan, value>>
      [] p.cmd = DIGITAL_MESSAGE       -> <<"digital", p.chan, value>>
      [] p.cmd = SET_PIN_MODE          -> <<"pinMode", p.buf[1], p.buf[0]>>
      [] p.cmd = SET_DIGITAL_PIN_VALUE -> <<"pinValue", p.buf[1], p.buf[0]>>
      [] p.cmd = REPORT_ANALOG         -> <<"reportAnalog", p.chan, p.buf[0]>>
      [] p.cmd = REPORT_DIGITAL        -> <<"reportDigital", p.chan, p.buf[0]>>

Data(p, byte) ==
    LET q == BufferDataAtPosition([p EXCEPT !.wait = @ - 1], byte, p.wait - 1) IN
    IF q.wait = 0 /\ q.cmd # 0 THEN [q EXCEPT !.call = <<MultiByteMessage(q)>>, !.cmd = 0] ELSE q

\* Mutant: a command waits for as many bytes as the one before left open.
CommandKeepsWait(p, byte) ==
    LET command == IF byte < 240 THEN byte - (byte % 16) ELSE byte
        q == IF byte < 240 THEN [p EXCEPT !.chan = byte % 16] ELSE p
        Expect(k) == [q EXCEPT !.wait = IF @ = 0 THEN k ELSE @, !.cmd = command]
    IN CASE command \in {ANALOG_MESSAGE, DIGITAL_MESSAGE, SET_PIN_MODE, SET_DIGITAL_PIN_VALUE} -> Expect(2)
         [] command \in {REPORT_ANALOG, REPORT_DIGITAL} -> Expect(1)
         [] command = START_SYSEX    -> [q EXCEPT !.sysex = TRUE, !.n = 0]
         [] command = SYSTEM_RESET   -> [Idle EXCEPT !.call = <<<<"reset">>>>]
         [] command = REPORT_VERSION -> [q EXCEPT !.call = <<<<"version">>>>]
         [] OTHER -> q

\* A command byte takes over from whatever was waited for.
Command(p, byte) ==
    LET command == IF byte < 240 THEN byte - (byte % 16) ELSE byte
        q == IF byte < 240 THEN [p EXCEPT !.chan = byte % 16] ELSE p
        Expect(k) == [q EXCEPT !.wait = k, !.cmd = command]
    IN CASE command \in {ANALOG_MESSAGE, DIGITAL_MESSAGE, SET_PIN_MODE, SET_DIGITAL_PIN_VALUE} -> Expect(2)
         [] command \in {REPORT_ANALOG, REPORT_DIGITAL} -> Expect(1)
         [] command = START_SYSEX    -> [q EXCEPT !.sysex = TRUE, !.n = 0]
         [] command = SYSTEM_RESET   -> [Idle EXCEPT !.call = <<<<"reset">>>>]
         [] command = REPORT_VERSION -> [q EXCEPT !.call = <<<<"version">>>>]
         [] OTHER -> q

\* n is counted up to one more than the buffer holds: beyond, nothing tells counts apart.
ParseByte(was, byte) ==
    LET p == [was EXCEPT !.call = <<>>] IN
    CASE p.sysex /\ byte = END_SYSEX -> [p EXCEPT !.sysex = FALSE, !.call = <<ProcessSysexMessage(p)>>]
      [] p.sysex /\ byte # END_SYSEX -> [BufferDataAtPosition(p, byte, p.n) EXCEPT !.n = IF @ > BufferSize THEN @ ELSE @ + 1]
      [] ~p.sysex /\ p.wait > 0 /\ byte < 128 -> Data(p, byte)
      [] OTHER -> Command(p, byte)

-----------------------------------------------------------------------------
WireInit == stream = <<>> /\ parser = Idle /\ attached = {} /\ reconnects = 0

Send(m) == /\ Len(stream) <= MaxStream
           /\ stream' = stream \o Marshal(m)
           /\ UNCHANGED <<parser, attached, reconnects>>

\* processInput(): the static callbacks hand on what the sketch has attached; version and
\* firmware are answered by the library itself.
ProcessInput == /\ stream # <<>>
                /\ parser' = [ParseByte(parser, Head(stream)) EXCEPT
                                 !.call = IF @ # <<>> /\ @[1][1] \in attached THEN @ ELSE <<>>]
                /\ stream' = Tail(stream)
                /\ UNCHANGED <<attached, reconnects>>

Attach(c) == attached' = attached \cup {c} /\ UNCHANGED <<stream, parser, reconnects>>
Detach(c) == attached' = attached \ {c} /\ UNCHANGED <<stream, parser, reconnects>>

\* maintain() of a stream over Ethernet: the connection is closed and replaced by a new one.
Reconnect == /\ reconnects < MaxReconnects /\ reconnects' = reconnects + 1
             /\ stream' = <<>>
             /\ UNCHANGED <<parser, attached>>

WireNext == \/ \E m \in Messages : Send(m)
            \/ ProcessInput \/ Reconnect
            \/ \E c \in Commands : Attach(c) \/ Detach(c)
-----------------------------------------------------------------------------
\* The parser when it has read all that is on the way, and the callbacks until then.
ReadOn(was, byte) == LET q == ParseByte(was.parser, byte) IN [parser |-> q, calls |-> was.calls \o q.call]
AtEnd(p, bytes) ==
    LET reads[i \in 0 .. Len(bytes)] ==
            IF i = 0 THEN [parser |-> p, calls |-> <<>>] ELSE ReadOn(reads[i - 1], bytes[i])
    IN reads[Len(bytes)]

\* Whatever the stream and the parser hold, remnants of a message of a lost connection
\* included, a message that is sent adds exactly the callback it is meant to cause; only
\* within a sysex message that was cut off it is lost, and a report of the version counts
\* where no data are waited for (FirmataParser::parse).
DeliversWhole ==
    [][\A m \in Messages :
        /\ Send(m) /\ ~AtEnd(parser, stream).parser.sysex
        /\ m[1] = "protocol" => AtEnd(parser, stream).parser.wait = 0
        => AtEnd(parser', stream').calls = Append(AtEnd(parser, stream).calls, Meant(m))]_wireVars

(* Not true of this code (README, known disagreements). *)

\* A report of the version counts wherever it comes (FirmataMarshaller::sendVersion): but
\* REPORT_VERSION does not end a wait (FirmataParser.cpp:165), and after a SET_PIN_MODE that
\* was cut off behind its command the version's two bytes are its data: pinMode(2, 5).
VersionIsWhole ==
    [][\A m \in Messages :
        Send(m) /\ m[1] = "protocol" /\ ~AtEnd(parser, stream).parser.sysex
        => AtEnd(parser', stream').calls = Append(AtEnd(parser, stream).calls, Meant(m))]_wireVars

=============================================================================

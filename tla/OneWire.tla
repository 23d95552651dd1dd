------------------------------- MODULE OneWire -------------------------------
(***************************************************************************)
(* OneWire/OneWire.cpp and the alarm search of DallasTemperature.cpp: the  *)
(* devices of a bus are found one after the other by the bits of their     *)
(* codes.  All devices that are still in the search answer at once, and a  *)
(* zero wins over a one.  A device may leave the bus at any time.          *)
(*                                                                         *)
(* A code is a sequence of bits; its first FamilyBits name the family.     *)
(***************************************************************************)
EXTENDS Integers, Sequences, FiniteSets, SequencesExt

CONSTANTS Codes,        \* of the devices there are
          Bits, FamilyBits,
          MaxLost       \* bound: devices that leave, alarms that end

Family(d) == SubSeq(d, 1, FamilyBits)
Zeros(n) == [i \in 1 .. n |-> 0]

\* The last byte of a code is a checksum of the others, and no family is 0.
ASSUME CodeAssumption == /\ {FamilyBits, Bits} \subseteq Nat /\ FamilyBits < Bits /\ IsFiniteSet(Codes)
                         /\ Codes \subseteq [1 .. Bits -> {0, 1}]
                         /\ \A d, e \in Codes : Front(d) = Front(e) => d = e
                         /\ \A d \in Codes : Family(d) # Zeros(FamilyBits)

VARIABLES onBus, alarmed,   \* devices that answer, and those that answer an alarm search
          search,           \* ROM_NO, LastDiscrepancy, LastDeviceFlag
          alarm,            \* alarmSearchAddress, alarmSearchJunction, alarmSearchExhausted
          walk,             \* locals of the call: the bit that comes next (0: no call), the
                            \* devices that still answer, last_zero or lastJunction, done
          pass,             \* which search is under way: <<"search">>, <<"alarm">>, <<"target", family>>
          ended,            \* its last call has returned false
          found,            \* history: the codes it has returned, while the bus was left alone
          answers,          \* history: how many
          disturbed, lost   \* history: a device has left during the pass; how many ever
oneWireVars == <<onBus, alarmed, search, alarm, walk, pass, ended, found, answers, disturbed, lost>>

NoCall == [k |-> 0, inPlay |-> {}, zero |-> 0, done |-> TRUE]
ResetSearch == [rom |-> Zeros(Bits), last |-> 0, flag |-> FALSE]
\* The junctions are counted from 1; 0 stands for the -1 of the source.
ResetAlarmSearch == [rom |-> Zeros(Bits), junction |-> 0, exhausted |-> FALSE]

OneWireInit ==
    /\ onBus \in SUBSET Codes /\ alarmed \in SUBSET onBus
    /\ search = ResetSearch /\ alarm = ResetAlarmSearch /\ walk = NoCall /\ pass = <<"none">> /\ ended = TRUE
    /\ found = <<>> /\ answers = 0 /\ disturbed = FALSE /\ lost = 0

\* processAlarms() goes on until a call returns false; another search may be started over.
Begin(p) == /\ walk.k = 0 /\ (ended \/ pass[1] # "alarm")
            /\ pass' = p /\ ended' = FALSE /\ found' = <<>> /\ answers' = 0 /\ disturbed' = FALSE
            /\ UNCHANGED <<onBus, alarmed, walk, lost>>
BeginSearch == Begin(<<"search">>) /\ search' = ResetSearch /\ UNCHANGED alarm
BeginTarget == \E d \in Codes :
    /\ Begin(<<"target", Family(d)>>) /\ UNCHANGED alarm
    /\ search' = [rom |-> Family(d) \o Zeros(Bits - FamilyBits), last |-> Bits, flag |-> FALSE]
BeginAlarms == Begin(<<"alarm">>) /\ alarm' = ResetAlarmSearch /\ UNCHANGED search

Return(ok, code) == /\ walk' = NoCall /\ ended' = ~ok
                    /\ answers' = IF ok /\ pass[1] # "alarm" THEN answers + 1 ELSE answers
                    /\ found' = IF ok /\ ~disturbed THEN Append(found, code) ELSE found
                    /\ UNCHANGED <<onBus, alarmed, pass, disturbed, lost>>
GoOn(w) == walk' = w /\ UNCHANGED <<onBus, alarmed, pass, ended, found, answers, disturbed, lost>>

Zero == \E d \in walk.inPlay : d[walk.k] = 0
One  == \E d \in walk.inPlay : d[walk.k] = 1
Keeps(bit) == {d \in walk.inPlay : d[walk.k] = bit}

-----------------------------------------------------------------------------
\* search(), from its start to the bits
SearchFails == search' = [search EXCEPT !.last = 0, !.flag = FALSE] /\ Return(FALSE, <<>>)
SearchCall == /\ walk.k = 0 /\ pass[1] \in {"search", "target"} /\ ~ended /\ UNCHANGED alarm
              /\ IF search.flag \/ onBus = {} THEN SearchFails
                 ELSE GoOn([NoCall EXCEPT !.k = 1, !.inPlay = onBus]) /\ UNCHANGED search

\* Mutant: at the last discrepancy the old bit is taken once more.
DirectionAgain == IF ~(Zero /\ One) THEN IF One THEN 1 ELSE 0
                  ELSE IF walk.k <= search.last THEN search.rom[walk.k] ELSE 0

Direction == IF ~(Zero /\ One) THEN IF One THEN 1 ELSE 0
             ELSE IF walk.k < search.last THEN search.rom[walk.k]
             ELSE IF walk.k = search.last THEN 1 ELSE 0

Searching == pass[1] # "alarm" /\ walk.k > 0 /\ UNCHANGED alarm
SearchBit == /\ Searching /\ walk.k <= Bits /\ (Zero \/ One)
             /\ search' = [search EXCEPT !.rom[walk.k] = Direction]
             /\ GoOn([walk EXCEPT !.k = @ + 1, !.inPlay = Keeps(Direction),
                                  !.zero = IF Zero /\ One /\ Direction = 0 THEN walk.k ELSE @])
SearchBreak == Searching /\ walk.k <= Bits /\ ~(Zero \/ One) /\ SearchFails
SearchReturn == /\ Searching /\ walk.k > Bits
                /\ IF Family(search.rom) = Zeros(FamilyBits) THEN SearchFails
                   ELSE /\ search' = [search EXCEPT !.last = walk.zero, !.flag = (walk.zero = 0)]
                        /\ Return(TRUE, search.rom)

-----------------------------------------------------------------------------
\* alarmSearch(): a call that is broken off keeps what it has changed so far.
AlarmCall == /\ walk.k = 0 /\ pass[1] = "alarm" /\ ~ended /\ UNCHANGED <<search, alarm>>
             /\ IF alarm.exhausted \/ onBus = {} THEN Return(FALSE, <<>>)
                ELSE GoOn([NoCall EXCEPT !.k = 1, !.inPlay = alarmed])

Alarming == pass[1] = "alarm" /\ walk.k > 0 /\ UNCHANGED search
AlarmBit ==
    LET both == Zero /\ One
        kept == both /\ walk.k < alarm.junction
        bit == IF ~both THEN IF One THEN 1 ELSE 0
               ELSE IF walk.k = alarm.junction THEN 1 ELSE IF kept THEN alarm.rom[walk.k] ELSE 0
    IN /\ Alarming /\ walk.k <= Bits /\ (Zero \/ One)
       /\ alarm' = [alarm EXCEPT !.rom[walk.k] = bit,
                                 !.junction = IF ~both \/ kept THEN @
                                              ELSE IF walk.k = @ THEN walk.zero ELSE walk.k]
       /\ GoOn([walk EXCEPT !.k = @ + 1, !.inPlay = Keeps(bit),
                            !.zero = IF kept /\ bit = 0 THEN walk.k ELSE @,
                            !.done = @ /\ ~(both /\ bit = 0)])
AlarmBreak == Alarming /\ walk.k <= Bits /\ ~(Zero \/ One) /\ UNCHANGED alarm /\ Return(FALSE, <<>>)
AlarmReturn == /\ Alarming /\ walk.k > Bits
               /\ alarm' = [alarm EXCEPT !.exhausted = walk.done]
               /\ Return(TRUE, alarm.rom)

-----------------------------------------------------------------------------
\* A device leaves, or between two calls measures anew and takes its alarm back.
Leaves == /\ lost < MaxLost /\ lost' = lost + 1
          /\ \E d \in onBus : /\ onBus' = onBus \ {d} \/ (walk.k = 0 /\ onBus' = onBus)
                              /\ alarmed' = alarmed \ {d}
                              /\ walk' = [walk EXCEPT !.inPlay = @ \ {d}]
          /\ disturbed' = TRUE /\ found' = <<>>
          /\ UNCHANGED <<search, alarm, pass, ended, answers>>

Working == SearchCall \/ SearchBit \/ SearchBreak \/ SearchReturn \/ AlarmCall \/ AlarmBit \/ AlarmBreak \/ AlarmReturn
OneWireNext == BeginSearch \/ BeginTarget \/ BeginAlarms \/ Working \/ Leaves
-----------------------------------------------------------------------------
\* A search of a bus that is left alone finds every device once and then says so; a search
\* for a family finds one of it first if there is one (search, target_search, alarmSearch).
FindsEachOnce ==
    ~disturbed /\ pass[1] # "none" =>
        IF pass[1] = "target"
        THEN found # <<>> /\ (\E d \in onBus : Family(d) = pass[2]) => Family(found[1]) = pass[2]
        ELSE /\ Len(found) = Cardinality(ToSet(found))
             /\ ended => ToSet(found) = IF pass[1] = "alarm" THEN alarmed ELSE onBus

\* Devices that leave while they are counted do not keep search() from ending: each may make
\* it count the bus once more, and no more than that.
SearchEnds == pass[1] = "search" => answers <= (lost + 1) * (Cardinality(Codes) + 1)

\* The loop `while (search(addr))' of every sketch counts what is there and ends.
SearchIsSound == FindsEachOnce /\ SearchEnds

(* Not true of this code (README, known disagreements). *)

\* "or something horrible happens in the middle of the enumeration then a 0 is returned"
\* (DallasTemperature.cpp, lines 875-877): the loop of processAlarms() ends.
AlarmsEnd == pass[1] = "alarm" ~> ended
=============================================================================

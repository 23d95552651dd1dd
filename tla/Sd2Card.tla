------------------------------- MODULE Sd2Card -------------------------------
(***************************************************************************)
(* SD/src/utility/Sd2Card.cpp: blocks are read, as a whole or in parts,    *)
(* and written over SPI.  The card sends a block byte after byte, refuses  *)
(* a command, never begins to send, is busy after a write for as long as   *)
(* it likes, and may find out then that the write has failed.  A busy card *)
(* holds the line low and hears no command; low reads as the answer 0.     *)
(*                                                                         *)
(* A byte is known by its block, the value of the block and its place; the *)
(* two bytes of checksum are the places BLOCK and BLOCK + 1.               *)
(***************************************************************************)
EXTENDS Integers, Sequences

CONSTANTS BlockNumbers, BLOCK,    \* numbers of blocks, and their length (512)
          BlockValues       \* what a block may hold

ASSUME CardAssumption == /\ BlockNumbers # {} /\ BlockNumbers \subseteq Nat
                         /\ BLOCK \in Nat \ {0} /\ BlockValues # {}

VARIABLES store,        \* the card's blocks
          sending,      \* <<block, place>> of the next byte, or <<>>
          programs,     \* the block it programs: <<>>, or <<block, value>>
          inBlock_, block_, offset_, partialBlockRead_,
          answered,     \* the last call: its kind, value, and the bytes it has read or was to write
          deselected    \* history: in the middle of the block last read of, a call took the card's select away
cardVars == <<store, sending, programs, inBlock_, block_, offset_, partialBlockRead_, answered, deselected>>

Silent == <<>>     \* the line when the card sends nothing
Answer(kind, ok, b, data) == answered' = [kind |-> kind, ok |-> ok, block |-> b, data |-> data]

CardInit == /\ store \in [BlockNumbers -> BlockValues] /\ sending = <<>> /\ programs = <<>>
            /\ inBlock_ = FALSE /\ block_ \in BlockNumbers /\ offset_ = 0 /\ partialBlockRead_ = FALSE
            /\ answered = [kind |-> "none", ok |-> TRUE, block |-> block_, data |-> <<>>] /\ deselected = FALSE

\* What n transfers read, and where they leave the card.
Byte(s, k) == IF s = <<>> \/ s[2] + k - 1 > BLOCK + 1 THEN Silent ELSE <<s[1], store[s[1]], s[2] + k - 1>>
Transfer(s, n) == [k \in 1 .. n |-> Byte(s, k)]
After(s, n) == IF s = <<>> \/ s[2] + n > BLOCK + 1 THEN <<>> ELSE <<s[1], s[2] + n>>

\* readEnd(): the rest and the checksum are skipped.
Ended(s) == IF inBlock_ THEN After(s, BLOCK + 2 - offset_) ELSE s
ReadEnd == /\ sending' = Ended(sending) /\ inBlock_' = FALSE /\ deselected' = FALSE
           /\ UNCHANGED <<store, programs, block_, offset_>>
PartialBlockRead(on) == ReadEnd /\ partialBlockRead_' = on /\ Answer("end", TRUE, block_, <<>>)

-----------------------------------------------------------------------------
\* Mutant: a block begun before is read on, whatever came in between.
ReadDataOn(b, from, count) ==
    LET on == inBlock_ /\ from >= offset_
        at == IF on THEN After(sending, from - offset_) ELSE <<b, from>>
    IN /\ on \/ programs = <<>>
       /\ block_' = b
       /\ IF partialBlockRead_ /\ from + count < BLOCK
          THEN sending' = After(at, count) /\ inBlock_' = TRUE /\ offset_' = from + count
          ELSE sending' = <<>> /\ inBlock_' = FALSE /\ offset_' = BLOCK + 2
       /\ deselected' = (on /\ deselected)
       /\ Answer("read", TRUE, <<b, from>>, Transfer(at, count))
       /\ UNCHANGED <<store, programs, partialBlockRead_>>

\* readData(): a block of which a part was read is read on, if the part wanted lies ahead.
ReadData(b, from, count) ==
    LET on == inBlock_ /\ block_ = b /\ from >= offset_
        at == IF on THEN After(sending, from - offset_) ELSE <<b, from>>
    IN /\ on \/ programs = <<>>
       /\ block_' = b
       /\ IF partialBlockRead_ /\ from + count < BLOCK
          THEN sending' = After(at, count) /\ inBlock_' = TRUE /\ offset_' = from + count
          ELSE sending' = After(at, BLOCK + 2 - from) /\ inBlock_' = FALSE /\ offset_' = BLOCK + 2
       /\ deselected' = (on /\ deselected)
       /\ Answer("read", TRUE, <<b, from>>, Transfer(at, count))
       /\ UNCHANGED <<store, programs, partialBlockRead_>>

\* The command is refused, no block begins, or the card is busy and answers 0 to everything.
ReadFails(b, from) ==
    /\ ~(inBlock_ /\ block_ = b /\ from >= offset_)
    /\ block_' = b /\ sending' = <<>> /\ inBlock_' = FALSE /\ deselected' = FALSE
    /\ Answer("read", FALSE, <<b, from>>, <<>>)
    /\ UNCHANGED <<store, programs, offset_, partialBlockRead_>>

\* fail: the card is deselected and nothing else is looked at, also in the middle of a block.
Refuse(kind, b) == /\ sending' = <<>> /\ deselected' = (deselected \/ inBlock_)
                   /\ Answer(kind, FALSE, b, <<>>)
                   /\ UNCHANGED <<store, programs, inBlock_, block_, offset_, partialBlockRead_>>

\* A part that reaches over the end of the block is refused before anything is asked of the card.
ReadOutside(b, from, count) == from + count > BLOCK /\ Refuse("read", <<b, from>>)

-----------------------------------------------------------------------------
\* Block 0 is protected: no command is sent, and a block that was being read stays begun.
WriteBlockZero == Refuse("write", 0)

\* writeBlock(): a blocking one waits for the card and asks what has become of the block.
WriteBlock(b, v, blocking) ==
    /\ b # 0 /\ programs = <<>>
    /\ \/ /\ store' = [store EXCEPT ![b] = v] /\ UNCHANGED programs      \* programmed
          /\ Answer("write", TRUE, b, <<v, blocking>>)
       \/ /\ store' \in {store, [store EXCEPT ![b] = v]} /\ UNCHANGED programs     \* an error is reported
          /\ blocking /\ Answer("write", FALSE, b, <<v, blocking>>)
       \/ /\ programs' = <<b, v>> /\ UNCHANGED store     \* not waited for, or not long enough
          /\ Answer("write", ~blocking, b, <<v, blocking>>)
    /\ sending' = <<>> /\ inBlock_' = FALSE /\ deselected' = FALSE
    /\ UNCHANGED <<block_, offset_, partialBlockRead_>>

\* The command or the data are refused, or the card is busy: what it sends is no acceptance.
WriteFails(b, v, blocking) ==
    /\ b # 0 /\ sending' = <<>> /\ inBlock_' = FALSE /\ deselected' = FALSE
    /\ Answer("write", FALSE, b, <<v, blocking>>)
    /\ UNCHANGED <<store, programs, block_, offset_, partialBlockRead_>>

\* isBusy(): the card is deselected afterwards, also in the middle of a block.
IsBusy == /\ sending' = <<>> /\ deselected' = (deselected \/ inBlock_)
          /\ Answer("busy", IF sending = <<>> THEN programs # <<>> ELSE TRUE, block_, <<>>)
          /\ UNCHANGED <<store, programs, inBlock_, block_, offset_, partialBlockRead_>>

\* The card has done with a block, or has failed.
Programmed == /\ programs # <<>> /\ programs' = <<>>
              /\ store' \in {store, [store EXCEPT ![programs[1]] = programs[2]]}
              /\ UNCHANGED <<sending, inBlock_, block_, offset_, partialBlockRead_, answered, deselected>>

CardNext == \/ IsBusy \/ Programmed \/ WriteBlockZero \/ \E on \in BOOLEAN : PartialBlockRead(on)
            \/ \E b \in BlockNumbers, from \in 0 .. BLOCK - 1 :
                 ReadFails(b, from) \/ \E count \in 1 .. BLOCK - from : ReadData(b, from, count)
            \/ \E b \in BlockNumbers, from \in 0 .. BLOCK, count \in 1 .. BLOCK : ReadOutside(b, from, count)
            \/ \E b \in BlockNumbers, v \in BlockValues, blocking \in BOOLEAN :
                 WriteBlock(b, v, blocking) \/ WriteFails(b, v, blocking)
-----------------------------------------------------------------------------
ReadsTheBlock ==
    answered.kind = "read" /\ answered.ok /\ ~deselected =>
        LET b == answered.block[1]
            from == answered.block[2]
        IN answered.data = [k \in DOMAIN answered.data |-> <<b, store[b], from + k - 1>>]

WritesAreKept == answered.kind = "write" /\ answered.ok /\ answered.data[2] => store[answered.block] = answered.data[1]

\* Data that are reported as read are those of the block, whole or in parts, read on or anew,
\* whatever calls, refused commands, failures and writes came in between, unless one of them has
\* deselected the card and left the block begun (isBusy, a part over the end of a block, a write
\* of block 0); and a write that was waited for and reported as done is done (readData, readEnd,
\* cardCommand, writeBlock).
BlocksHold == ReadsTheBlock /\ WritesAreKept

(* Not true of this code (README, known disagreements). *)

\* "The value one, true, is returned for success" (lines 399-400) when a block is read on after
\* a call between its parts has deselected the card: isBusy(), readData over the end of the block
\* (lines 407-409, 469-471), writeBlock or writeStart of block 0 (lines 616-622, 717-723).
ReadsThoughDeselected ==
    answered.kind = "read" /\ answered.ok =>
        answered.data = [k \in DOMAIN answered.data |->
            <<answered.block[1], store[answered.block[1]], answered.block[2] + k - 1>>]
=============================================================================

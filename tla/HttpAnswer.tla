----------------------------- MODULE HttpAnswer -----------------------------
(***************************************************************************)
(* removeHeaders and the buffer it works on (cf_internet.cpp): an HTTP     *)
(* response is read into an uninitialised array of the stack, terminated,  *)
(* and cut down to the JSON array in it.  Characters are the two brackets, *)
(* NUL and the members of Char.                                            *)
(***************************************************************************)
EXTENDS Integers, Sequences, FiniteSetsExt

CONSTANTS Char,    \* every other character
          SIZE     \* HTTP_MAX_CONTENT_SIZE

ASSUME SizeAssumption == SIZE \in Nat \ {0}

NUL == "nul"
ASSUME CharAssumption == Char \cap {"[", "]", NUL} = {}
Text == Char \cup {"[", "]"}
Index == 0..(SIZE - 1)

VARIABLES buffer,    \* char content[SIZE]
          response,   \* what client.readBytes stored
          overrun,    \* an index past the array was written
          cutting
answerVars == <<buffer, response, overrun, cutting>>

\* What a C string function sees in the buffer.
AsString(b) ==
  LET ends == {k \in Index : b[k] = NUL}
      n == IF ends = {} THEN SIZE ELSE Min(ends)
  IN [k \in 1..n |-> b[k - 1]]

\* The first place of ch from index from on, -1 if there is none.
Find(b, ch, from) ==
  LET found == {k \in Index : k >= from /\ b[k] = ch}
  IN IF found = {} THEN -1 ELSE Min(found)

\* Mutant: the closing bracket is not copied.
RemoveHeadersShort(b) ==
  LET s == Find(b, "[", 0)
      e == Find(b, "]", s)
  IN IF s < 0 \/ e < 0 THEN b
     ELSE [k \in Index |-> IF k < e - s THEN b[s + k]
                           ELSE IF k = e - s THEN NUL ELSE b[k]]

\* Both scans cover the whole array, whatever lies behind the terminator.
RemoveHeaders(b) ==
  LET s == Find(b, "[", 0)
      e == Find(b, "]", s)
  IN IF s < 0 \/ e < 0 THEN b
     ELSE [k \in Index |-> IF k <= e - s THEN b[s + k]
                           ELSE IF k = e - s + 1 THEN NUL ELSE b[k]]

RemoveOverruns(b) ==
  LET s == Find(b, "[", 0)
      e == Find(b, "]", s)
  IN s >= 0 /\ e >= 0 /\ e - s + 1 = SIZE

AnswerInit == /\ buffer \in [Index -> Text \cup {NUL}]
              /\ response = <<>> /\ overrun = FALSE /\ cutting = "idle"

\* readBytes and the terminator.
Receive(r) == /\ cutting = "idle"
              /\ response' = r
              /\ buffer' = [k \in Index |-> IF k < Len(r) THEN r[k + 1]
                                             ELSE IF k = Len(r) THEN NUL ELSE buffer[k]]
              /\ overrun' = (Len(r) >= SIZE)
              /\ cutting' = "read"

CutHeaders == /\ cutting = "read"
              /\ buffer' = RemoveHeaders(buffer)
              /\ overrun' = (overrun \/ RemoveOverruns(buffer))
              /\ cutting' = "done"
              /\ UNCHANGED response

\* Nothing clears the array between two calls.
NextCall == cutting = "done" /\ cutting' = "idle" /\ UNCHANGED <<buffer, response, overrun>>

\* A response begins with its status line, never with a bracket.
Responses == {r \in UNION {[1..n -> Text] : n \in 1..SIZE} : r[1] \in Char}
AnswerNext == (\E r \in Responses : Receive(r)) \/ CutHeaders \/ NextCall
AnswerSpec == AnswerInit /\ [][AnswerNext]_answerVars
-----------------------------------------------------------------------------
AnswerTypeOK == /\ buffer \in [Index -> Text \cup {NUL}] /\ response \in Seq(Text)
                /\ overrun \in BOOLEAN /\ cutting \in {"idle", "read", "done"}

\* The array of a response: from its first opening bracket to the closing one
\* that follows it, a definition that knows nothing of the buffer.
Arrays(r) == {i \in (1..Len(r)) \X (1..Len(r)) :
                /\ i[1] <= i[2] /\ r[i[1]] = "[" /\ r[i[2]] = "]"
                /\ "[" \notin {r[k] : k \in 1..(i[1] - 1)}
                /\ "]" \notin {r[k] : k \in i[1]..(i[2] - 1)}}

\* "remove characters before [ and after ]" (cf_internet.cpp, line 551): of a
\* response that holds an array, exactly the array is left, whatever a former
\* response or the stack left in the buffer.
HeadersRemoved ==
  cutting = "done" /\ ~overrun =>
    \A a \in Arrays(response) : AsString(buffer) = SubSeq(response, a[1], a[2])

\* A response that leaves room for the terminator is handled within the array,
\* the closing NUL of a cut included (lines 543-552, 735-739).
InBounds == Len(response) < SIZE => ~overrun

\* Of a response that fits, the array is left and nothing beyond the buffer is written.
KeepsTheArray == HeadersRemoved /\ InBounds

(* Not true of this code (README, known disagreements): AnswerOnly, NoOverrun. *)

\* "answere from server, without headers:" (line 554): what is parsed is part
\* of the response.
IsPartOf(s, t) == \E i \in 1..Len(t), j \in 0..Len(t) : s = SubSeq(t, i, j)
AnswerOnly ==
  cutting = "done" /\ ~overrun => IsPartOf(AsString(buffer), response)

\* HTTP_MAX_CONTENT_SIZE is the "max. size for http requests" (cf_internet.h,
\* line 58): a response of that size fits.
NoOverrun == ~overrun
=============================================================================

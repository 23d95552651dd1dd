----------------------------- MODULE ByteStream -----------------------------
(***************************************************************************)
(* What one direction of a TCP socket promises: a queue of bytes.  The     *)
(* writer appends a prefix of what it offers, the reader takes a prefix or *)
(* looks at the head, and a new connection starts with an empty queue.  A  *)
(* reader that finds nothing takes nothing.                                *)
(***************************************************************************)
EXTENDS Naturals, Sequences

CONSTANT Capacity

VARIABLES offer, queue, out

Init == queue = <<>> /\ out = <<>>

Push(n) == /\ Len(queue) + n <= Capacity
           /\ queue' = queue \o SubSeq(offer', 1, n)
           /\ UNCHANGED out

Pop(n) == /\ n <= Len(queue)
          /\ out' = SubSeq(queue, 1, n)
          /\ queue' = SubSeq(queue, n + 1, Len(queue))

Look == /\ queue # <<>>
        /\ out' = <<Head(queue)>>
        /\ UNCHANGED queue

Forget == out' = <<>> /\ UNCHANGED queue

Reset == queue' = <<>> /\ out' = <<>>

Next == \/ \E n \in 1..Len(offer') : Push(n)
        \/ \E n \in 1..Len(queue) : Pop(n)
        \/ Look \/ Forget \/ Reset

Spec == Init /\ [][Next]_<<queue, out>>
=============================================================================

--------------------------- MODULE RingPtrLemmas ---------------------------
(***************************************************************************)
(* Pointer arithmetic modulo PTRMOD: it stays in range, undoes itself, and *)
(* counts correctly as long as the distances stay within the ring.         *)
(***************************************************************************)
EXTENDS RingPtr, SequenceTheorems, TLAPS

\* Addition and distance stay in range and undo each other.
LEMMA PlusDiff ==
  ASSUME NEW p \in Ptr, NEW q \in Ptr, NEW n \in Nat, n <= SSIZE
  PROVE  /\ Plus(p, n) \in Ptr
         /\ Diff(p, q) \in Nat
         /\ Plus(q, Diff(p, q)) = p
         /\ Diff(Plus(p, n), p) = n
  BY RingAssumption DEF Ptr, Plus, Diff

\* Two advances are one.
LEMMA PlusPlus ==
  ASSUME NEW p \in Ptr, NEW m \in Nat, NEW n \in Nat, m + n <= SSIZE
  PROVE  Plus(Plus(p, m), n) = Plus(p, m + n)
  BY RingAssumption DEF Ptr, Plus

\* Advancing the front by n makes the distance n larger.
LEMMA DiffMore ==
  ASSUME NEW p \in Ptr, NEW q \in Ptr, NEW n \in Nat, Diff(p, q) + n <= SSIZE
  PROVE  Diff(Plus(p, n), q) = Diff(p, q) + n
  BY RingAssumption DEF Ptr, Plus, Diff

\* Advancing the back by m makes the distance m smaller.
LEMMA DiffLess ==
  ASSUME NEW p \in Ptr, NEW q \in Ptr, NEW m \in Nat,
         Diff(p, q) <= SSIZE, m <= Diff(p, q)
  PROVE  Diff(p, Plus(q, m)) = Diff(p, q) - m
  BY RingAssumption DEF Ptr, Plus, Diff
-----------------------------------------------------------------------------
(* The memory.  The rings are whole: a pointer that wraps goes on at the   *)
(* place where it would have gone on, so that within a ring's length two   *)
(* pointers have two places.                                               *)

LEMMA NoMultiple ==
  ASSUME NEW z \in Int, NEW d \in Nat, 0 < d, d < SSIZE
  PROVE  z * SSIZE # d
<1>1. CASE z <= 0
  BY <1>1, RingAssumption
<1>2. CASE z >= 1
  <2>1. z * SSIZE >= SSIZE
    BY <1>2, RingAssumption
  <2> QED
    BY <2>1, RingAssumption
<1> QED
  BY <1>1, <1>2

LEMMA PlacesDiffer ==
  ASSUME NEW p \in Ptr, NEW j \in Nat, NEW k \in Nat, j < k, k - j < SSIZE, k <= SSIZE
  PROVE  Plus(p, j) % SSIZE # Plus(p, k) % SSIZE
<1> SUFFICES ASSUME Plus(p, j) % SSIZE = Plus(p, k) % SSIZE PROVE FALSE
  OBVIOUS
<1>1. PICK q \in Nat : PTRMOD = q * SSIZE
  <2>1. PTRMOD = (PTRMOD \div SSIZE) * SSIZE + (PTRMOD % SSIZE) /\ PTRMOD \div SSIZE \in Nat
    BY RingAssumption
  <2>2. PTRMOD = (PTRMOD \div SSIZE) * SSIZE
    <3> PICK a \in Nat : a = (PTRMOD \div SSIZE) * SSIZE
      BY <2>1, RingAssumption
    <3> QED
      BY <2>1, WholeRings, RingAssumption
  <2> QED
    BY <2>1, <2>2
<1>2. Plus(p, j) \in Nat /\ Plus(p, k) \in Nat
  BY RingAssumption DEF Ptr, Plus
<1>3. PICK x \in Nat, y \in Nat, r \in Nat : Plus(p, j) = x * SSIZE + r /\ Plus(p, k) = y * SSIZE + r
  <2>1. ASSUME NEW n \in Nat PROVE n = (n \div SSIZE) * SSIZE + (n % SSIZE) /\ n \div SSIZE \in Nat /\ n % SSIZE \in Nat
    BY RingAssumption
  <2> QED
    BY <1>2, <2>1
<1>4. k - j \in Nat /\ 0 < k - j /\ Plus(p, k) - Plus(p, j) = (y - x) * SSIZE
  BY <1>3, RingAssumption
<1>5. CASE Plus(p, k) - Plus(p, j) = k - j
  BY <1>4, <1>5, NoMultiple
<1>6. CASE Plus(p, k) - Plus(p, j) = k - j - PTRMOD
  <2>1. (y - x + q) * SSIZE = (y - x) * SSIZE + q * SSIZE
    BY RingAssumption
  <2>2. (y - x + q) * SSIZE = k - j
    BY <1>1, <1>4, <1>6, <2>1, RingAssumption
  <2> QED
    BY <1>4, <2>2, NoMultiple
<1> QED
  BY <1>5, <1>6, RingAssumption DEF Plus, Ptr

\* What is read is a sequence, and a part of it is what is read from there.
Reads(s, B, m, p, n) == s \in Seq(B) /\ Len(s) = n /\ \A i \in 1..n : s[i] = m[Plus(p, i - 1) % SSIZE]

LEMMA LoadIs ==
  ASSUME NEW B, NEW m \in [Place -> B], NEW p \in Ptr, NEW n \in Nat, n <= SSIZE
  PROVE  Reads(Load(m, p, n), B, m, p, n)
<1>1. ASSUME NEW i \in 1..n PROVE m[Plus(p, i - 1) % SSIZE] \in B
  <2>1. Plus(p, i - 1) \in Nat
    BY RingAssumption DEF Plus, Ptr
  <2>2. Plus(p, i - 1) % SSIZE \in Place
    BY <2>1, RingAssumption DEF Place
  <2> QED
    BY <2>2
<1>2. Load(m, p, n) \in [1..n -> B]
  BY <1>1 DEF Load
<1> QED
  BY <1>2 DEF Load, Reads

LEMMA ReadsSame ==
  ASSUME NEW B, NEW s \in Seq(B), NEW t \in Seq(B), NEW n \in Nat, Len(s) = n, Len(t) = n,
         \A i \in 1..n : s[i] = t[i]
  PROVE  s = t
  BY SeqEqual

LEMMA LoadParts ==
  ASSUME NEW B, NEW m \in [Place -> B], NEW p \in Ptr, NEW d \in Nat, d <= SSIZE, NEW n \in 0..d
  PROVE  /\ SubSeq(Load(m, p, d), 1, n) = Load(m, p, n)
         /\ SubSeq(Load(m, p, d), n + 1, d) = Load(m, Plus(p, n), d - n)
<1> PICK k \in Nat : k = d - n
  OBVIOUS
<1>1. /\ n \in Nat /\ n <= SSIZE /\ k <= SSIZE /\ n + k = d
  BY RingAssumption
<1> PICK q \in Ptr : q = Plus(p, n)
  BY <1>1, PlusDiff
<1> PICK whole : whole = Load(m, p, d) /\ Reads(whole, B, m, p, d)
  BY LoadIs, Zenon
<1> PICK a : a = Load(m, p, n) /\ Reads(a, B, m, p, n)
  BY <1>1, LoadIs, Zenon
<1> PICK b : b = Load(m, q, k) /\ Reads(b, B, m, q, k)
  BY <1>1, LoadIs, Zenon
<1>2. /\ whole \in Seq(B) /\ Len(whole) = d /\ a \in Seq(B) /\ Len(a) = n /\ b \in Seq(B) /\ Len(b) = k
  BY DEF Reads
<1>3. SubSeq(whole, 1, n) = a
  <2> PICK s : s = SubSeq(whole, 1, n)
    OBVIOUS
  <2>1. s \in Seq(B) /\ Len(s) = n /\ \A i \in 1..n : s[i] = whole[i]
    BY <1>1, <1>2
  <2>2. ASSUME NEW i \in 1..n PROVE s[i] = a[i]
    <3>1. i \in 1..d
      BY <1>1
    <3> QED
      BY <2>1, <3>1 DEF Reads
  <2>3. s = a
    BY <1>1, <1>2, <2>1, <2>2, ReadsSame, Zenon
  <2> QED
    BY <2>3
<1>4. SubSeq(whole, n + 1, d) = b
  <2> PICK s : s = SubSeq(whole, n + 1, d)
    OBVIOUS
  <2>1. s \in Seq(B) /\ Len(s) = k /\ \A i \in 1..k : s[i] = whole[n + i]
    BY <1>1, <1>2
  <2>2. ASSUME NEW i \in 1..k PROVE s[i] = b[i]
    <3> PICK j \in Nat : j = i - 1
      OBVIOUS
    <3>1. n + i \in 1..d /\ (n + i) - 1 = n + j /\ n + j <= SSIZE
      BY <1>1, RingAssumption
    <3>2. Plus(q, j) = Plus(p, n + j)
      BY <1>1, <3>1, PlusPlus
    <3>3. whole[n + i] = m[Plus(p, (n + i) - 1) % SSIZE] /\ b[i] = m[Plus(q, i - 1) % SSIZE]
      BY <3>1 DEF Reads
    <3> QED
      BY <2>1, <3>1, <3>2, <3>3
  <2>3. s = b
    BY <1>1, <1>2, <2>1, <2>2, ReadsSame, Zenon
  <2> QED
    BY <2>3
<1> QED
  BY <1>3, <1>4

\* t is s with a byte behind it.
Longer(t, s, b, B) == /\ t \in Seq(B) /\ Len(t) = Len(s) + 1 /\ t[Len(s) + 1] = b
                      /\ \A i \in 1..Len(s) : t[i] = s[i]

LEMMA Appended == ASSUME NEW B, NEW s \in Seq(B), NEW b \in B PROVE Longer(s \o <<b>>, s, b, B)
  BY DEF Longer

LEMMA Single == ASSUME NEW b PROVE SubSeq(<<b>>, 1, 1) = <<b>> /\ Len(<<b>>) = 1
<1>1. <<b>> \in Seq({b}) /\ Len(<<b>>) = 1
  OBVIOUS
<1>2. SubSeq(<<b>>, 1, Len(<<b>>)) = <<b>>
  BY <1>1, SubSeqFull, Zenon
<1> QED
  BY <1>1, <1>2

\* A byte stored behind what is unread is read last, and disturbs nothing before it.
Grown(B, n, m, p, d, b) == n \in [Place -> B] /\ Load(n, p, d + 1) = Load(m, p, d) \o <<b>>

LEMMA LoadAppend ==
  ASSUME NEW B, NEW m \in [Place -> B], NEW p \in Ptr, NEW d \in Nat, d < SSIZE, NEW b \in B,
         NEW n, n = [m EXCEPT ![Plus(p, d) % SSIZE] = b]
  PROVE  Grown(B, n, m, p, d, b)
<1>1. ASSUME NEW i \in Nat PROVE Plus(p, i) % SSIZE \in Place
  <2>1. Plus(p, i) \in Int
    BY RingAssumption DEF Plus, Ptr
  <2> QED
    BY <2>1, RingAssumption DEF Place
<1> PICK at \in Place : at = Plus(p, d) % SSIZE
  BY <1>1
<1>2. n = [m EXCEPT ![at] = b] /\ n \in [Place -> B]
  OBVIOUS
<1> PICK size \in Nat : size = d + 1 /\ size <= SSIZE /\ d <= SSIZE
  BY RingAssumption
<1> PICK new : new = Load(n, p, size) /\ Reads(new, B, n, p, size)
  BY <1>2, LoadIs, Zenon
<1> PICK old : old = Load(m, p, d) /\ Reads(old, B, m, p, d)
  BY LoadIs, Zenon
<1>3. new \in Seq(B) /\ Len(new) = size /\ old \in Seq(B) /\ Len(old) = d
  BY DEF Reads
<1> PICK s : s = old \o <<b>>
  OBVIOUS
<1>4. s \in Seq(B) /\ Len(s) = size /\ (\A i \in 1..d : s[i] = old[i]) /\ s[size] = b
  <2>1. Longer(s, old, b, B)
    BY <1>3, Appended, Zenon
  <2> QED
    BY <1>3, <2>1 DEF Longer
<1>5. ASSUME NEW i \in 1..size PROVE new[i] = s[i]
  <2> PICK j \in Nat : j = i - 1
    OBVIOUS
  <2>1. new[i] = n[Plus(p, j) % SSIZE]
    BY DEF Reads
  <2>2. CASE i = size
    <3>1. j = d
      BY <2>2
    <3> QED
      BY <1>4, <1>2, <2>1, <2>2, <3>1
  <2>3. CASE i # size
    <3>1. i \in 1..d /\ j < d /\ d - j < SSIZE
      BY <2>3, RingAssumption
    <3>2. Plus(p, j) % SSIZE # at
      BY <3>1, PlacesDiffer
    <3>3. new[i] = m[Plus(p, j) % SSIZE]
      BY <1>1, <1>2, <2>1, <3>2
    <3>4. old[i] = m[Plus(p, j) % SSIZE]
      BY <3>1 DEF Reads
    <3> QED
      BY <1>4, <3>1, <3>3, <3>4
  <2> QED
    BY <2>2, <2>3
<1>6. new = s
  BY <1>3, <1>4, <1>5, ReadsSame, Zenon
<1> QED
  BY <1>6, <1>2 DEF Grown
-----------------------------------------------------------------------------
(* What is stored: each byte at its place, the other places as they were. *)

Stored(B, n, m, p, s) ==
  /\ n \in [Place -> B]
  /\ \A i \in 1..Len(s) : n[Plus(p, i - 1) % SSIZE] = s[i]
  /\ \A k \in Place : (\A i \in 1..Len(s) : Plus(p, i - 1) % SSIZE # k) => n[k] = m[k]

LEMMA StoreIs ==
  ASSUME NEW B, NEW m \in [Place -> B], NEW p \in Ptr, NEW s \in Seq(B), Len(s) <= SSIZE
  PROVE  Stored(B, Store(m, p, s), m, p, s)
<1> DEFINE at(i) == Plus(p, i - 1) % SSIZE
<1> PICK n : n = Store(m, p, s)
  OBVIOUS
<1>1. ASSUME NEW i \in 1..Len(s) PROVE at(i) \in Place
  <2>1. Plus(p, i - 1) \in Int
    BY <1>1, RingAssumption DEF Plus, Ptr
  <2> QED
    BY <2>1, RingAssumption DEF Place
<1>2. ASSUME NEW i \in 1..Len(s), NEW j \in 1..Len(s), at(i) = at(j) PROVE i = j
  <2> PICK a \in Nat, b \in Nat : a = i - 1 /\ b = j - 1
    OBVIOUS
  <2>1. a < SSIZE /\ b < SSIZE
    BY RingAssumption
  <2>2. ~(a < b)
    BY <1>2, <2>1, PlacesDiffer, RingAssumption
  <2>3. ~(b < a)
    BY <1>2, <2>1, PlacesDiffer, RingAssumption
  <2> QED
    BY <2>2, <2>3
<1>3. ASSUME NEW k \in Place, NEW i \in 1..Len(s), at(i) = k PROVE n[k] = s[i]
  <2>1. PICK j \in 1..Len(s) : j = (CHOOSE h \in 1..Len(s) : at(h) = k) /\ at(j) = k
    BY <1>3
  <2>2. j = i
    BY <1>2, <1>3, <2>1
  <2> QED
    BY <1>3, <2>1, <2>2 DEF Store
<1>4. ASSUME NEW k \in Place, \A i \in 1..Len(s) : at(i) # k PROVE n[k] = m[k]
  BY <1>4 DEF Store
<1>5. n \in [Place -> B]
  <2>1. n = [k \in Place |-> n[k]]
    BY DEF Store
  <2>2. ASSUME NEW k \in Place PROVE n[k] \in B
    <3>1. CASE \E i \in 1..Len(s) : at(i) = k
      <4> PICK i \in 1..Len(s) : at(i) = k
        BY <3>1
      <4>1. n[k] = s[i] /\ s[i] \in B
        BY <1>3
      <4> QED
        BY <4>1
    <3>2. CASE \A i \in 1..Len(s) : at(i) # k
      BY <1>4, <3>2
    <3> QED
      BY <3>1, <3>2
  <2> QED
    BY <2>1, <2>2
<1>6. \A i \in 1..Len(s) : n[at(i)] = s[i]
  BY <1>1, <1>3
<1> QED
  BY <1>4, <1>5, <1>6 DEF Stored

\* What was stored is read back,
LEMMA LoadStored ==
  ASSUME NEW B, NEW m \in [Place -> B], NEW p \in Ptr, NEW s \in Seq(B), Len(s) <= SSIZE
  PROVE  Load(Store(m, p, s), p, Len(s)) = s
<1> PICK n : n = Store(m, p, s) /\ Stored(B, n, m, p, s)
  BY StoreIs, Zenon
<1> PICK d \in Nat : d = Len(s)
  OBVIOUS
<1>1. n \in [Place -> B] /\ \A i \in 1..d : n[Plus(p, i - 1) % SSIZE] = s[i]
  BY DEF Stored
<1> PICK t : t = Load(n, p, d) /\ Reads(t, B, n, p, d)
  BY <1>1, LoadIs, Zenon
<1>2. t \in Seq(B) /\ Len(t) = d /\ \A i \in 1..d : t[i] = s[i]
  BY <1>1 DEF Reads
<1>3. t = s
  BY <1>2, ReadsSame, Zenon
<1> QED
  BY <1>3

\* and what lies before it in the ring is as it was.
LEMMA LoadKept ==
  ASSUME NEW B, NEW m \in [Place -> B], NEW q \in Ptr, NEW d \in Nat, NEW s \in Seq(B),
         d + Len(s) <= SSIZE
  PROVE  Load(Store(m, Plus(q, d), s), q, d) = Load(m, q, d)
<1> PICK p \in Ptr : p = Plus(q, d)
  BY PlusDiff, RingAssumption
<1>0. Len(s) <= SSIZE /\ d <= SSIZE
  BY RingAssumption
<1> PICK n : n = Store(m, p, s) /\ Stored(B, n, m, p, s)
  BY <1>0, StoreIs, Zenon
<1>1. n \in [Place -> B]
  BY DEF Stored
<1> PICK t : t = Load(n, q, d) /\ Reads(t, B, n, q, d)
  BY <1>0, <1>1, LoadIs, Zenon
<1> PICK u : u = Load(m, q, d) /\ Reads(u, B, m, q, d)
  BY <1>0, LoadIs, Zenon
<1>2. ASSUME NEW i \in 1..d PROVE t[i] = u[i]
  <2> PICK k : k = Plus(q, i - 1) % SSIZE
    OBVIOUS
  <2>1. k \in Place
    <3>1. Plus(q, i - 1) \in Int
      BY RingAssumption DEF Plus, Ptr
    <3> QED
      BY <3>1, RingAssumption DEF Place
  <2>2. ASSUME NEW j \in 1..Len(s) PROVE Plus(p, j - 1) % SSIZE # k
    <3> PICK a \in Nat, b \in Nat : a = i - 1 /\ b = d + (j - 1)
      OBVIOUS
    <3>1. a < b /\ b - a < SSIZE /\ b <= SSIZE /\ j - 1 \in Nat
      BY RingAssumption
    <3>2. Plus(p, j - 1) = Plus(q, b)
      BY <3>1, PlusPlus
    <3> QED
      BY <3>1, <3>2, PlacesDiffer
  <2>3. n[k] = m[k]
    BY <2>1, <2>2 DEF Stored
  <2> QED
    BY <2>3 DEF Reads
<1>3. t \in Seq(B) /\ Len(t) = d /\ u \in Seq(B) /\ Len(u) = d
  BY DEF Reads
<1>4. t = u
  BY <1>2, <1>3, ReadsSame, Zenon
<1> QED
  BY <1>4

\* What is read is what is read first and what is read after it.
Joined(m, p, d, n) == Load(m, p, d + n) = Load(m, p, d) \o Load(m, Plus(p, d), n)

LEMMA LoadJoins ==
  ASSUME NEW B, NEW m \in [Place -> B], NEW p \in Ptr, NEW d \in Nat, NEW n \in Nat,
         d + n <= SSIZE
  PROVE  Joined(m, p, d, n)
<1> PICK e \in Nat : e = d + n
  OBVIOUS
<1>0. e <= SSIZE /\ d \in 0..e /\ e - d = n
  BY RingAssumption
<1> PICK whole : whole = Load(m, p, e) /\ Reads(whole, B, m, p, e)
  BY <1>0, LoadIs, Zenon
<1>1. whole \in Seq(B) /\ Len(whole) = e
  BY DEF Reads
<1>2. SubSeq(whole, 1, d) = Load(m, p, d) /\ SubSeq(whole, d + 1, e) = Load(m, Plus(p, d), n)
  <2>1. SubSeq(whole, 1, d) = Load(m, p, d) /\ SubSeq(whole, d + 1, e) = Load(m, Plus(p, d), e - d)
    BY <1>0, LoadParts, Zenon
  <2> QED
    BY <1>0, <2>1
<1>3. SubSeq(whole, 1, d) \o SubSeq(whole, d + 1, e) = SubSeq(whole, 1, e)
  <2>1. 1 \in 1..Len(whole) + 1 /\ d \in 1 - 1..Len(whole) /\ e \in d..Len(whole)
    BY <1>0, <1>1
  <2> QED
    BY <1>1, <2>1, ConcatAdjacentSubSeq
<1>4. SubSeq(whole, 1, e) = whole
  BY <1>1, SubSeqFull
<1> QED
  BY <1>2, <1>3, <1>4 DEF Joined
=============================================================================

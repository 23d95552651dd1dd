---------------------------- MODULE DeviceProofs ----------------------------
(***************************************************************************)
(* Proofs about the libraries around a sketch that know nothing of each    *)
(* other, each for every value of its constants: the ring of measurements  *)
(* stays in its array and its statistics are those of its window, the      *)
(* controller cannot chatter, blocks of an SD card are what was asked for  *)
(* and written, servos have their pulses one by one and stand where they   *)
(* were set, a display is in step with its library, temperatures are read  *)
(* when the sensors have measured them, a search of their bus finds every  *)
(* one, measurements of acceleration are handed over as they were taken,   *)
(* and the shapes of a graphic display are what they are called.           *)
(***************************************************************************)
EXTENDS DataCollector, Hysteresis, Sd2Card, Servo, LiquidCrystal, DallasTemperature, OneWire,
        Adxl357, TftShapes, NatLemmas, SequenceTheorems, FiniteSetTheorems, TLAPS

-----------------------------------------------------------------------------
(* The ring of measurements. *)

\* init() does not move the write pointer, so after a change of the size it is
\* not bounded by buffersize, only by the array.
Pointer == /\ wp \in Slot /\ buffersize \in Nat
           /\ buffersize < RINGBUFFER_SIZE
           /\ overrun = FALSE

LEMMA PointerStep ==
  ASSUME \A n \in Sizes : n < RINGBUFFER_SIZE, Pointer, [CollectorNext]_collectorVars
  PROVE  Pointer'
<1> USE SizesAssumption DEF Pointer, Slot
<1>1. ASSUME NEW n \in Sizes, InitBuffer(n) PROVE Pointer'
  BY <1>1 DEF InitBuffer
<1>2. ASSUME NEW v \in Val, ResetBuffer(v) PROVE Pointer'
  BY <1>2 DEF ResetBuffer
<1>3. ASSUME NEW v \in Val, AddData(v) PROVE Pointer'
  <2>1. /\ wp' = IF wp + 1 > buffersize THEN 0 ELSE wp + 1
        /\ overrun' = (overrun \/ wp \notin Slot)
        /\ buffersize' = buffersize
    BY <1>3 DEF AddData
  <2>2. overrun' = FALSE
    BY <2>1, Zenon
  <2>3. wp' \in Slot
    BY <2>1
  <2> QED
    BY <2>1, <2>2, <2>3
<1>4. CASE Calc
  BY <1>4 DEF Calc
<1>5. CASE UNCHANGED collectorVars
  BY <1>5 DEF collectorVars
<1> QED
  BY <1>1, <1>2, <1>3, <1>4, <1>5 DEF CollectorNext

\* A sketch that keeps all its sizes below the length of the array never writes
\* beyond it, whatever it does to the size meanwhile (lines 8-17, 38-41).
THEOREM WritesInsideHolds ==
  ASSUME RINGBUFFER_SIZE > 0, \A n \in Sizes : n < RINGBUFFER_SIZE
  PROVE  CollectorSpec => []WritesInside
<1>1. CollectorInit => Pointer
  BY SizesAssumption DEF CollectorInit, Pointer, Slot
<1>2. Pointer /\ [CollectorNext]_collectorVars => Pointer'
  BY PointerStep
<1>3. Pointer => WritesInside
  BY DEF Pointer, WritesInside
<1> QED
  BY <1>1, <1>2, <1>3, PTL DEF CollectorSpec

\* Statistics depend on the values alone, not on the slots they are in.
LEMMA StatisticsMapped ==
  ASSUME NEW J, IsFiniteSet(J), NEW I, NEW u, NEW v, NEW at, \A j \in J : at[j] \in I /\ u[j] \in Int /\ v[at[j]] = u[j],
         \A i, j \in J : at[i] = at[j] => i = j, \A i \in I : \E j \in J : at[j] = i
  PROVE  Statistics(v, I) = Statistics(u, J)
<1>1. I = {} <=> J = {}
  OBVIOUS
<1>2. {v[i] : i \in I} = {u[j] : j \in J}
  <2>1. ASSUME NEW i \in I PROVE \E j \in J : v[i] = u[j]
    OBVIOUS
  <2>2. ASSUME NEW j \in J PROVE \E i \in I : v[i] = u[j]
    OBVIOUS
  <2> QED
    BY <2>1, <2>2
<1>3. Cardinality(I) = Cardinality(J)
  <2> DEFINE b == [j \in J |-> at[j]]
  <2>1. b \in [J -> I] /\ \A j \in J : b[j] = at[j]
    OBVIOUS
  <2> HIDE DEF b
  <2>2. b \in Injection(J, I)
    <3>1. \A i, j \in J : b[i] = b[j] => i = j
      BY <2>1
    <3> QED
      BY <2>1, <3>1 DEF Injection, IsInjective
  <2>4. b \in Surjection(J, I)
    <3>1. \A i \in I : \E j \in J : b[j] = i
      BY <2>1
    <3> QED
      BY <2>1, <3>1 DEF Surjection
  <2>5. b \in Bijection(J, I)
    BY <2>2, <2>4 DEF Bijection
  <2>3. ExistsBijection(J, I)
    BY <2>5 DEF ExistsBijection
  <2> QED
    BY <2>3, FS_Bijection
<1>4. SumOver(v, I) = SumOver(u, J)
  BY SumMapped
<1> QED
  BY <1>1, <1>2, <1>3, <1>4 DEF Statistics, SumOver

\* The slot that the j-th of the last L samples is in, of a ring of b + 1 slots whose pointer is at w.
SlotOf(w, b, L, j) == LET d == w - 1 - (L - j) IN IF d >= 0 THEN d ELSE d + b + 1

\* Where the pointer goes.
Moved(w, b) == IF w + 1 > b THEN 0 ELSE w + 1

\* Each sample of the window has a slot of its own.
LEMMA SlotOfIs ==
  ASSUME NEW b \in Nat, NEW w \in 0 .. b, NEW L \in 0 .. b + 1
  PROVE  /\ \A j \in 1 .. L : SlotOf(w, b, L, j) \in 0 .. b
         /\ \A i, j \in 1 .. L : SlotOf(w, b, L, i) = SlotOf(w, b, L, j) => i = j
  BY DEF SlotOf

MovesTo(x, w, b, L, s, M) == /\ x \in 0 .. b /\ M \in 1 .. b + 1
                             /\ \A j \in 1 .. M - 1 : SlotOf(x, b, M, j) = SlotOf(w, b, L, j + s) /\ SlotOf(w, b, L, j + s) # w
                             /\ w <= b => SlotOf(x, b, M, M) = w
                             /\ w > b => SlotOf(x, b, M, M) = b
                             /\ s = 1 => SlotOf(w, b, L, 1) = w

\* One more sample at the pointer: the others stay where they are, the oldest of a full ring goes.
LEMMA SlotMoves ==
  ASSUME NEW b \in Nat, NEW w \in Nat, NEW L \in 0 .. b + 1, L > 0 => w \in 0 .. b,
         NEW s \in {0, 1}, s = 1 <=> L = b + 1, NEW M, M = L + 1 - s
  PROVE  MovesTo(Moved(w, b), w, b, L, s, M)
<1> DEFINE x == Moved(w, b)
<1>1. x \in 0 .. b /\ M \in 1 .. b + 1
  BY DEF Moved
<1>2. ASSUME NEW j \in 1 .. M - 1 PROVE SlotOf(x, b, M, j) = SlotOf(w, b, L, j + s) /\ SlotOf(w, b, L, j + s) # w
  BY DEF SlotOf, Moved
<1>3. /\ w <= b => SlotOf(x, b, M, M) = w
      /\ w > b => SlotOf(x, b, M, M) = b
      /\ s = 1 => SlotOf(w, b, L, 1) = w
  BY DEF SlotOf, Moved
<1> HIDE DEF x
<1> QED
  BY <1>1, <1>2, <1>3 DEF MovesTo, x

\* k is r without its first s elements and with v behind.
Newest(k, r, v, s, M) == /\ k \in Seq(Val) /\ Len(k) = M
                         /\ \A j \in 1 .. M - 1 : k[j] = r[j + s]
                         /\ k[M] = v

LEMMA KeepsNewest ==
  ASSUME NEW r \in Seq(Val), NEW n \in Nat \ {0}, Len(r) <= n, NEW v \in Val, NEW s \in {0, 1}, s = 1 <=> Len(r) = n,
         NEW M, M = Len(r) + 1 - s
  PROVE  Newest(Keep(Append(r, v), n), r, v, s, M)
<1>1. CASE s = 0
  BY <1>1 DEF Keep, Newest
<1>2. CASE s = 1
  <2> DEFINE a == Append(r, v)
  <2>1. a \in Seq(Val) /\ Len(a) = n + 1 /\ (\A j \in 1 .. n : a[j] = r[j]) /\ a[n + 1] = v
    BY <1>2
  <2> HIDE DEF a
  <2> DEFINE k == Keep(Append(r, v), n)
  <2>2. k = SubSeq(a, 2, n + 1)
    BY <2>1 DEF Keep, a
  <2>3. k \in Seq(Val) /\ Len(k) = n /\ \A j \in 1 .. n : k[j] = a[j + 1]
    BY <2>1, <2>2
  <2>4. M = n
    BY <1>2
  <2> HIDE DEF k
  <2> QED
    BY <1>2, <2>1, <2>3, <2>4 DEF Newest, k
<1> QED
  BY <1>1, <1>2

\* The slot of the j-th sample of the window; the samples and the slots that calc() looks at.
Placed(j) == SlotOf(wp, buffersize, Len(recent), j)
InWindow == {j \in 1 .. Len(recent) : Placed(j) < buffersize}
LookedAt == {i \in Slot : i < buffersize /\ ok[i]}

\* The samples that calc() looks at are those of the window, each in its slot; what it
\* made of them is what it left in its results.
RingTypeOK == /\ data \in [Slot -> Val] /\ ok \in [Slot -> BOOLEAN] /\ wp \in Nat /\ buffersize \in Nat
              /\ overrun \in BOOLEAN /\ recent \in Seq(Val) /\ fresh \in BOOLEAN
              /\ Len(recent) <= buffersize + 1 /\ (Len(recent) > 0 => wp \in 0 .. buffersize)
SamplesPlaced == /\ \A j \in InWindow : Placed(j) \in Slot /\ ok[Placed(j)] /\ data[Placed(j)] = recent[j]
                 /\ \A i \in LookedAt : \E j \in InWindow : Placed(j) = i
ResultsCurrent == fresh => ~overrun /\ stats = Statistics(data, LookedAt)
WindowInv == RingTypeOK /\ (~overrun => SamplesPlaced) /\ ResultsCurrent

\* The slot buffersize is the one that calc() leaves out: at most one sample is in it.
LEMMA WindowOfInv ==
  ASSUME WindowInv PROVE StatisticsOfWindow
<1> SUFFICES ASSUME fresh PROVE \E k \in 0 .. Len(recent) : stats = Statistics(recent, DOMAIN recent \ {k})
  BY DEF StatisticsOfWindow
<1> USE SizesAssumption
<1>0. ~overrun /\ RingTypeOK /\ SamplesPlaced /\ stats = Statistics(data, LookedAt)
  BY DEF WindowInv, ResultsCurrent
<1> DEFINE L == Len(recent)
<1>1. L \in Nat /\ recent \in Seq(Val) /\ DOMAIN recent = 1 .. L /\ L <= buffersize + 1 /\ buffersize \in Nat /\ L \in 0 .. buffersize + 1
  BY <1>0 DEF RingTypeOK
<1>2. L > 0 => /\ \A j \in 1 .. L : Placed(j) \in 0 .. buffersize
               /\ \A i, j \in 1 .. L : Placed(i) = Placed(j) => i = j
  <2> SUFFICES ASSUME L > 0 PROVE wp \in 0 .. buffersize
    BY <1>1, SlotOfIs DEF Placed
  <2> QED
    BY <1>0 DEF RingTypeOK
<1> HIDE DEF L
<1>3. \E k \in 0 .. L : InWindow = (1 .. L) \ {k}
  <2>1. InWindow = {j \in 1 .. L : Placed(j) < buffersize}
    BY DEF InWindow, L
  <2>2. CASE \E k \in 1 .. L : Placed(k) = buffersize
    <3>1. PICK k \in 1 .. L : Placed(k) = buffersize
      BY <2>2
    <3>2. L > 0 /\ k \in 0 .. L
      BY <1>1, <3>1
    <3>3. \A j \in 1 .. L : Placed(j) < buffersize <=> j # k
      BY <1>1, <1>2, <3>1, <3>2
    <3>4. InWindow = (1 .. L) \ {k}
      BY <2>1, <3>3
    <3> QED
      BY <3>2, <3>4
  <2>3. CASE ~\E k \in 1 .. L : Placed(k) = buffersize
    <3>1. ASSUME NEW j \in 1 .. L PROVE Placed(j) < buffersize
      BY <1>1, <1>2, <2>3
    <3>2. InWindow = (1 .. L) \ {0} /\ 0 \in 0 .. L
      BY <1>1, <2>1, <3>1
    <3> QED
      BY <3>2
  <2> QED
    BY <2>2, <2>3
<1>4. PICK k \in 0 .. L : InWindow = (1 .. L) \ {k}
  BY <1>3
<1>5. Statistics(data, LookedAt) = Statistics(recent, InWindow)
  <2> DEFINE at == [j \in InWindow |-> Placed(j)]
  <2>0. InWindow \subseteq 1 .. L /\ \A j \in InWindow : Placed(j) < buffersize
    BY DEF InWindow, L
  <2>1. IsFiniteSet(InWindow)
    <3>1. IsFiniteSet(1 .. L)
      BY <1>1, FS_Interval
    <3> QED
      BY <2>0, <3>1, FS_Subset
  <2>2. \A j \in InWindow : at[j] = Placed(j)
    OBVIOUS
  <2> HIDE DEF at
  <2>3. ASSUME NEW j \in InWindow PROVE at[j] \in LookedAt /\ recent[j] \in Int /\ data[at[j]] = recent[j]
    <3>1. Placed(j) \in Slot /\ ok[Placed(j)] /\ data[Placed(j)] = recent[j]
      BY <1>0 DEF SamplesPlaced
    <3>2. recent[j] \in Val
      BY <1>1, <2>0
    <3> QED
      BY <2>0, <2>2, <3>1, <3>2 DEF LookedAt
  <2>4. ASSUME NEW i \in InWindow, NEW j \in InWindow, at[i] = at[j] PROVE i = j
    BY <1>1, <1>2, <2>0, <2>2, <2>4
  <2>5. ASSUME NEW i \in LookedAt PROVE \E j \in InWindow : at[j] = i
    BY <1>0, <2>2 DEF SamplesPlaced
  <2>6. /\ \A j \in InWindow : at[j] \in LookedAt /\ recent[j] \in Int /\ data[at[j]] = recent[j]
        /\ \A i, j \in InWindow : at[i] = at[j] => i = j
        /\ \A i \in LookedAt : \E j \in InWindow : at[j] = i
    BY <2>3, <2>4, <2>5
  <2> QED
    BY <2>1, <2>6, StatisticsMapped
<1> QED
  BY <1>0, <1>1, <1>4, <1>5 DEF L

\* The statistics are those of the last buffersize + 1 samples since init() or
\* reset(), with at most one of them left out, whatever the sizes and wherever
\* the pointer stood (cf_data_collector.cpp, lines 8-62).
THEOREM StatisticsOfWindowHolds == CollectorSpec => []StatisticsOfWindow
<1> USE SizesAssumption
<1>1. CollectorInit => WindowInv
  <2> SUFFICES ASSUME CollectorInit PROVE WindowInv
    OBVIOUS
  <2>1. Len(recent) = 0 /\ recent \in Seq(Val) /\ ~fresh
    BY DEF CollectorInit
  <2>2. \A i \in LookedAt : FALSE
    BY DEF CollectorInit, LookedAt
  <2>3. InWindow = {}
    BY <2>1 DEF InWindow
  <2>4. RingTypeOK
    <3>1. overrun \in BOOLEAN /\ fresh \in BOOLEAN
      BY DEF CollectorInit
    <3>2. Len(recent) <= buffersize + 1 /\ wp \in Nat /\ buffersize \in Nat /\ ~(Len(recent) > 0)
      BY <2>1 DEF CollectorInit
    <3> QED
      BY <2>1, <3>1, <3>2 DEF CollectorInit, RingTypeOK
  <2> QED
    BY <2>1, <2>2, <2>3, <2>4 DEF WindowInv, SamplesPlaced, ResultsCurrent
<1>2. WindowInv /\ [CollectorNext]_collectorVars => WindowInv'
  <2> SUFFICES ASSUME WindowInv, [CollectorNext]_collectorVars PROVE WindowInv'
    OBVIOUS
  <2>0. /\ data \in [Slot -> Val] /\ ok \in [Slot -> BOOLEAN] /\ wp \in Nat /\ buffersize \in Nat
        /\ overrun \in BOOLEAN /\ recent \in Seq(Val) /\ fresh \in BOOLEAN
        /\ Len(recent) <= buffersize + 1 /\ (Len(recent) > 0 => wp \in 0 .. buffersize) /\ Len(recent) \in Nat
    BY DEF WindowInv, RingTypeOK
  <2>1. ASSUME NEW n \in Sizes, InitBuffer(n) PROVE WindowInv'
    <3>1. recent' = <<>> /\ Len(recent') = 0 /\ InWindow' = {}
      BY <2>1 DEF InitBuffer, InWindow
    <3>2. LookedAt' = {}
      BY <2>1 DEF InitBuffer, LookedAt
    <3>3. RingTypeOK'
      <4>1. data' \in [Slot -> Val] /\ ok' \in [Slot -> BOOLEAN] /\ fresh' \in BOOLEAN
        BY <2>1 DEF InitBuffer
      <4>2. wp' \in Nat /\ buffersize' \in Nat /\ Len(recent') <= buffersize' + 1 /\ ~(Len(recent') > 0)
        BY <2>0, <2>1, <3>1 DEF InitBuffer
      <4>3. recent' \in Seq(Val)
        BY <3>1
      <4>4. overrun' \in BOOLEAN
        BY <2>0, <2>1 DEF InitBuffer
      <4> QED
        BY <4>1, <4>2, <4>3, <4>4 DEF RingTypeOK
    <3> QED
      BY <2>1, <3>1, <3>2, <3>3 DEF InitBuffer, WindowInv, SamplesPlaced, ResultsCurrent
  <2>2. ASSUME NEW v \in Val, ResetBuffer(v) PROVE WindowInv'
    <3>1. recent' = <<>> /\ Len(recent') = 0 /\ InWindow' = {}
      BY <2>2 DEF ResetBuffer, InWindow
    <3>2. LookedAt' = {}
      <4>1. buffersize' = buffersize /\ \A i \in Slot : ok'[i] => i >= buffersize
        BY <2>2 DEF ResetBuffer
      <4>2. \A i \in Slot : i < buffersize => ~(i >= buffersize)
        BY <2>0 DEF Slot
      <4> QED
        BY <4>1, <4>2 DEF LookedAt
    <3>3. RingTypeOK'
      <4>1. data' \in [Slot -> Val]
        BY <2>0, <2>2 DEF ResetBuffer
      <4>2. ok' \in [Slot -> BOOLEAN]
        BY <2>0, <2>2 DEF ResetBuffer
      <4>3. wp' \in Nat /\ buffersize' \in Nat /\ Len(recent') <= buffersize' + 1 /\ ~(Len(recent') > 0)
        BY <2>0, <2>2, <3>1 DEF ResetBuffer
      <4>4. recent' \in Seq(Val)
        BY <3>1
      <4>5. overrun' \in BOOLEAN /\ fresh' \in BOOLEAN
        BY <2>0, <2>2 DEF ResetBuffer
      <4> QED
        BY <4>1, <4>2, <4>3, <4>4, <4>5 DEF RingTypeOK
    <3> QED
      BY <2>2, <3>1, <3>2, <3>3 DEF ResetBuffer, WindowInv, SamplesPlaced, ResultsCurrent
  <2>3. ASSUME ~overrun, NEW v \in Val, AddData(v) PROVE WindowInv'
    <3>b. PICK b \in Nat : b = buffersize
      BY <2>0
    <3>l. PICK L \in Nat : L = Len(recent) /\ L <= b + 1
      BY <2>0, <3>b
    <3>s. PICK s \in {0, 1} : s = 1 <=> L = b + 1
      OBVIOUS
    <3>m. PICK M \in Int : M = L + 1 - s
      OBVIOUS
    <3>1. b \in Nat /\ L \in 0 .. b + 1 /\ s \in {0, 1} /\ (s = 1 <=> L = b + 1) /\ L <= b + 1 /\ M = L + 1 - s
      BY <3>l, <3>s, <3>m
    <3>2. buffersize' = b /\ wp' = Moved(wp, b) /\ recent' = Keep(Append(recent, v), b + 1) /\ ~fresh'
      BY <2>3, <3>b DEF AddData, Moved
    <3>3. /\ recent' \in Seq(Val) /\ Len(recent') = M
          /\ \A j \in 1 .. M - 1 : recent'[j] = recent[j + s]
          /\ recent'[M] = v
      <4> DEFINE n == b + 1
      <4>1. n \in Nat \ {0} /\ Len(recent) <= n /\ (s = 1 <=> Len(recent) = n) /\ M = Len(recent) + 1 - s
        BY <3>1, <3>l
      <4>2. recent' = Keep(Append(recent, v), n)
        BY <3>2
      <4> HIDE DEF n
      <4>3. recent \in Seq(Val) /\ s \in {0, 1}
        BY <2>0, <3>1
      <4>4. Newest(Keep(Append(recent, v), n), recent, v, s, M)
        BY <4>1, <4>3, KeepsNewest
      <4> QED
        BY <4>2, <4>4 DEF Newest
    <3>4. /\ wp' \in 0 .. b /\ M \in 1 .. b + 1
          /\ \A j \in 1 .. M - 1 : SlotOf(wp', b, M, j) = SlotOf(wp, b, L, j + s) /\ SlotOf(wp, b, L, j + s) # wp
          /\ wp <= b => SlotOf(wp', b, M, M) = wp
          /\ wp > b => SlotOf(wp', b, M, M) = b
          /\ s = 1 => SlotOf(wp, b, L, 1) = wp
      <4>1. wp \in Nat /\ (L > 0 => wp \in 0 .. b)
        BY <2>0, <3>b, <3>l
      <4>2. MovesTo(Moved(wp, b), wp, b, L, s, M)
        BY <3>1, <4>1, SlotMoves
      <4>3. MovesTo(wp', wp, b, L, s, M)
        BY <3>2, <4>2
      <4> QED
        BY <4>3 DEF MovesTo
    <3>5. M \in Nat \ {0} /\ M = L + 1 - s /\ L \in Nat /\ M = Len(recent')
      BY <3>1, <3>3, <3>4
    <3>p. /\ \A j : Placed(j)' = SlotOf(wp', b, M, j)
          /\ \A j : Placed(j) = SlotOf(wp, b, L, j)
      BY <3>b, <3>l, <3>2, <3>5 DEF Placed
    <3>6. /\ \A j \in 1 .. M - 1 : Placed(j)' = Placed(j + s) /\ Placed(j + s) # wp
          /\ wp <= b => Placed(M)' = wp
          /\ wp > b => Placed(M)' = b
          /\ s = 1 => Placed(1) = wp
      BY <3>4, <3>p
    <3>7. InWindow' = {j \in 1 .. M : Placed(j)' < b} /\ InWindow = {j \in 1 .. L : Placed(j) < b}
      BY <3>b, <3>l, <3>2, <3>5 DEF InWindow
    <3>8. /\ data' = [i \in Slot |-> IF i = wp THEN v ELSE data[i]] /\ ok' = [i \in Slot |-> ok[i] \/ i = wp]
          /\ overrun' = (overrun \/ wp \notin Slot)
      BY <2>3 DEF AddData
    <3>9. \A j \in InWindow : Placed(j) \in Slot /\ ok[Placed(j)] /\ data[Placed(j)] = recent[j]
      BY <2>3 DEF WindowInv, SamplesPlaced
    <3>10. \A i \in LookedAt : \E j \in InWindow : Placed(j) = i
      BY <2>3 DEF WindowInv, SamplesPlaced
    <3>11. ASSUME ~overrun', NEW j \in InWindow' PROVE Placed(j)' \in Slot /\ ok'[Placed(j)'] /\ data'[Placed(j)'] = recent'[j]
      <4>1. wp \in Slot
        BY <3>8, <3>11
      <4>2. CASE j \in 1 .. M - 1
        <5>0. j + s \in 1 .. L
          BY <3>1, <3>5, <4>2
        <5>1. j + s \in 1 .. L /\ Placed(j)' = Placed(j + s) /\ Placed(j + s) # wp /\ Placed(j)' < b
          BY <3>6, <3>7, <3>11, <4>2, <5>0
        <5>2. j + s \in InWindow
          BY <3>7, <5>1
        <5>3. Placed(j + s) \in Slot /\ ok[Placed(j + s)] /\ data[Placed(j + s)] = recent[j + s] /\ recent'[j] = recent[j + s]
          BY <3>3, <3>9, <4>2, <5>2
        <5> QED
          BY <3>8, <5>1, <5>3
      <4>3. CASE j = M
        <5>1. Placed(j)' = wp /\ recent'[j] = v
          <6>1. Placed(M)' < b
            BY <3>7, <3>11, <4>3
          <6>2. wp <= b
            BY <2>0, <3>1, <3>6, <6>1
          <6> QED
            BY <3>3, <3>6, <4>3, <6>2
        <5> QED
          BY <3>8, <4>1, <5>1
      <4>4. j \in 1 .. M - 1 \/ j = M
        BY <3>5, <3>7, <3>11
      <4> QED
        BY <4>2, <4>3, <4>4
    <3>12. ASSUME NEW i \in LookedAt' PROVE \E j \in InWindow' : Placed(j)' = i
      <4>1. i \in Slot /\ i < b /\ (ok[i] \/ i = wp)
        BY <3>2, <3>8 DEF LookedAt
      <4>2. CASE i = wp
        <5>1. Placed(M)' = i /\ M \in 1 .. M
          BY <2>0, <3>1, <3>5, <3>6, <4>1, <4>2
        <5> QED
          BY <3>7, <4>1, <5>1
      <4>3. CASE i # wp
        <5>1. i \in LookedAt
          BY <3>b, <4>1, <4>3 DEF LookedAt
        <5>2. PICK j \in InWindow : Placed(j) = i
          BY <3>10, <5>1
        <5>3. j \in 1 .. L /\ (s = 1 => j # 1)
          BY <3>6, <3>7, <4>3, <5>2
        <5> DEFINE e == j - s
        <5>4. e \in 1 .. M - 1 /\ e + s = j /\ e \in 1 .. M
          BY <3>1, <3>5, <5>3
        <5> HIDE DEF e
        <5>5. Placed(e)' = i
          BY <3>6, <5>2, <5>4
        <5> QED
          BY <3>7, <4>1, <5>4, <5>5
      <4> QED
        BY <4>2, <4>3
    <3>13. data' \in [Slot -> Val] /\ ok' \in [Slot -> BOOLEAN] /\ overrun' \in BOOLEAN /\ fresh' \in BOOLEAN
      <4>1. data' \in [Slot -> Val]
        BY <2>0, <3>8
      <4>2. ok' \in [Slot -> BOOLEAN]
        BY <2>0, <3>8
      <4>3. overrun' \in BOOLEAN /\ fresh' \in BOOLEAN
        BY <2>3, <3>8 DEF AddData
      <4> QED
        BY <4>1, <4>2, <4>3
    <3>14. buffersize' \in Nat /\ wp' \in Nat /\ wp' \in 0 .. buffersize' /\ Len(recent') <= buffersize' + 1
      BY <3>1, <3>2, <3>4, <3>5
    <3> QED
      BY <3>2, <3>3, <3>11, <3>12, <3>13, <3>14 DEF WindowInv, RingTypeOK, SamplesPlaced, ResultsCurrent
  <2>4. ASSUME ~overrun, Calc PROVE WindowInv'
    <3>1. LookedAt' = LookedAt /\ InWindow' = InWindow /\ (\A j : Placed(j)' = Placed(j)) /\ stats' = Statistics(data, LookedAt)
      BY <2>4 DEF Calc, LookedAt, InWindow, Placed
    <3>2. SamplesPlaced /\ RingTypeOK
      BY <2>4 DEF WindowInv
    <3>3. SamplesPlaced'
      BY <2>4, <3>1, <3>2 DEF Calc, SamplesPlaced
    <3>4. RingTypeOK'
      BY <2>4, <3>2 DEF Calc, RingTypeOK
    <3>5. ~overrun' /\ data' = data
      BY <2>4 DEF Calc
    <3> QED
      BY <3>1, <3>3, <3>4, <3>5 DEF WindowInv, ResultsCurrent
  <2>5. ASSUME UNCHANGED collectorVars PROVE WindowInv'
    BY <2>5 DEF collectorVars, WindowInv, RingTypeOK, SamplesPlaced, ResultsCurrent, LookedAt, InWindow, Placed
  <2> QED
    BY <2>1, <2>2, <2>3, <2>4, <2>5 DEF CollectorNext
<1> QED
  BY <1>1, <1>2, WindowOfInv, PTL DEF CollectorSpec
-----------------------------------------------------------------------------
(* The controller. *)

ControlTypes == /\ soll \in Int /\ h \in Nat /\ ast \in {0, 1}
                /\ last \subseteq Ist /\ seen \subseteq Ist

\* The value of the last switch lies on the side of the band that the state
\* stands for, and the last value on no other side.
ControlInv == /\ ControlTypes
              /\ ast = 0 => \A x \in seen : x >= soll + h
              /\ ast = 1 => \A x \in seen : x <= soll - h
              /\ OutputDemanded

LEMMA ControlInitInv == ControlInit => ControlInv
  BY DEF ControlInit, ControlInv, ControlTypes, OutputDemanded

LEMMA RunKeeps ==
  ASSUME ControlInv, NEW i \in Ist, Run(i)
  PROVE  ControlInv'
<1> USE WidthAssumption DEF ControlInv, ControlTypes, OutputDemanded
<1>1. i \in Int /\ UNCHANGED <<soll, h>> /\ last' = {i}
  BY DEF Run
<1>2. CASE RunOff(i)
  BY <1>1, <1>2 DEF RunOff, Run
<1>3. CASE RunOn(i)
  BY <1>1, <1>3 DEF RunOn, Run
<1> QED
  BY <1>2, <1>3 DEF Run

LEMMA ControlStep == ControlInv /\ [ControlNext]_controlVars => ControlInv'
<1> SUFFICES ASSUME ControlInv, [ControlNext]_controlVars PROVE ControlInv'
  OBVIOUS
<1> USE WidthAssumption DEF ControlInv, ControlTypes, OutputDemanded
<1>1. ASSUME NEW s \in Soll, NEW w \in Width, NEW a \in {0, 1}, InitController(s, w, a)
      PROVE  ControlInv'
  BY <1>1 DEF InitController
<1>2. ASSUME NEW i \in Ist, Run(i) PROVE ControlInv'
  BY <1>2, RunKeeps
<1>3. ASSUME NEW s \in Soll, NEW w \in Width, Set(s, w) PROVE ControlInv'
  BY <1>3 DEF Set
<1>4. ASSUME NEW w \in Width, SetWidth(w) PROVE ControlInv'
  BY <1>4 DEF SetWidth
<1>5. CASE UNCHANGED controlVars
  BY <1>5 DEF controlVars
<1> QED
  BY <1>1, <1>2, <1>3, <1>4, <1>5 DEF ControlNext

\* After a run the output is what the measured value demands (cf_control.cpp,
\* lines 14-36).
THEOREM OutputDemandedHolds == ControlSpec => []OutputDemanded
<1>1. ControlInv => OutputDemanded
  BY DEF ControlInv
<1> QED
  BY ControlInitInv, ControlStep, <1>1, PTL DEF ControlSpec

LEMMA ControlCrosses ==
  ControlInv /\ ControlInv' /\ [ControlNext]_controlVars =>
    [ast' # ast => \A x \in seen, y \in seen' : Gap(x, y) >= 2 * h]_controlVars
<1> SUFFICES ASSUME ControlInv, ControlInv', ControlNext, ast' # ast, NEW x \in seen, NEW y \in seen'
             PROVE  Gap(x, y) >= 2 * h
  BY DEF controlVars
<1> USE WidthAssumption DEF ControlInv, ControlTypes
<1>1. PICK i \in Ist : Run(i)
  BY DEF ControlNext, InitController, Set, SetWidth
<1>2. y = i /\ UNCHANGED <<soll, h>>
  BY <1>1 DEF Run
<1>3. x \in Int /\ i \in Int /\ soll \in Int /\ h \in Nat
  OBVIOUS
<1>4. CASE ast = 0
  <2>1. x >= soll + h /\ i <= soll - h
    BY <1>1, <1>3, <1>4 DEF Run, RunOff, RunOn
  <2> QED
    BY <2>1, <1>2, <1>3 DEF Gap
<1>5. CASE ast = 1
  <2>1. x <= soll - h /\ i >= soll + h
    BY <1>1, <1>3, <1>5 DEF Run, RunOff, RunOn
  <2> QED
    BY <2>1, <1>2, <1>3 DEF Gap
<1> QED
  BY <1>4, <1>5

\* Two switches under the same settings are a whole band apart (lines 14-36).
THEOREM CrossesBandHolds == ControlSpec => CrossesBand
  BY ControlInitInv, ControlStep, ControlCrosses, PTL DEF ControlSpec, CrossesBand
-----------------------------------------------------------------------------
(* Blocks of an SD card. *)

CardTypes == /\ store \in [BlockNumbers -> BlockValues] /\ block_ \in BlockNumbers /\ offset_ \in Nat
             /\ inBlock_ \in BOOLEAN /\ partialBlockRead_ \in BOOLEAN /\ deselected \in BOOLEAN
             /\ programs = <<>> \/ programs \in BlockNumbers \X BlockValues

\* A card in the middle of a block is where the driver believes it is and programs nothing,
\* unless a call has deselected it there; and what was answered last is not overtaken by a
\* programming under way.
CardInv == /\ CardTypes
           /\ inBlock_ => programs = <<>>
           /\ inBlock_ /\ ~deselected => sending = <<block_, offset_>> /\ offset_ < BLOCK
           /\ answered.kind = "read" /\ answered.ok => programs = <<>>
           /\ answered.kind = "write" /\ answered.ok /\ answered.data[2] => programs = <<>>
           /\ ReadsTheBlock
           /\ WritesAreKept

LEMMA CardInitInv == CardInit => CardInv
<1> SUFFICES ASSUME CardInit PROVE CardInv
  OBVIOUS
<1>1. CardTypes /\ inBlock_ = FALSE /\ programs = <<>>
  BY DEF CardInit, CardTypes
<1>2. answered.kind = "none"
  BY DEF CardInit
<1> QED
  BY <1>1, <1>2 DEF CardInv, ReadsTheBlock, WritesAreKept

\* Transfers from a place in a block on give the bytes from there, and leave the card behind them.
LEMMA TransferFrom ==
  ASSUME NEW b, NEW from \in Nat, NEW count \in Nat, from + count <= BLOCK
  PROVE  /\ Transfer(<<b, from>>, count) = [k \in 1 .. count |-> <<b, store[b], from + k - 1>>]
         /\ After(<<b, from>>, count) = <<b, from + count>>
<1>1. <<b, from>> # <<>> /\ <<b, from>>[1] = b /\ <<b, from>>[2] = from
  OBVIOUS
<1>2. ASSUME NEW k \in 1 .. count PROVE Byte(<<b, from>>, k) = <<b, store[b], from + k - 1>>
  <2>1. ~(from + k - 1 > BLOCK + 1)
    BY CardAssumption
  <2> QED
    BY <1>1, <2>1, Zenon DEF Byte
<1>3. ~(from + count > BLOCK + 1)
  BY CardAssumption
<1> QED
  BY <1>1, <1>2, <1>3, Zenon DEF Transfer, After

LEMMA ReadDataKeeps ==
  ASSUME CardInv, NEW b \in BlockNumbers, NEW from \in 0 .. BLOCK - 1, NEW count \in 1 .. BLOCK - from,
         ReadData(b, from, count)
  PROVE  CardInv'
<1> PICK on : on = (inBlock_ /\ block_ = b /\ from >= offset_)
  OBVIOUS
<1> PICK at : at = IF on THEN After(sending, from - offset_) ELSE <<b, from>>
  OBVIOUS
<1>1. /\ on \/ programs = <<>>
      /\ block_' = b
      /\ answered' = [kind |-> "read", ok |-> TRUE, block |-> <<b, from>>, data |-> Transfer(at, count)]
      /\ deselected' = (on /\ deselected)
      /\ UNCHANGED <<store, programs, partialBlockRead_>>
      /\ \/ /\ partialBlockRead_ /\ from + count < BLOCK
            /\ sending' = After(at, count) /\ inBlock_' = TRUE /\ offset_' = from + count
         \/ inBlock_' = FALSE /\ offset_' = BLOCK + 2
  BY Zenon DEF ReadData, Answer
<1>2. programs = <<>>
  BY <1>1 DEF CardInv
<1>3. BLOCK \in Nat /\ from \in Nat /\ count \in Nat /\ from + count <= BLOCK
  BY CardAssumption
<1>4. ASSUME ~(on /\ deselected)
      PROVE  /\ answered'.data = [k \in 1 .. count |-> <<b, store[b], from + k - 1>>]
             /\ After(at, count) = <<b, from + count>>
  <2>1. at = <<b, from>>
    <3>1. CASE on
      <4>1. sending = <<b, offset_>> /\ offset_ \in Nat /\ from >= offset_
        <5>1. inBlock_ /\ block_ = b /\ from >= offset_ /\ ~deselected
          BY <1>4, <3>1
        <5> QED
          BY <5>1 DEF CardInv, CardTypes
      <4>2. PICK skip \in Nat : skip = from - offset_
        BY <1>3, <4>1
      <4>3. offset_ + skip = from /\ offset_ + skip <= BLOCK
        BY <1>3, <4>1, <4>2
      <4>4. After(<<b, offset_>>, skip) = <<b, offset_ + skip>>
        BY <4>1, <4>3, TransferFrom, Zenon
      <4> QED
        BY <3>1, <4>1, <4>2, <4>3, <4>4, Zenon
    <3> QED
      BY <3>1
  <2>2. answered'.data = Transfer(at, count)
    BY <1>1
  <2> QED
    <3>1. /\ Transfer(<<b, from>>, count) = [k \in 1 .. count |-> <<b, store[b], from + k - 1>>]
          /\ After(<<b, from>>, count) = <<b, from + count>>
      BY <1>3, TransferFrom, Zenon
    <3> QED
      BY <2>1, <2>2, <3>1, Zenon
<1>5. CardTypes'
  <2>1. offset_' \in Nat
    BY <1>1, <1>3
  <2>2. inBlock_' \in BOOLEAN
    BY <1>1
  <2> QED
    BY <1>1, <2>1, <2>2 DEF CardInv, CardTypes
<1>6. inBlock_' /\ ~deselected' => sending' = <<block_, offset_>>' /\ offset_' < BLOCK
  BY <1>1, <1>3, <1>4
<1>7. ReadsTheBlock'
  <2> SUFFICES ASSUME ~(on /\ deselected)
               PROVE  answered'.data = [k \in DOMAIN answered'.data |-> <<b, store[b], from + k - 1>>]
    BY <1>1 DEF ReadsTheBlock
  <2> QED
    BY <1>4
<1> QED
  BY <1>1, <1>2, <1>5, <1>6, <1>7 DEF CardInv, WritesAreKept

LEMMA WriteBlockKeeps ==
  ASSUME CardInv, NEW b \in BlockNumbers, NEW v \in BlockValues, NEW blocking \in BOOLEAN,
         WriteBlock(b, v, blocking)
  PROVE  CardInv'
<1> USE DEF CardInv, CardTypes, ReadsTheBlock, WritesAreKept
<1>1. /\ programs = <<>> /\ inBlock_' = FALSE /\ deselected' = FALSE
      /\ UNCHANGED <<block_, offset_, partialBlockRead_>>
  BY DEF WriteBlock
<1>2. CASE /\ store' = [store EXCEPT ![b] = v] /\ UNCHANGED programs
           /\ Answer("write", TRUE, b, <<v, blocking>>)
  BY <1>1, <1>2 DEF Answer
<1>3. CASE /\ store' \in {store, [store EXCEPT ![b] = v]} /\ UNCHANGED programs
           /\ blocking /\ Answer("write", FALSE, b, <<v, blocking>>)
  BY <1>1, <1>3 DEF Answer
<1>4. CASE /\ programs' = <<b, v>> /\ UNCHANGED store
           /\ Answer("write", ~blocking, b, <<v, blocking>>)
  BY <1>1, <1>4 DEF Answer
<1> QED
  BY <1>2, <1>3, <1>4 DEF WriteBlock

LEMMA CardStep == CardInv /\ [CardNext]_cardVars => CardInv'
<1> SUFFICES ASSUME CardInv, [CardNext]_cardVars PROVE CardInv'
  OBVIOUS
<1> USE DEF CardInv, CardTypes, ReadsTheBlock, WritesAreKept
<1>1. CASE IsBusy
  BY <1>1 DEF IsBusy, Answer
<1>2. CASE Programmed
  <2>1. /\ programs # <<>> /\ programs' = <<>> /\ store' \in [BlockNumbers -> BlockValues]
        /\ UNCHANGED <<sending, inBlock_, block_, offset_, partialBlockRead_, answered, deselected>>
    BY <1>2 DEF Programmed
  <2> QED
    BY <2>1
<1>3. ASSUME NEW on \in BOOLEAN, PartialBlockRead(on) PROVE CardInv'
  BY <1>3 DEF PartialBlockRead, ReadEnd, Answer
<1>4. ASSUME NEW b \in BlockNumbers, NEW from \in 0 .. BLOCK - 1, ReadFails(b, from) PROVE CardInv'
  BY <1>4 DEF ReadFails, Answer
<1>9. ASSUME NEW b \in BlockNumbers, NEW from \in 0 .. BLOCK, NEW count \in 1 .. BLOCK, ReadOutside(b, from, count)
      PROVE  CardInv'
  BY <1>9 DEF ReadOutside, Refuse, Answer
<1>10. CASE WriteBlockZero
  BY <1>10 DEF WriteBlockZero, Refuse, Answer
<1>5. ASSUME NEW b \in BlockNumbers, NEW from \in 0 .. BLOCK - 1, NEW count \in 1 .. BLOCK - from,
             ReadData(b, from, count)
      PROVE  CardInv'
  BY <1>5, ReadDataKeeps
<1>6. ASSUME NEW b \in BlockNumbers, NEW v \in BlockValues, NEW blocking \in BOOLEAN,
             WriteBlock(b, v, blocking)
      PROVE  CardInv'
  BY <1>6, WriteBlockKeeps
<1>7. ASSUME NEW b \in BlockNumbers, NEW v \in BlockValues, NEW blocking \in BOOLEAN,
             WriteFails(b, v, blocking)
      PROVE  CardInv'
  BY <1>7 DEF WriteFails, Answer
<1>8. CASE UNCHANGED cardVars
  BY <1>8 DEF cardVars
<1> QED
  BY <1>1, <1>2, <1>3, <1>4, <1>5, <1>6, <1>7, <1>8, <1>9, <1>10 DEF CardNext

\* Data reported as read are those of the block, whole or in parts, and a write that was waited
\* for and reported as done is done, after any sequence of calls, failures and refusals, for
\* every length of a block; the one exception is a block that was left begun by a call that
\* deselected the card (readData, readEnd, cardCommand, writeBlock).
THEOREM BlocksHoldAlways == CardInit /\ [][CardNext]_cardVars => []BlocksHold
<1>1. CardInv => BlocksHold
  BY DEF CardInv, BlocksHold
<1> QED
  BY CardInitInv, CardStep, <1>1, PTL
-----------------------------------------------------------------------------
(* Servos that share a timer. *)

Bytes == -128 .. 127

ServoTypes == /\ ServoCount \in 0 .. SERVOS_PER_TIMER /\ Channel \in -1 .. SERVOS_PER_TIMER - 1
              /\ DOMAIN nbr = Servos /\ isActive \in [Servos -> BOOLEAN] /\ ticks \in [Servos -> Int]
              /\ limits \in [Servos -> Bytes \X Bytes]
              /\ angle \in [Servos -> -1 .. 180]
              /\ does = <<"idle">> \/ does \in {"new", "attach", "activate"} \X Servos

\* A pin that is HIGH is that of the servo in its turn, which is counted and active, so the
\* interrupt that ends the turn pulls it low.
Pulses == \A x \in high \ left : /\ Channel >= 0 /\ Channel < ServoCount
                                 /\ isActive[Channel] /\ x = nbr[Channel]

\* No angle was written to a servo that is not counted yet or is about to get its first pulse
\* width; one that was written is kept as the pulse width that map() makes of it.
Span(s) == SERVO_MAX(s) - SERVO_MIN(s)
Angles == /\ \A s \in Servos : s >= ServoCount \/ does = <<"new", s>> => angle[s] = -1
          /\ \A s \in Servos : angle[s] >= 0 =>
               ticks[s] = (SERVO_MIN(s) + ((angle[s] * Span(s)) \div 180) - TRIM_DURATION) * TicksPerUs

ServoInv == ServoTypes /\ Pulses /\ Angles

LEMMA ServoInitInv == ServoInit => ServoInv
  BY ServoAssumption DEF ServoInit, ServoInv, ServoTypes, Pulses, Angles, Servos, Bytes

\* Limits that fit a byte are between 836 and 2876 us apart, and attach() keeps no others.
Lows == 36 .. 1056
Spreads == 836 .. 2876
Degrees == 0 .. 180

LEMMA Spans ==
  ASSUME ServoTypes, NEW s \in Servos
  PROVE  SERVO_MIN(s) \in Lows /\ Span(s) \in Spreads /\ SERVO_MAX(s) = SERVO_MIN(s) + Span(s)
<1>1. limits[s][1] \in Bytes /\ limits[s][2] \in Bytes
  BY DEF ServoTypes
<1>2. PICK m \in -128 .. 127, n \in -128 .. 127 : m = limits[s][1] /\ n = limits[s][2]
  BY <1>1 DEF Bytes
<1>3. SERVO_MIN(s) = 544 - m * 4 /\ SERVO_MAX(s) = 2400 - n * 4
  BY <1>2 DEF SERVO_MIN, SERVO_MAX, MIN_PULSE_WIDTH, MAX_PULSE_WIDTH
<1> QED
  BY <1>3 DEF Span, Lows, Spreads

LEMMA Int8Range == ASSUME NEW n \in Int PROVE Int8(n) \in Bytes
  BY DEF Int8, Bytes

\* What ServoWrite makes of an angle, and read() of that: the quotient of the first division is
\* too small by less than one, and read() adds one.
There(a, d) == (a * d) \div 180
ToWidth(a, lo, d) == MapRange(a, 0, 180, lo, lo + d)
ToAngle(us, lo, d) == MapRange(us, lo, lo + d, 0, 180)

LEMMA MapThere ==
  ASSUME NEW a \in Degrees, NEW d \in Spreads, NEW lo \in Lows
  PROVE  There(a, d) \in 0 .. d /\ ToWidth(a, lo, d) = lo + There(a, d)
<1> USE DEF Degrees, Spreads, Lows
<1>1. a * d \in Nat /\ a * d <= 180 * d
  OBVIOUS
<1>2. PICK p \in Nat : p = a * d
  BY <1>1
<1>3. p \div 180 \in 0 .. d
  BY <1>1, <1>2
<1>4. (a - 0) * (lo + d - lo) = p /\ 180 - 0 = 180
  BY <1>2
<1>5. Quot(p, 180) = p \div 180
  BY <1>2 DEF Quot
<1>6. ToWidth(a, lo, d) = Quot(p, 180) + lo
  BY <1>4 DEF MapRange, ToWidth
<1> QED
  BY <1>2, <1>3, <1>5, <1>6 DEF There

LEMMA MapBack ==
  ASSUME NEW a \in Degrees, NEW d \in Spreads, NEW lo \in Lows
  PROVE  ToAngle(lo + There(a, d) + 1, lo, d) = a
<1> USE DEF Degrees, Spreads, Lows
<1>1. PICK p \in Nat : p = a * d
  OBVIOUS
<1>2. PICK q \in Nat, r \in 0 .. 179 : q = p \div 180 /\ p = q * 180 + r
  BY DivMod
<1>3. (q + 1) * 180 = a * d + (180 - r) /\ 180 - r \in Nat /\ 180 - r < d
  BY <1>1, <1>2
<1>4. (a * d + (180 - r)) \div d = a
  BY <1>3, DivUnique, SMTT(60)
<1>5. (lo + q + 1 - lo) * (180 - 0) = (q + 1) * 180 /\ lo + d - lo = d
  BY <1>2
<1>6. (q + 1) * 180 >= 0
  BY <1>2
<1>7. Quot((q + 1) * 180, d) = a
  BY <1>3, <1>4, <1>6 DEF Quot
<1>8. ToAngle(lo + q + 1, lo, d) = Quot((q + 1) * 180, d) + 0
  BY <1>5 DEF MapRange, ToAngle
<1>9. There(a, d) = q
  BY <1>1, <1>2 DEF There
<1> QED
  BY <1>7, <1>8, <1>9

LEMMA SetTo ==
  ASSUME ServoTypes, Angles, NEW s \in Servos, angle[s] >= 0
  PROVE  ReadAngle(s) = angle[s]
<1>1. PICK lo \in Lows, d \in Spreads : lo = SERVO_MIN(s) /\ d = Span(s) /\ SERVO_MAX(s) = lo + d
  BY Spans
<1>2. PICK a \in Degrees : a = angle[s]
  BY DEF ServoTypes, Degrees
<1>3. PICK q \in 0 .. d : q = There(a, d)
  BY MapThere
<1>4. ticks[s] = (lo + q - 2) * 2
  BY <1>1, <1>2, <1>3 DEF Angles, There, TRIM_DURATION, TicksPerUs
<1>5. ReadMicroseconds(s) = lo + q
  <2>1. (lo + q - 2) * 2 >= 0 /\ ((lo + q - 2) * 2) \div 2 = lo + q - 2
    BY DEF Lows, Spreads
  <2> QED
    BY <1>4, <2>1 DEF ReadMicroseconds, Quot, TRIM_DURATION, TicksPerUs, Lows, Spreads
<1>6. ToAngle(lo + q + 1, lo, d) = a
  BY <1>3, MapBack
<1> QED
  BY <1>1, <1>2, <1>5, <1>6 DEF ReadAngle, ToAngle

LEMMA WriteKeeps ==
  ASSUME ServoInv, NEW s \in Servos, NEW value \in Nat, ServoWrite(s, value)
  PROVE  ServoInv'
<1>1. /\ s < ServoCount /\ does = <<"idle">>
      /\ UNCHANGED <<ServoCount, nbr, isActive, limits, Channel, running, high, does, left>>
  BY DEF ServoWrite, Idle
<1>2. PICK lo \in Lows, d \in Spreads : lo = SERVO_MIN(s) /\ d = Span(s) /\ SERVO_MAX(s) = lo + d
  BY Spans DEF ServoInv
<1>3. PICK degrees \in Degrees : degrees = IF value > 180 THEN 180 ELSE value
  BY DEF Degrees
<1>4. PICK q \in 0 .. d : q = There(degrees, d) /\ ToWidth(degrees, lo, d) = lo + q
  BY MapThere
<1>5. PICK us \in Int : us = IF value < MIN_PULSE_WIDTH THEN lo + q ELSE value
  BY DEF Lows
<1>6. PICK width \in Int, written \in -1 .. 180 :
        /\ ticks' = [ticks EXCEPT ![s] = width] /\ angle' = [angle EXCEPT ![s] = written]
        /\ written >= 0 => written = degrees /\ width = (lo + q - TRIM_DURATION) * TicksPerUs
  <2>1. ticks' = [ticks EXCEPT ![s] = (Clamp(us, s) - TRIM_DURATION) * TicksPerUs]
    BY <1>2, <1>3, <1>4, <1>5, ZenonT(60) DEF ServoWrite, ToWidth
  <2>2. angle' = [angle EXCEPT ![s] = IF value < MIN_PULSE_WIDTH THEN degrees ELSE -1]
    BY <1>3 DEF ServoWrite
  <2>3. Clamp(us, s) \in Int
    BY <1>2, <1>5 DEF Clamp, Lows, Spreads
  <2>4. value < MIN_PULSE_WIDTH => Clamp(us, s) = lo + q
    BY <1>2, <1>5 DEF Clamp, Lows, Spreads
  <2>5. PICK width \in Int : width = (Clamp(us, s) - TRIM_DURATION) * TicksPerUs
    BY <2>3 DEF TRIM_DURATION, TicksPerUs
  <2>6. PICK written \in -1 .. 180 : written = IF value < MIN_PULSE_WIDTH THEN degrees ELSE -1
    BY DEF Degrees
  <2>7. written >= 0 => written = degrees /\ width = (lo + q - TRIM_DURATION) * TicksPerUs
    <3>1. CASE value < MIN_PULSE_WIDTH
      <4>1. written = degrees
        BY <2>6, <3>1
      <4>2. Clamp(us, s) = lo + q
        BY <2>4, <3>1
      <4>3. width = (lo + q - TRIM_DURATION) * TicksPerUs
        BY <2>5, <4>2 DEF Lows, TRIM_DURATION, TicksPerUs
      <4> QED
        BY <4>1, <4>3
    <3>2. CASE ~(value < MIN_PULSE_WIDTH)
      BY <2>6, <3>2
    <3> QED
      BY <3>1, <3>2
  <2>8. ticks' = [ticks EXCEPT ![s] = width] /\ angle' = [angle EXCEPT ![s] = written]
    BY <2>1, <2>2, <2>5, <2>6, Zenon
  <2> QED
    BY <2>7, <2>8, Zenon
<1>7. ServoTypes'
  BY <1>1, <1>6 DEF ServoInv, ServoTypes
<1>8. Pulses'
  BY <1>1 DEF ServoInv, Pulses
<1>9. Angles'
  <2>1. UNCHANGED <<SERVO_MIN(s), Span(s)>> /\ \A t \in Servos : UNCHANGED <<SERVO_MIN(t), Span(t)>>
    BY <1>1 DEF SERVO_MIN, SERVO_MAX, Span
  <2>2. ASSUME NEW t \in Servos, t >= ServoCount' \/ does' = <<"new", t>> PROVE angle'[t] = -1
    <3>1. t # s
      BY <1>1, <2>2 DEF ServoInv, ServoTypes, Servos
    <3> QED
      BY <1>1, <1>6, <2>2, <3>1 DEF ServoInv, ServoTypes, Angles
  <2>3. ASSUME NEW t \in Servos, angle'[t] >= 0
        PROVE  ticks'[t] = (SERVO_MIN(t)' + There(angle'[t], Span(t)') - TRIM_DURATION) * TicksPerUs
    <3>1. CASE t # s
      <4>1. ticks'[t] = ticks[t] /\ angle'[t] = angle[t]
        BY <1>6, <3>1 DEF ServoInv, ServoTypes
      <4>2. ticks[t] = (SERVO_MIN(t) + There(angle[t], Span(t)) - TRIM_DURATION) * TicksPerUs
        BY <2>3, <4>1, Zenon DEF ServoInv, Angles, There
      <4> QED
        BY <2>1, <4>1, <4>2
    <3>2. CASE t = s
      <4>1. ticks'[s] = width /\ angle'[s] = written
        BY <1>6 DEF ServoInv, ServoTypes
      <4>2. written = degrees /\ width = (lo + q - TRIM_DURATION) * TicksPerUs
        BY <1>6, <2>3, <3>2, <4>1
      <4> QED
        BY <1>2, <1>4, <2>1, <3>2, <4>1, <4>2
    <3> QED
      BY <3>1, <3>2
  <2> QED
    BY <2>2, <2>3 DEF Angles, There
<1> QED
  BY <1>7, <1>8, <1>9 DEF ServoInv

LEMMA AttachKeeps ==
  ASSUME ServoInv, NEW s \in Servos, NEW pin, NEW lim \in Limits, Attach(s, pin, lim)
  PROVE  ServoInv'
<1>1. PICK low \in Bytes, top \in Bytes : limits' = [limits EXCEPT ![s] = <<low, top>>]
  <2>1. lim[1] \in Nat /\ lim[2] \in Nat
    BY ServoAssumption
  <2>2. /\ Quot(MIN_PULSE_WIDTH - lim[1], 4) \in Int
        /\ Quot(MAX_PULSE_WIDTH - lim[2], 4) \in Int
    BY <2>1 DEF Quot, MIN_PULSE_WIDTH, MAX_PULSE_WIDTH
  <2> QED
    BY <2>2, Int8Range, Zenon DEF Attach
<1>2. /\ does = <<"idle">> /\ does' = <<"attach", s>>
      /\ nbr' = [nbr EXCEPT ![s] = pin] /\ angle' = [angle EXCEPT ![s] = -1]
      /\ left' = left \cup ((high \cap {nbr[s]}) \ {pin})
      /\ UNCHANGED <<ServoCount, isActive, ticks, Channel, running, high>>
  BY Zenon DEF Attach, Idle
<1>3. ServoTypes'
  BY <1>1, <1>2 DEF ServoInv, ServoTypes
<1>4. Pulses'
  <2> SUFFICES ASSUME NEW x \in high', x \notin left'
               PROVE  /\ Channel >= 0 /\ Channel < ServoCount /\ isActive[Channel] /\ x = nbr'[Channel]
    BY <1>2 DEF Pulses
  <2>1. Channel >= 0 /\ Channel < ServoCount /\ isActive[Channel] /\ x = nbr[Channel]
    BY <1>2 DEF ServoInv, Pulses
  <2>2. Channel \in Servos
    BY <2>1, ServoAssumption DEF ServoInv, ServoTypes, Servos
  <2> QED
    BY <1>2, <2>1, <2>2 DEF ServoInv, ServoTypes
<1>5. Angles'
  <2>1. ASSUME NEW t \in Servos, t >= ServoCount PROVE angle'[t] = -1
    BY <1>2, <2>1 DEF ServoInv, ServoTypes, Angles
  <2>2. ASSUME NEW t \in Servos, angle'[t] >= 0
        PROVE  ticks'[t] = (SERVO_MIN(t)' + There(angle'[t], Span(t)') - TRIM_DURATION) * TicksPerUs
    <3>1. t # s /\ angle'[t] = angle[t] /\ ticks'[t] = ticks[t] /\ limits'[t] = limits[t]
      BY <1>1, <1>2, <2>2 DEF ServoInv, ServoTypes
    <3>2. SERVO_MIN(t)' = SERVO_MIN(t) /\ Span(t)' = Span(t)
      BY <3>1 DEF SERVO_MIN, SERVO_MAX, Span
    <3>3. ticks[t] = (SERVO_MIN(t) + There(angle[t], Span(t)) - TRIM_DURATION) * TicksPerUs
      BY <2>2, <3>1, Zenon DEF ServoInv, Angles, There
    <3> QED
      BY <3>1, <3>2, <3>3
  <2> QED
    BY <1>2, <2>1, <2>2 DEF Angles, There
<1> QED
  BY <1>3, <1>4, <1>5 DEF ServoInv

\* The interrupt: the pin of the servo in its turn goes low before the next one is looked at.
LEMMA InterruptKeeps == ASSUME ServoInv, HandleInterrupts PROVE ServoInv'
<1> PICK next \in 0 .. SERVOS_PER_TIMER : next = Channel + 1
  BY ServoAssumption DEF ServoInv, ServoTypes
<1> PICK turn \in BOOLEAN : turn <=> next < ServoCount /\ next < SERVOS_PER_TIMER
  OBVIOUS
<1> PICK low : low = IF Channel >= 0 /\ Channel < ServoCount /\ isActive[Channel] THEN {nbr[Channel]} ELSE {}
  OBVIOUS
<1> PICK up : up = IF turn /\ isActive[next] THEN {nbr[next]} ELSE {}
  OBVIOUS
<1>1. /\ high' = (high \ low) \cup up /\ left' = left \ (low \cup up)
      /\ Channel' = IF turn THEN next ELSE -1
      /\ UNCHANGED <<ServoCount, nbr, isActive, ticks, limits, running, does, angle>>
  BY Zenon DEF HandleInterrupts
<1>2. ServoTypes'
  <2>1. CASE turn
    BY <1>1, <2>1, ServoAssumption DEF ServoInv, ServoTypes
  <2>2. CASE ~turn
    BY <1>1, <2>2, ServoAssumption DEF ServoInv, ServoTypes
  <2> QED
    BY <2>1, <2>2
<1>3. Pulses'
  <2> SUFFICES ASSUME NEW x \in high', x \notin left'
               PROVE  /\ Channel' >= 0 /\ Channel' < ServoCount
                      /\ isActive[Channel'] /\ x = nbr[Channel']
    BY <1>1 DEF Pulses
  <2>1. CASE x \in up
    <3>1. turn /\ isActive[next] /\ x = nbr[next]
      BY <2>1
    <3>2. Channel' = next /\ next >= 0 /\ next < ServoCount
      BY <1>1, <3>1
    <3> QED
      BY <3>1, <3>2
  <2>2. CASE x \notin up
    <3>1. x \in high /\ x \notin low /\ x \notin left
      BY <1>1, <2>2
    <3>2. Channel >= 0 /\ Channel < ServoCount /\ isActive[Channel] /\ x = nbr[Channel]
      BY <3>1 DEF ServoInv, Pulses
    <3> QED
      BY <3>1, <3>2
  <2> QED
    BY <2>1, <2>2
<1>4. Angles'
  BY <1>1 DEF ServoInv, Angles, SERVO_MIN, SERVO_MAX, Span
<1> QED
  BY <1>2, <1>3, <1>4 DEF ServoInv

LEMMA ServoStep == ServoInv /\ [ServoNext]_servoVars => ServoInv'
<1> SUFFICES ASSUME ServoInv, [ServoNext]_servoVars PROVE ServoInv'
  OBVIOUS
<1> USE DEF ServoInv, ServoTypes, Pulses
<1>1. CASE Construct
  <2>1. /\ does = <<"idle">> /\ does' = <<"new", ServoCount>> /\ ServoCount' = ServoCount + 1
        /\ ServoCount \in Servos
        /\ UNCHANGED <<nbr, isActive, ticks, limits, Channel, running, high, angle, left>>
    BY <1>1, ServoAssumption DEF Construct, Idle, Servos
  <2>2. Angles'
    <3>1. ASSUME NEW t \in Servos, t >= ServoCount' \/ does' = <<"new", t>> PROVE angle[t] = -1
      BY <2>1, <3>1 DEF Angles, Servos
    <3> QED
      BY <2>1, <3>1 DEF Angles, SERVO_MIN, SERVO_MAX, Span
  <2>3. ServoCount' \in 0 .. SERVOS_PER_TIMER
    BY <2>1, ServoAssumption DEF Servos
  <2> QED
    BY <2>1, <2>2, <2>3
<1>2. CASE ConstructEnd
  <2>1. PICK s \in Servos : does = <<"new", s>>
    BY <1>2 DEF ConstructEnd
  <2>2. /\ does' = <<"idle">> /\ ticks' = [ticks EXCEPT ![s] = DEFAULT_PULSE_WIDTH * TicksPerUs]
        /\ UNCHANGED <<ServoCount, nbr, isActive, limits, Channel, running, high, angle, left>>
    BY <1>2, <2>1 DEF ConstructEnd
  <2>3. angle[s] = -1
    BY <2>1 DEF Angles
  <2>4. Angles'
    <3>1. ASSUME NEW t \in Servos, angle[t] >= 0 PROVE t # s /\ ticks'[t] = ticks[t]
      BY <2>2, <2>3, <3>1
    <3> QED
      BY <2>2, <3>1 DEF Angles, SERVO_MIN, SERVO_MAX, Span
  <2>5. ticks' \in [Servos -> Int]
    BY <2>2 DEF DEFAULT_PULSE_WIDTH, TicksPerUs
  <2> QED
    BY <2>2, <2>4, <2>5
<1>3. CASE AttachTimer
  BY <1>3 DEF AttachTimer, Angles, SERVO_MIN, SERVO_MAX, Span
<1>4. CASE AttachEnd
  <2>1. PICK s \in Servos : does = <<"activate", s>>
    BY <1>4 DEF AttachEnd
  <2>2. /\ does' = <<"idle">> /\ isActive' = [isActive EXCEPT ![s] = TRUE]
        /\ UNCHANGED <<ServoCount, nbr, ticks, limits, Channel, running, high, angle, left>>
    BY <1>4, <2>1 DEF AttachEnd
  <2>3. Angles'
    BY <2>2 DEF Angles, SERVO_MIN, SERVO_MAX, Span
  <2>4. Pulses'
    BY <2>2, ServoAssumption DEF Servos
  <2> QED
    BY <2>2, <2>3, <2>4
<1>5. CASE HandleInterrupts
  BY <1>5, InterruptKeeps
<1>6. ASSUME NEW s \in Servos, NEW pin \in ServoPins, NEW lim \in Limits, Attach(s, pin, lim) PROVE ServoInv'
  BY <1>6, AttachKeeps
<1>7. ASSUME NEW s \in Servos, NEW v \in Values, ServoWrite(s, v) PROVE ServoInv'
  BY <1>7, WriteKeeps, ServoAssumption
<1>8. ASSUME NEW s \in Servos, Detach(s) PROVE ServoInv'
  <2>1. /\ isActive' = [isActive EXCEPT ![s] = FALSE] /\ left' = left \cup (high \cap {nbr[s]})
        /\ UNCHANGED <<ServoCount, nbr, ticks, limits, Channel, running, high, does, angle>>
    BY <1>8 DEF Detach
  <2>2. Angles'
    BY <2>1 DEF Angles, SERVO_MIN, SERVO_MAX, Span
  <2>3. Pulses'
    BY <2>1, ServoAssumption DEF Servos
  <2> QED
    BY <2>1, <2>2, <2>3
<1>9. CASE UNCHANGED servoVars
  BY <1>9 DEF servoVars, Angles, SERVO_MIN, SERVO_MAX, Span
<1> QED
  BY <1>1, <1>2, <1>3, <1>4, <1>5, <1>6, <1>7, <1>8, <1>9 DEF ServoNext

\* Whatever the interrupt comes between, for every number of servos and all limits and values
\* that a sketch passes: one servo at a time has its pulse, the one whose turn it is, and read()
\* gives the angle that was written (handle_interrupts, lines 52-75; write and read, lines 264-310).
THEOREM ServosAsSetAlways == ServoInit /\ [][ServoNext]_servoVars => []ServosAsSet
<1>1. ServoInv => ServosAsSet
  <2> SUFFICES ASSUME ServoInv PROVE PulsesOneByOne /\ AngleReadsBack
    BY DEF ServosAsSet
  <2>1. PulsesOneByOne
    BY DEF ServoInv, ServoTypes, Pulses, PulsesOneByOne
  <2>2. AngleReadsBack
    BY SetTo DEF ServoInv, AngleReadsBack
  <2> QED
    BY <2>1, <2>2
<1> QED
  BY ServoInitInv, ServoStep, <1>1, PTL

-----------------------------------------------------------------------------
(* A character display. *)

Halves == -1 .. 15
Wires == IF fourBits THEN 4 ELSE 8
Transfers == {COMMAND, DATA} \X (0 .. 15) \X Halves
Chips == [bits : {4, 8}, half : Halves, function : Int, control : Int, entry : 0 .. 3]

LcdTypes == /\ fourBits \in BOOLEAN /\ begun \in BOOLEAN /\ cleared \in BOOLEAN
            /\ lcd \in [two : BOOLEAN, control : 0 .. 7, entry : 0 .. 3]
            /\ transfers \in Seq(Transfers)
            /\ chip \in Chips

\* A controller that reads bytes as the wiring sends them and is between two of them, and one
\* that is set as the library believes.
InStep(c) == c \in Chips /\ c.bits = Wires /\ c.half = NoNibble
Agrees(c) == /\ c.function = (IF lcd.two THEN 8 ELSE 0) /\ c.control = lcd.control
             /\ c.entry % 2 = lcd.entry % 2 /\ (~cleared => c.entry = lcd.entry)

\* A byte is under way, and something may follow; Got is the controller once it has got it.
Sending(rs, v, rest) ==
    \/ InStep(chip) /\ transfers = Send(rs, v) \o rest
    \/ /\ fourBits /\ chip \in Chips /\ chip.bits = 4 /\ chip.half = v \div 16
       /\ transfers = << <<rs, v % 16, -1>> >> \o rest
Got(c, rs, v) == LET d == [c EXCEPT !.half = NoNibble] IN IF rs = DATA THEN d ELSE Executed(d, v)

\* What is left of begin() before each of its last bytes and each knock at the interface
ControlByte == DISPLAYCONTROL + 4
EntryByte == ENTRYMODESET + 2
Left1 == Send(COMMAND, EntryByte)
Left2 == Send(COMMAND, CLEARDISPLAY) \o Left1
Left3 == Send(COMMAND, ControlByte) \o Left2
Left4(two) == Send(COMMAND, FunctionSet(two)) \o Left3
Left5(two) == IF fourBits THEN << <<COMMAND, 2, -1>> >> \o Left4(two) ELSE Left4(two)
Knock(two) == IF fourBits THEN <<COMMAND, 3, -1>> ELSE <<COMMAND, 3, FunctionSet(two) % 16>>
Left6(two) == <<Knock(two)>> \o Left5(two)
Left7(two) == <<Knock(two)>> \o Left6(two)
Left8(two) == <<Knock(two)>> \o Left7(two)

\* begin() brings an interface of any state into step: what is left to send, and what is known
\* of the controller by then.
Eight(c) == c.bits = 8 /\ c.half = NoNibble
Aligned(c) == c.bits = 4 /\ c.half = NoNibble
Halfway(c) == c.bits = 4 /\ c.half = 3
Syncing == \/ transfers = Left8(lcd.two)
           \/ transfers = Left7(lcd.two) /\ (Eight(chip) \/ Aligned(chip) \/ Halfway(chip))
           \/ transfers = Left6(lcd.two) /\ (Eight(chip) \/ Halfway(chip))
           \/ transfers = Left5(lcd.two) /\ Eight(chip)

Function(c) == c.function = IF lcd.two THEN 8 ELSE 0
Finishing == \/ Sending(COMMAND, FunctionSet(lcd.two), Left3)
             \/ Sending(COMMAND, ControlByte, Left2) /\ Function(chip)
             \/ Sending(COMMAND, CLEARDISPLAY, Left1) /\ Function(chip) /\ chip.control = 4
Beginning == lcd.control = 4 /\ lcd.entry = 2 /\ cleared = FALSE /\ (Syncing \/ Finishing)

Calling == \E rs \in {COMMAND, DATA}, v \in 0 .. 255 :
              Sending(rs, v, <<>>) /\ InStep(Got(chip, rs, v)) /\ Agrees(Got(chip, rs, v))
Returned == transfers = <<>> /\ InStep(chip) /\ Agrees(chip)

LcdInv == LcdTypes /\ (begun => Beginning \/ Calling \/ Returned)

LEMMA LcdInitInv == LcdInit => LcdInv
<1> SUFFICES ASSUME LcdInit PROVE LcdInv
  OBVIOUS
<1>1. transfers \in Seq(Transfers)
  BY EmptySeq DEF LcdInit
<1>2. PICK bits \in {4, 8}, half \in Halves :
        chip = [bits |-> bits, half |-> half, function |-> 0, control |-> 0, entry |-> 0]
  BY DEF LcdInit, NoNibble, Halves
<1>3. chip \in Chips
  BY <1>2 DEF Chips, Halves
<1>4. /\ fourBits \in BOOLEAN /\ begun = FALSE /\ cleared = FALSE
      /\ lcd \in [two : BOOLEAN, control : 0 .. 7, entry : 0 .. 3]
  BY DEF LcdInit
<1> QED
  BY <1>1, <1>3, <1>4 DEF LcdInv, LcdTypes

LEMMA First ==
  ASSUME NEW t \in Transfers, NEW s \in Seq(Transfers)
  PROVE  /\ <<t>> \o s \in Seq(Transfers) /\ <<t>> \o s # <<>>
         /\ Head(<<t>> \o s) = t /\ Tail(<<t>> \o s) = s
<1> PICK S : S = Transfers
  OBVIOUS
<1>1. t \in S /\ s \in Seq(S)
  OBVIOUS
<1>2. <<t>> \o s \in Seq(S) /\ Len(<<t>> \o s) = 1 + Len(s) /\ (<<t>> \o s)[1] = t
  BY <1>1
<1>3. Tail(<<t>> \o s) = s
  BY <1>1, <1>2
<1> QED
  BY <1>2, <1>3

\* A byte is one transfer or two.
LEMMA SendParts ==
  ASSUME fourBits \in BOOLEAN, NEW rs \in {COMMAND, DATA}, NEW v \in 0 .. 255, NEW s \in Seq(Transfers)
  PROVE  /\ Send(rs, v) \in Seq(Transfers) /\ Send(rs, v) \o s \in Seq(Transfers) /\ Send(rs, v) \o s # <<>>
         /\ Send(rs, v) \o <<>> = Send(rs, v)
         /\ fourBits => /\ <<rs, v \div 16, -1>> \in Transfers /\ <<rs, v % 16, -1>> \in Transfers
                        /\ Send(rs, v) \o s = << <<rs, v \div 16, -1>> >> \o (<< <<rs, v % 16, -1>> >> \o s)
         /\ ~fourBits => /\ <<rs, v \div 16, v % 16>> \in Transfers
                         /\ Send(rs, v) \o s = << <<rs, v \div 16, v % 16>> >> \o s
<1>1. v \div 16 \in 0 .. 15 /\ v % 16 \in 0 .. 15
  OBVIOUS
<1>2. ASSUME NEW a \in Transfers, NEW b \in Transfers
      PROVE  <<a, b>> \in Seq(Transfers) /\ <<a>> \in Seq(Transfers) /\ <<b>> \in Seq(Transfers)
             /\ <<a, b>> = <<a>> \o <<b>>
  <2> PICK S : S = Transfers
    OBVIOUS
  <2>1. a \in S /\ b \in S
    OBVIOUS
  <2>2. <<a, b>> \in Seq(S) /\ <<a>> \in Seq(S) /\ <<b>> \in Seq(S)
    BY <2>1
  <2>3. <<a>> \o <<b>> \in Seq(S) /\ Len(<<a>> \o <<b>>) = 2 /\ Len(<<a, b>>) = 2
    BY <2>1, <2>2
  <2>4. ASSUME NEW i \in 1 .. 2 PROVE (<<a>> \o <<b>>)[i] = <<a, b>>[i]
    BY <2>1, <2>2
  <2>5. <<a>> \o <<b>> = <<a, b>>
    BY <2>2, <2>3, <2>4, SeqEqual
  <2> QED
    BY <2>2, <2>5, Zenon
<1>3. CASE fourBits
  <2> PICK a, b : a = <<rs, v \div 16, -1>> /\ b = <<rs, v % 16, -1>>
    OBVIOUS
  <2>1. a \in Transfers /\ b \in Transfers
    BY <1>1, SMTT(60) DEF Transfers, Halves
  <2>2. Send(rs, v) = <<a, b>>
    BY <1>3 DEF Send
  <2>3. Send(rs, v) \in Seq(Transfers) /\ Send(rs, v) = <<a>> \o <<b>>
    BY <1>2, <2>1, <2>2
  <2>4. Send(rs, v) \o s = <<a>> \o (<<b>> \o s)
    <3>1. <<a>> \in Seq(Transfers) /\ <<b>> \in Seq(Transfers)
      BY <1>2, <2>1
    <3>2. (<<a>> \o <<b>>) \o s = <<a>> \o (<<b>> \o s)
      BY <3>1, ConcatAssociative
    <3> QED
      BY <2>3, <3>2, Zenon
  <2>5. Send(rs, v) \o s # <<>> /\ Send(rs, v) \o s \in Seq(Transfers)
    BY <2>1, <2>4, First
  <2> QED
    BY <1>3, <2>1, <2>3, <2>4, <2>5, ConcatEmptySeq
<1>4. CASE ~fourBits
  <2> PICK a : a = <<rs, v \div 16, v % 16>>
    OBVIOUS
  <2>1. a \in Transfers
    BY <1>1, SMTT(60) DEF Transfers, Halves
  <2>2. Send(rs, v) = <<a>>
    BY <1>4 DEF Send
  <2>3. Send(rs, v) \in Seq(Transfers)
    BY <1>2, <2>1, <2>2
  <2> QED
    BY <1>4, <2>1, <2>2, <2>3, First, ConcatEmptySeq
<1> QED
  BY <1>3, <1>4

LEMMA FunctionSets ==
  ASSUME fourBits \in BOOLEAN, NEW two \in BOOLEAN
  PROVE  /\ FunctionSet(two) \in 0 .. 255
         /\ FunctionSet(two) \div 16 = (IF fourBits THEN 2 ELSE 3)
         /\ FunctionSet(two) % 16 = IF two THEN 8 ELSE 0
<1>1. FunctionSet(two) = (IF fourBits THEN IF two THEN 40 ELSE 32 ELSE IF two THEN 56 ELSE 48)
  BY DEF FunctionSet, FUNCTIONSET
<1> QED
  BY <1>1

LEMMA LeftTypes ==
  ASSUME fourBits \in BOOLEAN, NEW two \in BOOLEAN
  PROVE  /\ Left1 \in Seq(Transfers) /\ Left2 \in Seq(Transfers) /\ Left3 \in Seq(Transfers)
         /\ Left4(two) \in Seq(Transfers) /\ Left5(two) \in Seq(Transfers) /\ Left6(two) \in Seq(Transfers)
         /\ Left7(two) \in Seq(Transfers) /\ Left8(two) \in Seq(Transfers)
         /\ Knock(two) \in Transfers /\ <<COMMAND, 2, -1>> \in Transfers
<1>1. /\ ControlByte \in 0 .. 255 /\ CLEARDISPLAY \in 0 .. 255 /\ EntryByte \in 0 .. 255
      /\ FunctionSet(two) \in 0 .. 255 /\ COMMAND \in {COMMAND, DATA}
  BY FunctionSets DEF ControlByte, CLEARDISPLAY, EntryByte, DISPLAYCONTROL, ENTRYMODESET
<1>2. Left1 \in Seq(Transfers)
  BY <1>1, SendParts, EmptySeq DEF Left1
<1>3. Left2 \in Seq(Transfers)
  BY <1>1, <1>2, SendParts DEF Left2
<1>4. Left3 \in Seq(Transfers)
  BY <1>1, <1>3, SendParts DEF Left3
<1>5. Left4(two) \in Seq(Transfers)
  BY <1>1, <1>4, SendParts DEF Left4
<1>6. Knock(two) \in Transfers /\ <<COMMAND, 2, -1>> \in Transfers
  BY FunctionSets DEF Knock, Transfers, Halves
<1>7. Left5(two) \in Seq(Transfers)
  BY <1>5, <1>6, First DEF Left5
<1>8. Left6(two) \in Seq(Transfers)
  BY <1>6, <1>7, First DEF Left6
<1>9. Left7(two) \in Seq(Transfers)
  BY <1>6, <1>8, First DEF Left7
<1>10. Left8(two) \in Seq(Transfers)
  BY <1>6, <1>9, First DEF Left8
<1> QED
  BY <1>2, <1>3, <1>4, <1>5, <1>6, <1>7, <1>8, <1>9, <1>10

\* The commands that change something, and what they ask for
FunctionBytes == 32 .. 63
ControlBytes == 8 .. 15
EntryBytes == 4 .. 7
BitsOf(v) == IF v >= 48 THEN 8 ELSE 4
FunctionOf(v) == 4 * ((v % 16) \div 4)

LEMMA ExecutedKeeps ==
  ASSUME NEW c \in Chips, NEW v \in Int
  PROVE  /\ Executed(c, v) \in Chips /\ Executed(c, v).half = c.half
         /\ v \notin FunctionBytes => Executed(c, v).bits = c.bits /\ Executed(c, v).function = c.function
         /\ v \in FunctionBytes => Executed(c, v).bits = BitsOf(v) /\ Executed(c, v).function = FunctionOf(v)
         /\ v \notin ControlBytes => Executed(c, v).control = c.control
         /\ v \in ControlBytes => Executed(c, v).control = v - 8
         /\ v \in EntryBytes => Executed(c, v).entry = v - 4
         /\ v = CLEARDISPLAY => Executed(c, v).entry = 2 + (c.entry % 2)
         /\ v \notin EntryBytes /\ v # CLEARDISPLAY => Executed(c, v).entry = c.entry
<1> USE DEF FunctionBytes, ControlBytes, EntryBytes, CLEARDISPLAY
<1> PICK n \in 0 .. 3 : n = c.entry
  BY DEF Chips
<1>1. 2 + (n % 2) \in 0 .. 3
  OBVIOUS
<1>2. CASE v >= 64
  BY <1>2 DEF Executed
<1>3. CASE v \in 32 .. 63
  <2>1. Executed(c, v) = [c EXCEPT !.bits = IF v >= 48 THEN 8 ELSE 4, !.function = 4 * ((v % 16) \div 4)]
    <3> PICK e : e = Executed(c, v)
      OBVIOUS
    <3>1. e = [c EXCEPT !.bits = IF v >= 48 THEN 8 ELSE 4, !.function = 4 * ((v % 16) \div 4)]
      BY <1>3 DEF Executed
    <3> QED
      BY <3>1
  <2> PICK w \in {4, 8} : w = BitsOf(v)
    BY DEF BitsOf
  <2> PICK f \in Int : f = FunctionOf(v)
    BY <1>3 DEF FunctionOf
  <2>2. /\ [c EXCEPT !.bits = w, !.function = f] \in Chips
        /\ [c EXCEPT !.bits = w, !.function = f].bits = w
        /\ [c EXCEPT !.bits = w, !.function = f].function = f
        /\ [c EXCEPT !.bits = w, !.function = f].half = c.half
        /\ [c EXCEPT !.bits = w, !.function = f].control = c.control
        /\ [c EXCEPT !.bits = w, !.function = f].entry = c.entry
    BY DEF Chips
  <2>3. v \notin ControlBytes /\ v \notin EntryBytes /\ v # CLEARDISPLAY
    BY <1>3
  <2>4. Executed(c, v) = [c EXCEPT !.bits = w, !.function = f]
    BY <2>1 DEF BitsOf, FunctionOf
  <2> QED
    BY <1>3, <2>2, <2>3, <2>4
<1>4. CASE v \in 16 .. 31
  BY <1>4 DEF Executed
<1>5. CASE v \in 8 .. 15
  BY <1>5 DEF Executed, Chips
<1>6. CASE v \in 4 .. 7
  BY <1>6 DEF Executed, Chips
<1>7. CASE v \in 2 .. 3
  BY <1>7 DEF Executed
<1>8. CASE v = 1
  BY <1>1, <1>8 DEF Executed, Chips
<1>9. CASE v < 1
  BY <1>9 DEF Executed
<1> QED
  BY <1>2, <1>3, <1>4, <1>5, <1>6, <1>7, <1>8, <1>9

\* A pulse hands the controller the first transfer.
LEMMA PulseGives ==
  ASSUME LcdTypes, PulseEnable, NEW t \in Transfers, NEW s \in Seq(Transfers), transfers = <<t>> \o s
  PROVE  /\ transfers' = s /\ UNCHANGED <<fourBits, lcd, begun, cleared, resets>>
         /\ \E low \in Halves : /\ chip' = Received(chip, t, low)
                                /\ t[3] = -1 /\ chip.bits = 8 => low \in 0 .. 15
                                /\ low = t[3] \/ (t[3] = -1 /\ chip.bits = 8)
<1>1. Head(transfers) = t /\ Tail(transfers) = s
  BY First
<1>2. PICK low \in IF t[3] = -1 /\ chip.bits = 8 THEN 0 .. 15 ELSE {t[3]} : chip' = Received(chip, t, low)
  BY <1>1 DEF PulseEnable
<1>3. t[3] \in Halves
  BY DEF Transfers, Halves
<1>4. /\ low \in Halves /\ (t[3] = -1 /\ chip.bits = 8 => low \in 0 .. 15)
      /\ low = t[3] \/ (t[3] = -1 /\ chip.bits = 8)
  BY <1>2, <1>3, SMTT(60) DEF Halves
<1> QED
  BY <1>1, <1>2, <1>4 DEF PulseEnable

LEMMA ReceivedType ==
  ASSUME NEW c \in Chips, NEW t \in Transfers, NEW low \in Halves
  PROVE  Received(c, t, low) \in Chips
<1> PICK upper \in 0 .. 15 : upper = t[2]
  BY DEF Transfers, Halves
<1>1. [c EXCEPT !.half = NoNibble] \in Chips /\ [c EXCEPT !.half = t[2]] \in Chips
  BY DEF Chips, Halves, NoNibble
<1>2. (IF c.bits = 8 THEN 16 * t[2] + low ELSE 16 * c.half + t[2]) \in Int
  BY DEF Chips, Halves
<1> QED
  BY <1>1, <1>2, ExecutedKeeps DEF Received

LEMMA PulseTypes == LcdTypes /\ PulseEnable => LcdTypes'
<1> SUFFICES ASSUME LcdTypes, PulseEnable PROVE LcdTypes'
  OBVIOUS
<1>1. transfers # <<>> /\ transfers' = Tail(transfers) /\ UNCHANGED <<fourBits, lcd, begun, cleared>>
  BY DEF PulseEnable
<1>2. Head(transfers) \in Transfers /\ transfers' \in Seq(Transfers)
  BY <1>1, HeadTailProperties DEF LcdTypes
<1> PICK t \in Transfers : t = Head(transfers)
  BY <1>2
<1>3. PICK low \in IF t[3] = -1 /\ chip.bits = 8 THEN 0 .. 15 ELSE {t[3]} : chip' = Received(chip, t, low)
  BY DEF PulseEnable
<1>4. low \in Halves
  BY DEF Transfers, Halves
<1>5. chip' \in Chips
  BY <1>3, <1>4, ReceivedType DEF LcdTypes
<1> QED
  BY <1>1, <1>2, <1>5 DEF LcdTypes

\* A byte under way is half received, or received, and then the rest is what is left.
LEMMA SendStep ==
  ASSUME LcdTypes, PulseEnable, NEW rs \in {COMMAND, DATA}, NEW v \in 0 .. 255, NEW s \in Seq(Transfers),
         Sending(rs, v, s)
  PROVE  /\ UNCHANGED <<fourBits, lcd, begun, cleared, resets>>
         /\ \/ /\ Sending(rs, v, s)' /\ Got(chip', rs, v) = Got(chip, rs, v)
               /\ chip'.function = chip.function /\ chip'.control = chip.control
            \/ transfers' = s /\ chip' = Got(chip, rs, v)
<1>1. /\ v \div 16 \in 0 .. 15 /\ v % 16 \in 0 .. 15 /\ v = 16 * (v \div 16) + (v % 16)
      /\ v \div 16 # NoNibble
  BY DEF NoNibble
<1>2. CASE fourBits /\ InStep(chip) /\ transfers = Send(rs, v) \o s
  <2> PICK t : t = <<rs, v \div 16, -1>>
    OBVIOUS
  <2>1. t \in Transfers /\ << <<rs, v % 16, -1>> >> \o s \in Seq(Transfers)
        /\ transfers = <<t>> \o (<< <<rs, v % 16, -1>> >> \o s)
    BY <1>2, SendParts, First DEF LcdTypes
  <2>2. /\ transfers' = << <<rs, v % 16, -1>> >> \o s /\ UNCHANGED <<fourBits, lcd, begun, cleared, resets>>
        /\ \E low \in Halves : chip' = Received(chip, t, low)
    BY <2>1, PulseGives
  <2>3. chip' = [chip EXCEPT !.half = v \div 16]
    BY <1>2, <2>2 DEF Received, InStep, Wires
  <2>4. chip' \in Chips /\ chip'.bits = 4 /\ chip'.half = v \div 16
        /\ chip'.function = chip.function /\ chip'.control = chip.control
    BY <1>1, <1>2, <2>3 DEF InStep, Wires, Chips, Halves
  <2>5. [chip' EXCEPT !.half = NoNibble] = [chip EXCEPT !.half = NoNibble]
    <3>1. [[chip EXCEPT !.half = v \div 16] EXCEPT !.half = NoNibble] = [chip EXCEPT !.half = NoNibble]
      BY <1>2 DEF InStep, Chips, Halves
    <3> QED
      BY <2>3, <3>1
  <2> QED
    BY <1>2, <2>2, <2>4, <2>5 DEF Sending, Got
<1>3. CASE fourBits /\ chip.bits = 4 /\ chip.half = v \div 16 /\ transfers = << <<rs, v % 16, -1>> >> \o s
  <2> PICK t : t = <<rs, v % 16, -1>>
    OBVIOUS
  <2>1. t \in Transfers /\ transfers = <<t>> \o s
    BY <1>3, SendParts DEF LcdTypes
  <2>2. /\ transfers' = s /\ UNCHANGED <<fourBits, lcd, begun, cleared, resets>>
        /\ \E low \in Halves : chip' = Received(chip, t, low)
    BY <2>1, PulseGives
  <2>3. 16 * chip.half + t[2] = v /\ chip.half # NoNibble /\ ~(chip.bits = 8) /\ t[1] = rs
    BY <1>1, <1>3
  <2>4. chip' = Got(chip, rs, v)
    BY <2>2, <2>3, Zenon DEF Received, Got
  <2> QED
    BY <2>2, <2>4
<1>4. CASE ~fourBits /\ InStep(chip) /\ transfers = Send(rs, v) \o s
  <2> PICK t : t = <<rs, v \div 16, v % 16>>
    OBVIOUS
  <2>1. t \in Transfers /\ transfers = <<t>> \o s
    BY <1>4, SendParts DEF LcdTypes
  <2>2. transfers' = s /\ UNCHANGED <<fourBits, lcd, begun, cleared, resets>>
    BY <2>1, PulseGives
  <2>3. PICK low \in Halves : chip' = Received(chip, t, low) /\ low = v % 16
    <3>1. t[3] # -1 /\ t[3] = v % 16
      BY <1>1
    <3> QED
      BY <2>1, <3>1, PulseGives
  <2>4. 16 * t[2] + low = v /\ chip.bits = 8 /\ chip.bits # 4 /\ t[1] = rs
    BY <1>1, <1>4, <2>3 DEF InStep, Wires
  <2>5. chip' = Got(chip, rs, v)
    BY <2>3, <2>4, Zenon DEF Received, Got
  <2> QED
    BY <2>2, <2>5
<1> QED
  BY <1>2, <1>3, <1>4 DEF Sending, LcdTypes

LEMMA GotKeeps ==
  ASSUME NEW b \in Chips, NEW v \in 0 .. 255
  PROVE  LET o == Got(b, COMMAND, v)
         IN /\ o \in Chips /\ o.half = NoNibble
            /\ v \notin FunctionBytes => o.bits = b.bits /\ o.function = b.function
            /\ v \in FunctionBytes => o.bits = BitsOf(v) /\ o.function = FunctionOf(v)
            /\ v \notin ControlBytes => o.control = b.control
            /\ v \in ControlBytes => o.control = v - 8
            /\ v \in EntryBytes => o.entry = v - 4
            /\ v = CLEARDISPLAY => o.entry = 2 + (b.entry % 2)
            /\ v \notin EntryBytes /\ v # CLEARDISPLAY => o.entry = b.entry
<1> PICK c : c = [b EXCEPT !.half = NoNibble]
  OBVIOUS
<1>1. /\ c \in Chips /\ c.half = NoNibble /\ c.bits = b.bits /\ c.function = b.function
      /\ c.control = b.control /\ c.entry = b.entry
  BY DEF Chips, Halves, NoNibble
<1>2. Got(b, COMMAND, v) = Executed(c, v)
  BY DEF Got, COMMAND, DATA
<1>3. v \in Int
  OBVIOUS
<1> PICK e : e = Executed(c, v)
  OBVIOUS
<1>4. /\ e \in Chips /\ e.half = c.half
      /\ v \notin FunctionBytes => e.bits = c.bits /\ e.function = c.function
      /\ v \in FunctionBytes => e.bits = BitsOf(v) /\ e.function = FunctionOf(v)
      /\ v \notin ControlBytes => e.control = c.control
      /\ v \in ControlBytes => e.control = v - 8
  BY <1>1, <1>3, ExecutedKeeps
<1>5. /\ v \in EntryBytes => e.entry = v - 4
      /\ v = CLEARDISPLAY => e.entry = 2 + (c.entry % 2)
      /\ v \notin EntryBytes /\ v # CLEARDISPLAY => e.entry = c.entry
  BY <1>1, <1>3, ExecutedKeeps
<1> QED
  BY <1>1, <1>2, <1>4, <1>5

\* What the third of three transfers that say 3 leaves is an eight-bit interface.
LEMMA KnockStep ==
  ASSUME LcdTypes, PulseEnable, NEW two \in BOOLEAN, NEW s \in Seq(Transfers), transfers = <<Knock(two)>> \o s
  PROVE  /\ transfers' = s /\ UNCHANGED <<fourBits, lcd, begun, cleared, resets>>
         /\ chip' \in Chips /\ (Eight(chip') \/ Aligned(chip') \/ Halfway(chip'))
         /\ Eight(chip) \/ Halfway(chip) => Eight(chip')
         /\ Aligned(chip) => Halfway(chip')
<1>1. Knock(two) \in Transfers /\ chip \in Chips
  BY LeftTypes DEF LcdTypes
<1> PICK t \in Transfers : t = Knock(two)
  BY <1>1
<1>2. t[1] = COMMAND /\ t[2] = 3 /\ (t[3] = -1 \/ t[3] \in 0 .. 15)
  BY FunctionSets DEF Knock, LcdTypes
<1>3. PICK low \in Halves : /\ chip' = Received(chip, t, low)
                            /\ t[3] = -1 /\ chip.bits = 8 => low \in 0 .. 15
                            /\ low = t[3] \/ (t[3] = -1 /\ chip.bits = 8)
  <2>1. transfers = <<t>> \o s
    OBVIOUS
  <2> QED
    BY <2>1, PulseGives, Zenon
<1>4. chip' \in Chips
  BY <1>1, <1>3, ReceivedType, Zenon
<1> PICK c : c = [chip EXCEPT !.half = NoNibble]
  OBVIOUS
<1>5. c \in Chips /\ c.half = NoNibble /\ c.bits = chip.bits
  BY <1>1 DEF Chips, Halves, NoNibble
<1>6. transfers' = s /\ UNCHANGED <<fourBits, lcd, begun, cleared, resets>>
  <2>1. transfers = <<t>> \o s
    OBVIOUS
  <2> QED
    BY <2>1, PulseGives, Zenon
<1>7. CASE chip.bits = 8
  <2>1. low \in 0 .. 15
    BY <1>2, <1>3, <1>7
  <2>2. PICK byte \in 48 .. 63 : byte = 16 * 3 + low
    <3> PICK lower \in 0 .. 15 : lower = low
      BY <2>1, Zenon
    <3> QED
      BY SMTT(60)
  <2>3. chip' = Executed(c, byte)
    BY <1>2, <1>3, <1>7, <2>2 DEF Received, COMMAND, DATA
  <2>4. byte \in Int /\ byte \in FunctionBytes /\ BitsOf(byte) = 8
    BY DEF FunctionBytes, BitsOf
  <2>5. Eight(chip')
    BY <1>5, <2>3, <2>4, ExecutedKeeps DEF Eight
  <2> QED
    BY <1>1, <1>4, <1>7, <1>6, <2>5 DEF Aligned, Halfway
<1>8. CASE Aligned(chip)
  <2>1. chip' = [chip EXCEPT !.half = 3]
    BY <1>2, <1>3, <1>8 DEF Received, Aligned
  <2>2. Halfway(chip')
    BY <1>1, <1>8, <2>1 DEF Halfway, Aligned, Chips, Halves
  <2> QED
    BY <1>1, <1>4, <1>8, <1>6, <2>2 DEF Eight, Aligned, Halfway, NoNibble
<1>9. CASE chip.bits = 4 /\ chip.half # NoNibble
  <2> PICK k \in 0 .. 15 : k = chip.half
    BY <1>1, <1>9 DEF Chips, Halves, NoNibble
  <2> PICK byte \in Int : byte = 16 * k + 3
    OBVIOUS
  <2>1. chip' = Executed(c, byte)
    BY <1>2, <1>3, <1>9 DEF Received, COMMAND, DATA
  <2>2. /\ chip'.half = NoNibble /\ (byte \notin FunctionBytes => chip'.bits = 4)
        /\ byte \in FunctionBytes => chip'.bits = BitsOf(byte)
    BY <1>5, <1>9, <2>1, ExecutedKeeps
  <2>3. k = 3 => Eight(chip')
    BY <2>2 DEF Eight, FunctionBytes, BitsOf
  <2>4. Eight(chip') \/ Aligned(chip')
    BY <2>2 DEF Eight, Aligned, BitsOf
  <2> QED
    BY <1>1, <1>4, <1>9, <1>6, <2>3, <2>4 DEF Eight, Aligned, Halfway, NoNibble
<1> QED
  BY <1>1, <1>7, <1>8, <1>9 DEF Chips, Halves, Aligned

LEMMA LeftSame ==
  ASSUME UNCHANGED <<fourBits, lcd>>
  PROVE  /\ UNCHANGED <<Left1, Left2, Left3>> /\ FunctionSet(lcd.two)' = FunctionSet(lcd.two)
         /\ Left4(lcd.two)' = Left4(lcd.two) /\ Left5(lcd.two)' = Left5(lcd.two)
         /\ Left6(lcd.two)' = Left6(lcd.two) /\ Left7(lcd.two)' = Left7(lcd.two)
  BY DEF Left1, Left2, Left3, Left4, Left5, Left6, Left7, Knock, Send, FunctionSet

\* The first of the last bytes sets the lines.
LEMMA FunctionStep ==
  ASSUME LcdTypes, PulseEnable, Sending(COMMAND, FunctionSet(lcd.two), Left3)
  PROVE  /\ UNCHANGED <<fourBits, lcd, begun, cleared, resets>> /\ chip' \in Chips
         /\ transfers' \in Seq(Transfers) /\ Finishing'
<1> PICK two \in BOOLEAN : two = lcd.two
  BY DEF LcdTypes
<1> PICK byte \in 0 .. 255 : byte = FunctionSet(two)
  BY FunctionSets DEF LcdTypes
<1>1. /\ Left2 \in Seq(Transfers) /\ Left3 \in Seq(Transfers) /\ ControlByte \in 0 .. 255
      /\ COMMAND \in {COMMAND, DATA}
  BY LeftTypes DEF LcdTypes, ControlByte, DISPLAYCONTROL
<1>2. /\ UNCHANGED <<fourBits, lcd, begun, cleared, resets>>
      /\ \/ Sending(COMMAND, byte, Left3)' /\ chip' \in Chips
         \/ transfers' = Left3 /\ chip' = Got(chip, COMMAND, byte)
  <2> PICK left3 \in Seq(Transfers) : left3 = Left3
    BY <1>1
  <2>1. Sending(COMMAND, byte, left3)
    OBVIOUS
  <2>2. /\ UNCHANGED <<fourBits, lcd, begun, cleared, resets>>
        /\ \/ Sending(COMMAND, byte, left3)'
           \/ transfers' = left3 /\ chip' = Got(chip, COMMAND, byte)
    BY <1>1, <2>1, SendStep, ZenonT(60)
  <2>3. Left3' = left3
    BY <2>2, LeftSame
  <2>4. Sending(COMMAND, byte, left3)' => Sending(COMMAND, byte, Left3)' /\ chip' \in Chips
    BY <2>3 DEF Sending, InStep
  <2> QED
    BY <2>2, <2>4
<1>3. FunctionSet(lcd.two)' = byte /\ UNCHANGED <<Left2, Left3>>
  BY <1>2, LeftSame
<1>4. CASE Sending(COMMAND, byte, Left3)' /\ chip' \in Chips
  <2>1. transfers' \in Seq(Transfers)
    BY PulseTypes DEF LcdTypes
  <2> QED
    BY <1>2, <1>3, <1>4, <2>1 DEF Finishing
<1>5. CASE transfers' = Left3 /\ chip' = Got(chip, COMMAND, byte)
  <2>1. byte \in FunctionBytes /\ BitsOf(byte) = Wires /\ FunctionOf(byte) = IF two THEN 8 ELSE 0
    <3>1. byte = (IF fourBits THEN IF two THEN 40 ELSE 32 ELSE IF two THEN 56 ELSE 48)
      BY DEF FunctionSet, FUNCTIONSET, LcdTypes
    <3> QED
      BY <3>1 DEF FunctionBytes, BitsOf, FunctionOf, Wires, LcdTypes
  <2>2. /\ chip' \in Chips /\ chip'.half = NoNibble /\ chip'.bits = Wires
        /\ chip'.function = IF two THEN 8 ELSE 0
    BY <1>5, <2>1, GotKeeps DEF LcdTypes
  <2>3. InStep(chip)' /\ Function(chip)'
    BY <1>2, <2>2 DEF InStep, Wires, Function
  <2>4. transfers' = (Send(COMMAND, ControlByte) \o Left2)'
    BY <1>2, <1>5, <1>3 DEF Left3, Send
  <2> QED
    BY <1>1, <1>2, <1>5, <2>2, <2>3, <2>4 DEF Sending, Finishing
<1> QED
  BY <1>2, <1>4, <1>5

\* The first part of begin(): whatever the controller was in, it is in step after it.
LEMMA SyncStep ==
  ASSUME LcdTypes, PulseEnable, Syncing
  PROVE  /\ UNCHANGED <<fourBits, lcd, begun, cleared, resets>> /\ chip' \in Chips
         /\ transfers' \in Seq(Transfers) /\ (Syncing' \/ Finishing')
<1> PICK two \in BOOLEAN : two = lcd.two
  BY DEF LcdTypes
<1>1. /\ Left3 \in Seq(Transfers) /\ Left4(two) \in Seq(Transfers) /\ Left5(two) \in Seq(Transfers)
      /\ Left6(two) \in Seq(Transfers) /\ Left7(two) \in Seq(Transfers)
  BY LeftTypes DEF LcdTypes
<1>2. ASSUME UNCHANGED <<fourBits, lcd>>
      PROVE  /\ Left5(lcd.two)' = Left5(two) /\ Left6(lcd.two)' = Left6(two) /\ Left7(lcd.two)' = Left7(two)
             /\ FunctionSet(lcd.two)' = FunctionSet(two) /\ Left3' = Left3
  BY <1>2, LeftSame
<1>3. CASE transfers = Left8(two)
  BY <1>1, <1>2, <1>3, KnockStep DEF Left8, Syncing
<1>4. CASE transfers = Left7(two) /\ (Eight(chip) \/ Aligned(chip) \/ Halfway(chip))
  BY <1>1, <1>2, <1>4, KnockStep DEF Left7, Syncing
<1>5. CASE transfers = Left6(two) /\ (Eight(chip) \/ Halfway(chip))
  BY <1>1, <1>2, <1>5, KnockStep DEF Left6, Syncing
<1>6. CASE fourBits /\ transfers = Left5(two) /\ Eight(chip)
  <2> PICK t : t = <<COMMAND, 2, -1>>
    OBVIOUS
  <2>1. t \in Transfers /\ transfers = <<t>> \o Left4(two)
    BY <1>6, LeftTypes DEF Left5, LcdTypes
  <2>2. transfers' = Left4(two) /\ UNCHANGED <<fourBits, lcd, begun, cleared, resets>>
    BY <1>1, <2>1, PulseGives
  <2>3. PICK low \in Halves : chip' = Received(chip, t, low) /\ low \in 0 .. 15
    BY <1>1, <1>6, <2>1, PulseGives DEF Eight
  <2> PICK c : c = [chip EXCEPT !.half = NoNibble]
    OBVIOUS
  <2>4. c \in Chips /\ c.half = NoNibble
    BY DEF LcdTypes, Chips, Halves, NoNibble
  <2> PICK byte \in Int : byte = 16 * 2 + low
    BY <2>3
  <2>5. chip' = Executed(c, byte)
    BY <1>6, <2>3 DEF Received, Eight, COMMAND, DATA
  <2>6. byte \in FunctionBytes /\ BitsOf(byte) = 4
    BY <2>3 DEF FunctionBytes, BitsOf
  <2>7. chip' \in Chips /\ chip'.half = NoNibble /\ chip'.bits = 4
    BY <2>4, <2>5, <2>6, ExecutedKeeps
  <2>8. InStep(chip)'
    BY <1>6, <2>2, <2>7 DEF InStep, Wires
  <2>9. transfers' = Send(COMMAND, FunctionSet(two))' \o Left3
    BY <2>2 DEF Left4, Send, FunctionSet
  <2> QED
    BY <1>1, <1>2, <2>2, <2>7, <2>8, <2>9 DEF Sending, Finishing
<1>7. CASE ~fourBits /\ transfers = Left5(two) /\ Eight(chip)
  <2>1. Sending(COMMAND, FunctionSet(lcd.two), Left3)
    BY <1>7 DEF Sending, InStep, Wires, Eight, Left5, Left4, LcdTypes
  <2> QED
    BY <2>1, FunctionStep
<1> QED
  BY <1>3, <1>4, <1>5, <1>6, <1>7 DEF Syncing, LcdTypes

\* Any other command that begin() ends with
LEMMA FinishStep ==
  ASSUME LcdTypes, PulseEnable, Beginning
  PROVE  (Beginning \/ Calling)'
<1>1. /\ Left1 \in Seq(Transfers) /\ Left2 \in Seq(Transfers)
      /\ ControlByte \in 0 .. 255 /\ CLEARDISPLAY \in 0 .. 255 /\ EntryByte \in 0 .. 255
  BY LeftTypes DEF LcdTypes, ControlByte, DISPLAYCONTROL, CLEARDISPLAY, EntryByte, ENTRYMODESET
<1>2. /\ ControlByte \notin FunctionBytes /\ ControlByte \in ControlBytes /\ ControlByte - 8 = 4
      /\ CLEARDISPLAY \notin FunctionBytes /\ CLEARDISPLAY \notin ControlBytes
      /\ EntryByte \notin FunctionBytes /\ EntryByte \notin ControlBytes
      /\ EntryByte \in EntryBytes /\ EntryByte - 4 = 2
  BY DEF ControlByte, DISPLAYCONTROL, CLEARDISPLAY, EntryByte, ENTRYMODESET, FunctionBytes, ControlBytes, EntryBytes
<1>3. lcd.control = 4 /\ lcd.entry = 2 /\ cleared = FALSE /\ LcdTypes'
  BY PulseTypes DEF Beginning
<1>4. CASE Syncing
  BY <1>3, <1>4, SyncStep DEF Beginning
<1>5. CASE Sending(COMMAND, FunctionSet(lcd.two), Left3)
  BY <1>3, <1>5, FunctionStep DEF Beginning
<1>6. CASE Sending(COMMAND, ControlByte, Left2) /\ Function(chip)
  <2> PICK rest \in Seq(Transfers) : rest = Left2
    BY <1>1
  <2>1. /\ UNCHANGED <<fourBits, lcd, begun, cleared, resets>>
        /\ \/ Sending(COMMAND, ControlByte, rest)' /\ chip'.function = chip.function
           \/ transfers' = rest /\ chip' = Got(chip, COMMAND, ControlByte)
    BY <1>1, <1>6, SendStep, ZenonT(60)
  <2>2. Left2' = rest /\ Left1' = Left1
    BY <2>1, LeftSame
  <2>3. CASE Sending(COMMAND, ControlByte, rest)' /\ chip'.function = chip.function
    BY <1>3, <1>6, <2>1, <2>2, <2>3 DEF Beginning, Finishing, Function
  <2>4. CASE transfers' = rest /\ chip' = Got(chip, COMMAND, ControlByte)
    <3>1. /\ chip' \in Chips /\ chip'.half = NoNibble /\ chip'.bits = chip.bits
          /\ chip'.function = chip.function /\ chip'.control = 4
      BY <1>1, <1>2, <2>4, GotKeeps DEF LcdTypes
    <3>2. InStep(chip)' /\ Function(chip)'
      BY <1>6, <2>1, <3>1 DEF Sending, InStep, Wires, Function
    <3>3. transfers' = (Send(COMMAND, CLEARDISPLAY) \o Left1)'
      BY <2>1, <2>2, <2>4 DEF Left2, Send
    <3> QED
      BY <1>3, <2>1, <3>1, <3>2, <3>3 DEF Beginning, Finishing, Sending
  <2> QED
    BY <2>1, <2>3, <2>4
<1>7. CASE Sending(COMMAND, CLEARDISPLAY, Left1) /\ Function(chip) /\ chip.control = 4
  <2> PICK rest \in Seq(Transfers) : rest = Left1
    BY <1>1
  <2>1. /\ UNCHANGED <<fourBits, lcd, begun, cleared, resets>>
        /\ \/ Sending(COMMAND, CLEARDISPLAY, rest)' /\ chip'.function = chip.function /\ chip'.control = chip.control
           \/ transfers' = rest /\ chip' = Got(chip, COMMAND, CLEARDISPLAY)
    <3> PICK byte \in 0 .. 255 : byte = CLEARDISPLAY
      BY <1>1
    <3>1. Sending(COMMAND, byte, rest)
      BY <1>7
    <3>2. /\ UNCHANGED <<fourBits, lcd, begun, cleared, resets>>
          /\ \/ /\ Sending(COMMAND, byte, rest)' /\ Got(chip', COMMAND, byte) = Got(chip, COMMAND, byte)
                /\ chip'.function = chip.function /\ chip'.control = chip.control
             \/ transfers' = rest /\ chip' = Got(chip, COMMAND, byte)
      BY <1>1, <3>1, SendStep DEF COMMAND, DATA
    <3> QED
      BY <3>2
  <2>2. Left1' = rest
    BY <2>1, LeftSame
  <2>3. CASE Sending(COMMAND, CLEARDISPLAY, rest)' /\ chip'.function = chip.function /\ chip'.control = chip.control
    BY <1>3, <1>7, <2>1, <2>2, <2>3 DEF Beginning, Finishing, Function
  <2>4. CASE transfers' = rest /\ chip' = Got(chip, COMMAND, CLEARDISPLAY)
    <3>1. /\ chip' \in Chips /\ chip'.half = NoNibble /\ chip'.bits = chip.bits
          /\ chip'.function = chip.function /\ chip'.control = 4
      BY <1>1, <1>2, <1>7, <2>4, GotKeeps DEF LcdTypes
    <3>2. InStep(chip)'
      BY <1>7, <2>1, <3>1 DEF Sending, InStep, Wires
    <3>3. transfers' = (Send(COMMAND, EntryByte) \o <<>>)'
      <4>1. fourBits' \in BOOLEAN /\ transfers' = Send(COMMAND, EntryByte)
        BY <2>1, <2>4 DEF Left1, LcdTypes
      <4>2. Send(COMMAND, EntryByte) \o <<>> = Send(COMMAND, EntryByte)
        BY <1>1, SendParts, EmptySeq DEF LcdTypes
      <4>3. Send(COMMAND, EntryByte)' = Send(COMMAND, EntryByte)
        BY <2>1 DEF Send, EntryByte
      <4> QED
        BY <4>1, <4>2, <4>3
    <3>4. Sending(COMMAND, EntryByte, <<>>)'
      BY <3>2, <3>3 DEF Sending
    <3> PICK o : o = Got(chip', COMMAND, EntryByte)
      OBVIOUS
    <3>5. /\ o \in Chips /\ o.half = NoNibble /\ o.bits = chip'.bits /\ o.function = chip'.function
          /\ o.control = 4 /\ o.entry = 2
      BY <1>1, <1>2, <3>1, GotKeeps
    <3>6. Got(chip', COMMAND, EntryByte) = o
      OBVIOUS
    <3>7. InStep(Got(chip, COMMAND, EntryByte))'
      BY <3>2, <3>5, <3>6 DEF InStep, Wires
    <3>8. Agrees(Got(chip, COMMAND, EntryByte))'
      <4>1. o.function = (IF lcd'.two THEN 8 ELSE 0) /\ o.control = lcd'.control /\ o.entry = lcd'.entry
        BY <1>3, <1>7, <2>1, <3>1, <3>5 DEF Function
      <4> QED
        BY <3>6, <4>1 DEF Agrees
    <3> QED
      BY <1>1, <3>4, <3>7, <3>8 DEF Calling, EntryByte
  <2> QED
    BY <2>1, <2>3, <2>4
<1> QED
  BY <1>4, <1>5, <1>6, <1>7 DEF Beginning, Finishing

\* The transfers of a call that sends one byte
LEMMA CallStep ==
  ASSUME LcdTypes, PulseEnable, Calling
  PROVE  (Calling \/ Returned)'
<1>0. PICK rs \in {COMMAND, DATA}, v \in 0 .. 255 :
      Sending(rs, v, <<>>) /\ InStep(Got(chip, rs, v)) /\ Agrees(Got(chip, rs, v))
  BY DEF Calling
<1>1. /\ UNCHANGED <<fourBits, lcd, begun, cleared, resets>>
      /\ \/ Sending(rs, v, <<>>)' /\ Got(chip', rs, v) = Got(chip, rs, v)
         \/ transfers' = <<>> /\ chip' = Got(chip, rs, v)
  <2>1. ASSUME NEW rest \in Seq(Transfers), Sending(rs, v, rest)
        PROVE  /\ UNCHANGED <<fourBits, lcd, begun, cleared, resets>>
               /\ \/ Sending(rs, v, rest)' /\ Got(chip', rs, v) = Got(chip, rs, v)
                  \/ transfers' = rest /\ chip' = Got(chip, rs, v)
    BY <2>1, SendStep DEF COMMAND, DATA
  <2>2. <<>> \in Seq(Transfers)
    BY EmptySeq
  <2> QED
    BY <1>0, <2>1, <2>2
<1> PICK o : o = Got(chip, rs, v)
  OBVIOUS
<1>2. InStep(o)' /\ Agrees(o)'
  BY <1>0, <1>1 DEF InStep, Wires, Agrees
<1>3. CASE Sending(rs, v, <<>>)' /\ Got(chip', rs, v) = o
  <2>1. InStep(Got(chip, rs, v))' /\ Agrees(Got(chip, rs, v))'
    BY <1>2, <1>3 DEF InStep, Agrees
  <2> QED
    BY <1>3, <2>1 DEF Calling
<1>4. CASE transfers' = <<>> /\ chip' = o
  BY <1>2, <1>4 DEF Returned, InStep, Agrees
<1> QED
  BY <1>1, <1>3, <1>4

\* In a call something is left to send.
LEMMA StillSending ==
  ASSUME LcdTypes, Beginning \/ Calling
  PROVE  transfers # <<>>
<1> PICK two \in BOOLEAN : two = lcd.two
  BY DEF LcdTypes
<1>1. ASSUME NEW rs \in {COMMAND, DATA}, NEW v \in 0 .. 255, NEW s \in Seq(Transfers), Sending(rs, v, s)
      PROVE  transfers # <<>>
  <2>1. <<rs, v % 16, -1>> \in Transfers
    BY DEF Transfers, Halves
  <2>2. Send(rs, v) \o s # <<>> /\ << <<rs, v % 16, -1>> >> \o s # <<>>
    BY <2>1, SendParts, First DEF LcdTypes
  <2> QED
    BY <1>1, <2>2 DEF Sending
<1>2. /\ Left1 \in Seq(Transfers) /\ Left2 \in Seq(Transfers) /\ Left3 \in Seq(Transfers)
      /\ Left4(two) \in Seq(Transfers) /\ Left5(two) \in Seq(Transfers) /\ Left6(two) \in Seq(Transfers)
      /\ Left7(two) \in Seq(Transfers)
      /\ Knock(two) \in Transfers /\ <<COMMAND, 2, -1>> \in Transfers
  BY LeftTypes DEF LcdTypes
<1>3. FunctionSet(two) \in 0 .. 255 /\ ControlByte \in 0 .. 255 /\ CLEARDISPLAY \in 0 .. 255
  <2>1. FunctionSet(two) \in 0 .. 255
    BY FunctionSets DEF LcdTypes
  <2> QED
    BY <2>1 DEF ControlByte, DISPLAYCONTROL, CLEARDISPLAY
<1>4. /\ Left5(two) # <<>> /\ Left6(two) # <<>> /\ Left7(two) # <<>> /\ Left8(two) # <<>>
  <2>1. Left4(two) # <<>>
    BY <1>2, <1>3, SendParts DEF Left4, COMMAND, DATA, LcdTypes
  <2>2. Left5(two) # <<>>
    BY <1>2, <2>1, First DEF Left5
  <2> QED
    BY <1>2, <2>2, First DEF Left6, Left7, Left8
<1>5. CASE Syncing
  BY <1>4, <1>5 DEF Syncing
<1>6. CASE Finishing
  <2>1. ASSUME NEW v \in 0 .. 255, NEW s \in Seq(Transfers), Sending(COMMAND, v, s)
        PROVE  transfers # <<>>
    BY <1>1, <2>1
  <2> QED
    BY <1>2, <1>3, <1>6, <2>1 DEF Finishing
<1>7. CASE Calling
  BY <1>1, <1>7, EmptySeq DEF Calling
<1> QED
  BY <1>5, <1>6, <1>7 DEF Beginning

\* The transfers of begin() are the three knocks and what follows them, however they are put together.
Regroups(a, b, c) == (a \o b) \o c = a \o (b \o c)
Rightwards(a, b, c, d, e) == (((a \o b) \o c) \o d) \o e = a \o (b \o (c \o (d \o e)))

LEMMA Joined == \A S : \A a \in Seq(S) : \A b \in Seq(S) : a \o b \in Seq(S)
<1> TAKE S
<1> TAKE a \in Seq(S)
<1> TAKE b \in Seq(S)
<1> QED
  BY ConcatProperties

LEMMA Regrouping == \A S : \A a \in Seq(S) : \A b \in Seq(S) : \A c \in Seq(S) : Regroups(a, b, c)
<1> TAKE S
<1> TAKE a \in Seq(S)
<1> TAKE b \in Seq(S)
<1> TAKE c \in Seq(S)
<1> QED
  BY ConcatAssociative DEF Regroups

LEMMA Regrouped ==
  ASSUME NEW S, NEW a \in Seq(S), NEW b \in Seq(S), NEW c \in Seq(S), NEW d \in Seq(S), NEW e \in Seq(S)
  PROVE  Rightwards(a, b, c, d, e)
<1>1. a \o b \in Seq(S) /\ (a \o b) \o c \in Seq(S) /\ d \o e \in Seq(S) /\ c \o (d \o e) \in Seq(S)
  BY Joined, Zenon
<1>2. Regroups((a \o b) \o c, d, e) /\ Regroups(a \o b, c, d \o e) /\ Regroups(a, b, c \o (d \o e))
  BY <1>1, Regrouping, Zenon
<1> QED
  BY <1>2, Zenon DEF Regroups, Rightwards

LEMMA FourTransfers ==
  ASSUME NEW S, NEW a \in S, NEW d \in S
  PROVE  <<a, a, a, d>> = <<a>> \o <<a>> \o <<a>> \o <<d>>
<1>1. <<a>> \in Seq(S) /\ <<d>> \in Seq(S) /\ <<a, a, a, d>> \in Seq(S)
  OBVIOUS
<1> PICK p : p = <<a>> \o <<a>>
  OBVIOUS
<1>2. p \in Seq(S) /\ Len(p) = 2 /\ p[1] = a /\ p[2] = a
  BY <1>1
<1> PICK q : q = p \o <<a>>
  OBVIOUS
<1>3. q \in Seq(S) /\ Len(q) = 3 /\ q[1] = a /\ q[2] = a /\ q[3] = a
  BY <1>1, <1>2
<1> PICK s : s = q \o <<d>>
  OBVIOUS
<1>4. s \in Seq(S) /\ Len(s) = 4 /\ s[1] = a /\ s[2] = a /\ s[3] = a /\ s[4] = d
  <2> PICK one \in Seq(S) : one = <<d>> /\ Len(one) = 1 /\ one[1] = d
    BY <1>1
  <2>1. s = q \o one
    OBVIOUS
  <2>2. s \in Seq(S) /\ Len(s) = 4
    BY <1>3, <2>1
  <2> QED
    BY <1>3, <2>1, <2>2
<1>5. \A i \in 1 .. Len(s) : s[i] = <<a, a, a, d>>[i]
  <2>1. PICK u : u = <<a, a, a, d>>
    OBVIOUS
  <2>2. u[1] = a /\ u[2] = a /\ u[3] = a /\ u[4] = d
    BY <2>1
  <2>3. \A i \in 1 .. Len(s) : i = 1 \/ i = 2 \/ i = 3 \/ i = 4
    BY <1>4
  <2>4. \A i \in 1 .. Len(s) : s[i] = u[i]
    BY <1>4, <2>2, <2>3, Zenon
  <2> QED
    BY <2>1, <2>4
<1>6. Len(<<a, a, a, d>>) = 4
  OBVIOUS
<1>7. s = <<a, a, a, d>>
  BY <1>1, <1>4, <1>5, <1>6, SeqEqual
<1> QED
  BY <1>7, Zenon

LEMMA BeginSends ==
  ASSUME fourBits \in BOOLEAN, NEW two \in BOOLEAN
  PROVE  Resync(two) \o Send(COMMAND, FunctionSet(two)) \o Send(COMMAND, DISPLAYCONTROL + 4)
           \o Send(COMMAND, CLEARDISPLAY) \o Send(COMMAND, ENTRYMODESET + 2) = Left8(two)
<1> PICK k \in Transfers : k = Knock(two)
  BY LeftTypes
<1> PICK rest \in Seq(Transfers) : rest = Left4(two)
  BY LeftTypes
<1>1. <<k>> \in Seq(Transfers)
  OBVIOUS
<1>2. ASSUME fourBits
      PROVE  Resync(two) \in Seq(Transfers) /\ Resync(two) \o rest = Left8(two)
  <2> PICK t \in Transfers : t = <<COMMAND, 2, -1>>
    BY LeftTypes
  <2>1. <<t>> \in Seq(Transfers)
    OBVIOUS
  <2>2. Resync(two) = <<k, k, k, t>>
    BY <1>2 DEF Resync, Knock
  <2>3. Resync(two) = <<k>> \o <<k>> \o <<k>> \o <<t>>
    <3>1. <<k, k, k, t>> = <<k>> \o <<k>> \o <<k>> \o <<t>>
      BY FourTransfers, Zenon
    <3> QED
      BY <2>2, <3>1, Zenon
  <2>4. <<k>> \o <<k>> \o <<k>> \o <<t>> \o rest = <<k>> \o (<<k>> \o (<<k>> \o (<<t>> \o rest)))
    <3> PICK x \in Seq(Transfers), y \in Seq(Transfers) : x = <<k>> /\ y = <<t>>
      BY <1>1, <2>1
    <3>1. x \o x \o x \o y \o rest = x \o (x \o (x \o (y \o rest)))
      <4>1. Rightwards(x, x, x, y, rest)
        BY Regrouped, Zenon
      <4> QED
        BY <4>1, Zenon DEF Rightwards
    <3> QED
      BY <3>1, Zenon
  <2>5. Resync(two) \o rest = Left8(two)
    <3>1. Left8(two) = <<k>> \o (<<k>> \o (<<k>> \o (<<t>> \o rest)))
      BY <1>2 DEF Left8, Left7, Left6, Left5
    <3> QED
      BY <2>3, <2>4, <3>1, Zenon
  <2>6. Resync(two) \in Seq(Transfers)
    <3>1. ASSUME NEW S, NEW x \in S, NEW y \in S PROVE <<x, x, x, y>> \in Seq(S)
      OBVIOUS
    <3> QED
      BY <2>2, <3>1, Zenon
  <2> QED
    BY <2>5, <2>6
<1>3. ASSUME ~fourBits
      PROVE  Resync(two) \in Seq(Transfers) /\ Resync(two) \o rest = Left8(two)
  <2>1. Send(COMMAND, FunctionSet(two)) = <<k>>
    BY <1>3, FunctionSets DEF Send, Knock
  <2>2. Resync(two) = <<k>> \o <<k>> \o <<k>>
    BY <1>3, <2>1 DEF Resync
  <2> PICK x \in Seq(Transfers) : x = <<k>>
    BY <1>1
  <2>3. Left8(two) = x \o (x \o (x \o rest))
    BY <1>3 DEF Left8, Left7, Left6, Left5
  <2>4. x \o x \o x \in Seq(Transfers) /\ x \o x \in Seq(Transfers) /\ x \o rest \in Seq(Transfers)
    OBVIOUS
  <2>5. x \o x \o x \o rest = x \o (x \o (x \o rest))
    <3> PICK y \in Seq(Transfers), z \in Seq(Transfers) : y = x \o x /\ z = x \o rest
      BY <2>4
    <3>1. (y \o x) \o rest = y \o z
      BY ConcatAssociative
    <3>2. (x \o x) \o z = x \o (x \o z)
      BY ConcatAssociative
    <3> QED
      BY <3>1, <3>2
  <2> QED
    BY <2>2, <2>3, <2>4, <2>5, Zenon
<1>4. Resync(two) \in Seq(Transfers) /\ Resync(two) \o rest = Left8(two)
  BY <1>2, <1>3
<1>5. /\ FunctionSet(two) \in 0 .. 255 /\ ControlByte \in 0 .. 255 /\ CLEARDISPLAY \in 0 .. 255
      /\ EntryByte \in 0 .. 255
  <2>1. FunctionSet(two) \in 0 .. 255
    BY FunctionSets
  <2> QED
    BY <2>1 DEF ControlByte, DISPLAYCONTROL, CLEARDISPLAY, EntryByte, ENTRYMODESET
<1> PICK a \in Seq(Transfers) : a = Send(COMMAND, FunctionSet(two))
  BY <1>5, SendParts, EmptySeq DEF COMMAND, DATA
<1> PICK b \in Seq(Transfers) : b = Send(COMMAND, ControlByte)
  BY <1>5, SendParts, EmptySeq DEF COMMAND, DATA
<1> PICK c \in Seq(Transfers) : c = Send(COMMAND, CLEARDISPLAY)
  BY <1>5, SendParts, EmptySeq DEF COMMAND, DATA
<1> PICK d \in Seq(Transfers) : d = Send(COMMAND, EntryByte)
  BY <1>5, SendParts, EmptySeq DEF COMMAND, DATA
<1>6. rest = a \o (b \o (c \o d))
  BY DEF Left4, Left3, Left2, Left1
<1>7. Resync(two) \o a \o b \o c \o d = Resync(two) \o (a \o (b \o (c \o d)))
  <2> PICK r \in Seq(Transfers) : r = Resync(two)
    BY <1>4
  <2>1. Rightwards(r, a, b, c, d)
    BY Regrouped, Zenon
  <2> QED
    BY <2>1, Zenon DEF Rightwards
<1>8. Resync(two) \o a \o b \o c \o d = Left8(two)
  BY <1>4, <1>6, <1>7, Zenon
<1> QED
  BY <1>8 DEF ControlByte, EntryByte

LEMMA BeginKeeps ==
  ASSUME LcdTypes, NEW lines \in Nat, BeginLcd(lines)
  PROVE  LcdTypes' /\ Beginning'
<1> PICK two \in BOOLEAN : two = (lines > 1 \/ (begun /\ lcd.two))
  OBVIOUS
<1>1. /\ lcd' = [two |-> two, control |-> 4, entry |-> 2] /\ begun' = TRUE /\ cleared' = FALSE
      /\ UNCHANGED <<fourBits, chip, resets>>
  BY DEF BeginLcd
<1>2. transfers' = Left8(two)
  <2>1. transfers' = Resync(two) \o Send(COMMAND, FunctionSet(two)) \o Send(COMMAND, DISPLAYCONTROL + 4)
                       \o Send(COMMAND, CLEARDISPLAY) \o Send(COMMAND, ENTRYMODESET + 2)
    BY DEF BeginLcd
  <2> QED
    BY <2>1, BeginSends DEF LcdTypes
<1>3. Left8(two) \in Seq(Transfers)
  BY LeftTypes DEF LcdTypes
<1>4. LcdTypes'
  <2>1. lcd' \in [two : BOOLEAN, control : 0 .. 7, entry : 0 .. 3]
    BY <1>1
  <2>2. /\ fourBits' \in BOOLEAN /\ begun' \in BOOLEAN /\ cleared' \in BOOLEAN /\ chip' \in Chips
        /\ transfers' \in Seq(Transfers)
    <3>1. transfers' \in Seq(Transfers)
      BY <1>2, <1>3, Zenon
    <3> QED
      BY <1>1, <3>1 DEF LcdTypes
  <2> QED
    BY <2>1, <2>2 DEF LcdTypes
<1>5. Left8(lcd.two)' = Left8(two)
  BY <1>1 DEF Left1, Left2, Left3, Left4, Left5, Left6, Left7, Left8, Knock, Send, FunctionSet
<1> QED
  BY <1>1, <1>2, <1>4, <1>5 DEF Beginning, Syncing

\* A call hands over one byte: enough that the controller would be set as the library then believes.
LEMMA CallKeeps ==
  ASSUME LcdTypes, Returned, NEW rs \in {COMMAND, DATA}, NEW v \in 0 .. 255, Called(Send(rs, v)),
         lcd' \in [two : BOOLEAN, control : 0 .. 7, entry : 0 .. 3], cleared' \in BOOLEAN,
         Got(chip, rs, v) \in Chips, Got(chip, rs, v).bits = chip.bits, Got(chip, rs, v).half = NoNibble,
         Agrees(Got(chip, rs, v))'
  PROVE  LcdTypes' /\ Calling'
<1> PICK o \in Chips : o = Got(chip, rs, v)
  OBVIOUS
<1>1. UNCHANGED <<fourBits, begun, chip>> /\ transfers' = Send(rs, v) /\ InStep(chip)
  BY DEF Called, Returned
<1>2. Send(rs, v) \in Seq(Transfers) /\ Send(rs, v) \o <<>> = Send(rs, v)
  BY SendParts, EmptySeq DEF LcdTypes
<1>3. LcdTypes'
  BY <1>1, <1>2 DEF LcdTypes
<1>4. InStep(chip)' /\ InStep(o)'
  BY <1>1 DEF InStep, Wires
<1>5. transfers' = (Send(rs, v) \o <<>>)'
  BY <1>1, <1>2 DEF Send
<1>6. Sending(rs, v, <<>>)'
  BY <1>4, <1>5 DEF Sending
<1>7. Got(chip', rs, v) = o
  BY <1>1
<1>8. InStep(Got(chip, rs, v))' /\ Agrees(Got(chip, rs, v))'
  BY <1>4, <1>7
<1> QED
  BY <1>3, <1>6, <1>8 DEF Calling

LEMMA SetControlKeeps ==
  ASSUME LcdTypes, Returned, NEW k \in {1, 2, 4}, NEW on \in BOOLEAN, SetControl(k, on)
  PROVE  LcdTypes' /\ Calling'
<1> PICK n \in 0 .. 7 : n = lcd.control
  BY DEF LcdTypes
<1>1. PICK c \in 0 .. 7 : c = lcd.control + k * ((IF on THEN 1 ELSE 0) - Bit(lcd.control, k))
  <2> PICK b \in 0 .. 1 : b = IF on THEN 1 ELSE 0
    OBVIOUS
  <2>1. b = 0 \/ b = 1
    OBVIOUS
  <2>2. CASE k = 1
    BY <2>1, <2>2 DEF Bit
  <2>3. CASE k = 2
    BY <2>1, <2>3 DEF Bit
  <2>4. CASE k = 4
    <3>1. PICK m \in 0 .. 1, r \in 0 .. 3 : m = Bit(n, 4) /\ n = 4 * m + r
      BY DEF Bit
    <3>2. n + 4 * (b - m) = 4 * b + r /\ 4 * b + r \in 0 .. 7
      BY <2>1, <3>1
    <3> QED
      BY <2>4, <3>1, <3>2
  <2> QED
    BY <2>2, <2>3, <2>4
<1> PICK v \in 0 .. 255 : v = DISPLAYCONTROL + c
  BY DEF DISPLAYCONTROL
<1>2. Called(Send(COMMAND, v)) /\ lcd' = [lcd EXCEPT !.control = c] /\ cleared' = cleared
  BY <1>1 DEF SetControl
<1>3. v \in ControlBytes /\ v - 8 = c /\ v \notin FunctionBytes /\ v \notin EntryBytes /\ v # CLEARDISPLAY
  BY DEF DISPLAYCONTROL, ControlBytes, FunctionBytes, EntryBytes, CLEARDISPLAY
<1> PICK o : o = Got(chip, COMMAND, v)
  OBVIOUS
<1>4. /\ o \in Chips /\ o.half = NoNibble /\ o.bits = chip.bits /\ o.function = chip.function
      /\ o.control = c /\ o.entry = chip.entry
  BY <1>3, GotKeeps DEF LcdTypes
<1>5. /\ lcd' \in [two : BOOLEAN, control : 0 .. 7, entry : 0 .. 3] /\ cleared' \in BOOLEAN
      /\ lcd'.two = lcd.two /\ lcd'.control = c /\ lcd'.entry = lcd.entry
  BY <1>2 DEF LcdTypes
<1>6. Agrees(o)'
  BY <1>2, <1>4, <1>5 DEF Returned, Agrees
<1>7. Got(chip', COMMAND, v) = o
  BY <1>2 DEF Called
<1>8. Agrees(Got(chip, COMMAND, v))'
  BY <1>6, <1>7
<1> QED
  BY <1>2, <1>4, <1>5, <1>8, CallKeeps DEF COMMAND, DATA

LEMMA SetModeKeeps ==
  ASSUME LcdTypes, Returned, NEW k \in {1, 2}, NEW on \in BOOLEAN, SetMode(k, on)
  PROVE  LcdTypes' /\ Calling'
<1> PICK n \in 0 .. 3 : n = lcd.entry
  BY DEF LcdTypes
<1>1. PICK c \in 0 .. 3 : c = lcd.entry + k * ((IF on THEN 1 ELSE 0) - Bit(lcd.entry, k))
  <2> PICK b : b = IF on THEN 1 ELSE 0
    OBVIOUS
  <2>1. b = 0 \/ b = 1
    OBVIOUS
  <2>2. CASE k = 1
    BY <2>1, <2>2 DEF Bit
  <2>3. CASE k = 2
    BY <2>1, <2>3 DEF Bit
  <2> QED
    BY <2>2, <2>3
<1> PICK v \in 0 .. 255 : v = ENTRYMODESET + c
  BY DEF ENTRYMODESET
<1>2. Called(Send(COMMAND, v)) /\ lcd' = [lcd EXCEPT !.entry = c] /\ cleared' = FALSE
  BY <1>1 DEF SetMode
<1>3. v \in EntryBytes /\ v - 4 = c /\ v \notin FunctionBytes /\ v \notin ControlBytes
  BY DEF ENTRYMODESET, ControlBytes, FunctionBytes, EntryBytes
<1> PICK o : o = Got(chip, COMMAND, v)
  OBVIOUS
<1>4. /\ o \in Chips /\ o.half = NoNibble /\ o.bits = chip.bits /\ o.function = chip.function
      /\ o.control = chip.control /\ o.entry = c
  BY <1>3, GotKeeps DEF LcdTypes
<1>5. /\ lcd' \in [two : BOOLEAN, control : 0 .. 7, entry : 0 .. 3] /\ cleared' \in BOOLEAN
      /\ lcd'.two = lcd.two /\ lcd'.control = lcd.control /\ lcd'.entry = c
  BY <1>2 DEF LcdTypes
<1>6. Agrees(o)'
  BY <1>4, <1>5 DEF Returned, Agrees
<1>7. Got(chip', COMMAND, v) = o
  BY <1>2 DEF Called
<1>8. Agrees(Got(chip, COMMAND, v))'
  BY <1>6, <1>7
<1> QED
  BY <1>2, <1>4, <1>5, <1>8, CallKeeps DEF COMMAND, DATA

\* clear() turns the direction of the controller, and nothing else.
LEMMA ClearKeeps ==
  ASSUME LcdTypes, Returned, Clear
  PROVE  LcdTypes' /\ Calling'
<1> PICK v \in 0 .. 255 : v = CLEARDISPLAY
  BY DEF CLEARDISPLAY
<1>1. Called(Send(COMMAND, v)) /\ lcd' = lcd /\ cleared' = TRUE
  BY DEF Clear
<1>2. v \notin FunctionBytes /\ v \notin ControlBytes
  BY DEF CLEARDISPLAY, ControlBytes, FunctionBytes
<1> PICK o : o = Got(chip, COMMAND, v)
  OBVIOUS
<1>3. /\ o \in Chips /\ o.half = NoNibble /\ o.bits = chip.bits /\ o.function = chip.function
      /\ o.control = chip.control /\ o.entry = 2 + (chip.entry % 2)
  BY <1>2, GotKeeps DEF LcdTypes
<1>4. o.entry % 2 = chip.entry % 2
  BY <1>3 DEF LcdTypes, Chips
<1>5. Agrees(o)'
  BY <1>1, <1>3, <1>4 DEF Returned, Agrees
<1>6. Got(chip', COMMAND, v) = o
  BY <1>1 DEF Called
<1>7. Agrees(Got(chip, COMMAND, v))'
  BY <1>5, <1>6
<1>8. lcd' \in [two : BOOLEAN, control : 0 .. 7, entry : 0 .. 3] /\ cleared' \in BOOLEAN
  BY <1>1 DEF LcdTypes
<1> QED
  BY <1>1, <1>3, <1>7, <1>8, CallKeeps DEF COMMAND, DATA

\* Every other call leaves the settings of the controller.
LEMMA CommandKeeps ==
  ASSUME LcdTypes, Returned, NEW w, Command(w)
  PROVE  LcdTypes' /\ Calling'
<1> PICK v \in 0 .. 255 : v = w
  BY DEF Command
<1>1. Called(Send(COMMAND, v)) /\ lcd' = lcd /\ cleared' = cleared
  BY DEF Command
<1>2. v \notin FunctionBytes /\ v \notin ControlBytes /\ v \notin EntryBytes /\ v # CLEARDISPLAY
  BY DEF Command, CLEARDISPLAY, ControlBytes, FunctionBytes, EntryBytes
<1> PICK o : o = Got(chip, COMMAND, v)
  OBVIOUS
<1>3. /\ o \in Chips /\ o.half = NoNibble /\ o.bits = chip.bits /\ o.function = chip.function
      /\ o.control = chip.control /\ o.entry = chip.entry
  BY <1>2, GotKeeps DEF LcdTypes
<1>4. Agrees(o)'
  BY <1>1, <1>3 DEF Returned, Agrees
<1>5. Got(chip', COMMAND, v) = o
  BY <1>1 DEF Called
<1>6. Agrees(Got(chip, COMMAND, v))'
  BY <1>4, <1>5
<1>7. lcd' \in [two : BOOLEAN, control : 0 .. 7, entry : 0 .. 3] /\ cleared' \in BOOLEAN
  BY <1>1 DEF LcdTypes
<1> QED
  BY <1>1, <1>3, <1>6, <1>7, CallKeeps DEF COMMAND, DATA

LEMMA WriteCharKeeps ==
  ASSUME LcdTypes, Returned, NEW v \in 0 .. 255, WriteChar(v)
  PROVE  LcdTypes' /\ Calling'
<1>1. Called(Send(DATA, v)) /\ lcd' = lcd /\ cleared' = cleared
  BY DEF WriteChar
<1> PICK o : o = Got(chip, DATA, v)
  OBVIOUS
<1>2. /\ o \in Chips /\ o.half = NoNibble /\ o.bits = chip.bits /\ o.function = chip.function
      /\ o.control = chip.control /\ o.entry = chip.entry
  BY DEF Got, Chips, Halves, NoNibble, LcdTypes
<1>3. Agrees(o)'
  BY <1>1, <1>2 DEF Returned, Agrees
<1>4. Got(chip', DATA, v) = o
  BY <1>1 DEF Called
<1>5. Agrees(Got(chip, DATA, v))'
  BY <1>3, <1>4
<1>6. lcd' \in [two : BOOLEAN, control : 0 .. 7, entry : 0 .. 3] /\ cleared' \in BOOLEAN
  BY <1>1 DEF LcdTypes
<1> QED
  BY <1>1, <1>2, <1>5, <1>6, CallKeeps DEF COMMAND, DATA

LEMMA LcdStep == LcdInv /\ [LcdNext]_lcdVars => LcdInv'
<1> SUFFICES ASSUME LcdInv, [LcdNext]_lcdVars PROVE LcdInv'
  OBVIOUS
<1>1. LcdTypes /\ (begun => Beginning \/ Calling \/ Returned)
  BY DEF LcdInv
<1>2. ASSUME begun, transfers = <<>> PROVE Returned
  BY <1>1, <1>2, StillSending
<1>3. ASSUME NEW lines \in Lines, BeginLcd(lines) PROVE LcdInv'
  <2>1. lines \in Nat
    BY LinesAssumption
  <2> QED
    BY <1>1, <1>3, <2>1, BeginKeeps DEF LcdInv
<1>4. ASSUME NEW on \in BOOLEAN, NEW k \in {1, 2, 4}, SetControl(k, on) PROVE LcdInv'
  <2>1. Returned
    BY <1>2, <1>4 DEF SetControl, Called
  <2> QED
    BY <1>1, <1>4, <2>1, SetControlKeeps DEF LcdInv
<1>5. ASSUME NEW on \in BOOLEAN, NEW k \in {1, 2}, SetMode(k, on) PROVE LcdInv'
  <2>1. Returned
    BY <1>2, <1>5 DEF SetMode, Called
  <2> QED
    BY <1>1, <1>5, <2>1, SetModeKeeps DEF LcdInv
<1>6. CASE Clear
  <2>1. Returned
    BY <1>2, <1>6 DEF Clear, Called
  <2> QED
    BY <1>1, <1>6, <2>1, ClearKeeps DEF LcdInv
<1>7. ASSUME NEW v \in {2, 192}, Command(v) PROVE LcdInv'
  <2>1. Returned
    BY <1>2, <1>7 DEF Command, Called
  <2> QED
    BY <1>1, <1>7, <2>1, CommandKeeps DEF LcdInv
<1>8. CASE WriteChar(49)
  <2>1. Returned
    BY <1>2, <1>8 DEF WriteChar, Called
  <2>2. 49 \in 0 .. 255
    OBVIOUS
  <2>3. LcdTypes' /\ Calling'
    BY <1>1, <1>8, <2>1, <2>2, WriteCharKeeps
  <2> QED
    BY <2>3 DEF LcdInv
<1>9. CASE PulseEnable
  <2>1. LcdTypes' /\ begun' = begun /\ ~Returned
    BY <1>1, <1>9, PulseTypes DEF PulseEnable, Returned
  <2>2. Beginning => (Beginning \/ Calling)'
    BY <1>1, <1>9, FinishStep
  <2>3. Calling => (Calling \/ Returned)'
    BY <1>1, <1>9, CallStep
  <2> QED
    BY <1>1, <2>1, <2>2, <2>3 DEF LcdInv
<1>10. CASE ResetBoard
  BY <1>1, <1>10, EmptySeq DEF ResetBoard, LcdInv, LcdTypes
<1>11. CASE UNCHANGED lcdVars
  <2>1. UNCHANGED <<fourBits, lcd, transfers, begun, chip, cleared>>
    BY <1>11 DEF lcdVars
  <2>2. LcdTypes'
    BY <1>1, <2>1 DEF LcdTypes
  <2>3. Syncing' = Syncing
    BY <2>1 DEF Syncing, Left1, Left2, Left3, Left4, Left5, Left6, Left7, Left8, Knock, Send, FunctionSet
  <2>4. Finishing' = Finishing
    BY <2>1 DEF Finishing, Sending, InStep, Wires, Function, Left1, Left2, Left3, Send, FunctionSet
  <2>5. Beginning' = Beginning
    BY <2>1, <2>3, <2>4 DEF Beginning
  <2>6. Calling' = Calling
    BY <2>1 DEF Calling, Sending, InStep, Wires, Agrees, Send
  <2>7. Returned' = Returned
    BY <2>1 DEF Returned, InStep, Wires, Agrees
  <2> QED
    BY <1>1, <2>1, <2>2, <2>5, <2>6, <2>7 DEF LcdInv
<1> QED
  BY <1>3, <1>4, <1>5, <1>6, <1>7, <1>8, <1>9, <1>10, <1>11 DEF LcdNext

\* When a call of the display's library has returned, the controller reads bytes as the wiring sends
\* them and is set as the library believes, whatever state it was in when the board came up and
\* wherever in a call the board was reset.
THEOREM ControllerAgreesAlways == LcdInit /\ [][LcdNext]_lcdVars => []ControllerAgrees
<1>1. LcdInv => ControllerAgrees
  <2> SUFFICES ASSUME LcdInv, begun, transfers = <<>> PROVE ControllerAgrees
    BY DEF ControllerAgrees
  <2>1. Returned
    BY StillSending DEF LcdInv
  <2> QED
    BY <2>1 DEF Returned, InStep, Wires, Agrees, ControllerAgrees
<1> QED
  BY LcdInitInv, LcdStep, <1>1, PTL

-----------------------------------------------------------------------------
(* Sensors of temperature. *)

Resolutions == 9 .. 12
SensorTypes == /\ plugged \subseteq Sensor /\ busy \subseteq Sensor /\ call \in {"one", "all", "other"}
               /\ scratch \in [Sensor -> Resolutions] /\ eeprom \in [Sensor -> Resolutions]
               /\ lib \in [devices : Nat, bits : Nat, parasite : BOOLEAN, wait : BOOLEAN,
                           check : BOOLEAN, autoSave : BOOLEAN]
               /\ changed \in BOOLEAN

\* Since begin() nothing was plugged in: the library has counted at least the sensors that are
\* there, so that its loops reach all of them; it knows of every one that needs its power; and
\* none of them is set to more than the resolution it waits for.
Counted == ~changed => /\ Cardinality(plugged) <= lib.devices
                       /\ plugged \cap Parasite # {} => lib.parasite
                       /\ \A d \in plugged \ S20 : scratch[d] <= lib.bits

SensorInv == SensorTypes /\ Counted /\ WaitsLongEnough

LEMMA PluggedFinite == ASSUME SensorTypes PROVE IsFiniteSet(plugged) /\ Cardinality(plugged) \in Nat
  BY SensorAssumption, FS_Subset, FS_CardinalityType DEF SensorTypes

\* Every sensor has an index, below the number of sensors.
LEMMA Addressed ==
  ASSUME SensorTypes, NEW d \in plugged
  PROVE  \E i \in 0 .. Cardinality(plugged) - 1 : GetAddress(i) = d
<1>1. plugged \subseteq Nat
  BY SensorAssumption DEF SensorTypes
<1>2. ASSUME NEW e \in plugged
      PROVE  IsFiniteSet(Before(e)) /\ Cardinality(Before(e)) \in Nat
  <2>1. Before(e) \in SUBSET plugged
    BY DEF Before
  <2> QED
    BY <2>1, PluggedFinite, FS_Subset, FS_CardinalityType
<1>3. ASSUME NEW e \in plugged, NEW f \in plugged, e < f
      PROVE  Cardinality(Before(e)) < Cardinality(Before(f))
  <2>1. ASSUME NEW x \in plugged, x < e PROVE x < f
    BY <1>1, <1>3, <2>1
  <2>2. ~(e < e)
    BY <1>1
  <2>3. Before(e) \in SUBSET Before(f) /\ e \in Before(f) /\ e \notin Before(e)
    BY <1>3, <2>1, <2>2 DEF Before
  <2> QED
    BY <1>2, <2>3, FS_Subset
<1>4. Cardinality(Before(d)) < Cardinality(plugged)
  <2>1. Before(d) \in SUBSET plugged /\ d \notin Before(d)
    BY <1>1 DEF Before
  <2> QED
    BY <1>2, <2>1, PluggedFinite, FS_Subset
<1> PICK i \in Nat : i = Cardinality(Before(d))
  BY <1>2
<1>5. ASSUME NEW e \in plugged, Cardinality(Before(e)) = i PROVE e = d
  BY <1>1, <1>2, <1>3, <1>5
<1>6. GetAddress(i) = CHOOSE e \in plugged : Cardinality(Before(e)) = i
  BY <1>4, PluggedFinite DEF GetAddress
<1> QED
  BY <1>4, <1>5, <1>6, PluggedFinite

\* A loop over the devices reaches every sensor there is, if there are no more than it counts.
LEMMA AllNamed ==
  ASSUME SensorTypes, Cardinality(plugged) <= lib.devices
  PROVE  plugged \subseteq Named
<1> SUFFICES ASSUME NEW d \in plugged PROVE d \in Named
  OBVIOUS
<1>1. PICK i \in 0 .. Cardinality(plugged) - 1 : GetAddress(i) = d
  BY Addressed
<1>2. i \in 0 .. lib.devices - 1 /\ d # 0
  BY PluggedFinite, SensorAssumption DEF SensorTypes
<1> QED
  BY <1>1, <1>2 DEF Named

LEMMA Highest ==
  ASSUME NEW b \in Nat, NEW S \in SUBSET (0 .. 12)
  PROVE  Max({b} \cup S) \in Nat /\ b <= Max({b} \cup S) /\ \A r \in S : r <= Max({b} \cup S)
<1> PICK n \in Nat : n = b + 12
  OBVIOUS
<1> PICK T : T = {b} \cup S
  OBVIOUS
<1>1. T \in SUBSET (0 .. n) /\ T # {}
  OBVIOUS
<1> PICK top \in T : top = Max(T) /\ \A y \in T : top >= y
  BY <1>1, MaxOf, Zenon
<1>2. top \in Nat /\ b <= top /\ \A r \in S : r <= top
  <2>1. top \in Nat /\ b \in T
    BY <1>1
  <2>2. ASSUME NEW r \in S PROVE r \in Nat /\ r \in T
    OBVIOUS
  <2> QED
    BY <2>1, <2>2
<1> QED
  BY <1>2

LEMMA ResolutionRange ==
  ASSUME SensorTypes, NEW d
  PROVE  GetResolution(scratch, d) \in 0 .. 12
  BY DEF GetResolution, SensorTypes, Resolutions

LEMMA SensorInitInv == SensorInit => SensorInv
  BY DEF SensorInit, SensorInv, SensorTypes, Resolutions, Counted, WaitsLongEnough

LEMMA BeginSensorsKeeps == ASSUME SensorInv, BeginSensors PROVE SensorInv'
<1> DEFINE theirs == {GetResolution(scratch, d) : d \in plugged}
<1> PICK b \in Nat : b = lib.bits
  BY DEF SensorInv, SensorTypes
<1>1. theirs \in SUBSET (0 .. 12)
  BY ResolutionRange DEF SensorInv
<1>2. Max({b} \cup theirs) \in Nat /\ b <= Max({b} \cup theirs) /\ \A r \in theirs : r <= Max({b} \cup theirs)
  BY <1>1, Highest
<1>3. lib' = [lib EXCEPT !.devices = Cardinality(plugged), !.parasite = @ \/ plugged \cap Parasite # {},
                         !.bits = Max({b} \cup theirs)]
      /\ changed' = FALSE /\ call' = "other" /\ busy' = {} /\ UNCHANGED <<plugged, scratch, eeprom>>
  BY DEF BeginSensors, Other
<1> PICK top \in Nat : top = Max({b} \cup theirs)
  BY <1>2
<1>4. SensorTypes'
  BY <1>3, PluggedFinite DEF SensorInv, SensorTypes
<1>5. Counted'
  <2>1. lib'.devices = Cardinality(plugged) /\ lib'.bits = top /\ (plugged \cap Parasite # {} => lib'.parasite)
    BY <1>3 DEF SensorInv, SensorTypes
  <2>2. ASSUME NEW d \in plugged \ S20 PROVE scratch[d] <= top
    <3>1. scratch[d] \in theirs
      BY DEF GetResolution
    <3> QED
      BY <1>2, <3>1
  <2> QED
    BY <1>3, <2>1, <2>2, PluggedFinite DEF Counted, SensorInv
<1> QED
  BY <1>3, <1>4, <1>5 DEF SensorInv, WaitsLongEnough

\* What is written are resolutions, and only where it is said.
LEMMA WrittenTypes ==
  ASSUME SensorTypes, NEW sensors, NEW bits, WriteScratchPad(sensors, bits), sensors # {} => bits \in Resolutions
  PROVE  /\ scratch' \in [Sensor -> Resolutions] /\ eeprom' \in [Sensor -> Resolutions]
         /\ \A d \in Sensor : scratch'[d] = IF d \in sensors THEN bits ELSE scratch[d]
  BY DEF WriteScratchPad, SensorTypes

LEMMA ConstrainRange == ASSUME NEW n \in Nat PROVE Constrain(n) \in Resolutions
  BY DEF Constrain, Resolutions

LEMMA SetAllKeeps == ASSUME SensorInv, NEW n \in Asked, SetResolutionOfAll(n) PROVE SensorInv'
<1> PICK bits \in Resolutions : bits = Constrain(n)
  BY ConstrainRange, SensorAssumption
<1> DEFINE sensors == (plugged \ S20) \cap Named
<1>1. /\ scratch' \in [Sensor -> Resolutions] /\ eeprom' \in [Sensor -> Resolutions]
      /\ \A d \in Sensor : scratch'[d] = IF d \in sensors THEN bits ELSE scratch[d]
  <2>1. WriteScratchPad(sensors, bits)
    BY DEF SetResolutionOfAll
  <2> HIDE DEF sensors
  <2> QED
    BY <2>1, WrittenTypes DEF SensorInv
<1>2. /\ lib' = [lib EXCEPT !.bits = bits] /\ bits \in Nat
      /\ call' = "other" /\ busy' = {} /\ UNCHANGED <<plugged, changed>>
  BY DEF SetResolutionOfAll, Other, Resolutions
<1>3. SensorTypes'
  BY <1>1, <1>2 DEF SensorInv, SensorTypes
<1>4. Counted'
  <2> SUFFICES ASSUME ~changed PROVE Counted'
    BY <1>2 DEF Counted
  <2>1. Cardinality(plugged) <= lib.devices /\ (plugged \cap Parasite # {} => lib.parasite)
    BY DEF SensorInv, Counted
  <2>2. plugged \subseteq Named
    BY <2>1, AllNamed DEF SensorInv
  <2>3. lib'.devices = lib.devices /\ lib'.parasite = lib.parasite /\ lib'.bits = bits
    BY <1>2 DEF SensorInv, SensorTypes
  <2>4. ASSUME NEW d \in plugged \ S20 PROVE scratch'[d] <= bits
    BY <1>1, <2>2 DEF SensorInv, SensorTypes, Resolutions
  <2> QED
    BY <1>2, <2>1, <2>3, <2>4 DEF Counted
<1> QED
  BY <1>2, <1>3, <1>4 DEF SensorInv, WaitsLongEnough

LEMMA SetOneKeeps == ASSUME SensorInv, NEW n \in Asked, NEW s \in Sensor, SetResolution(s, n) PROVE SensorInv'
<1> PICK bits \in Nat : bits = (IF s \in S20 THEN n ELSE Constrain(n)) /\ (s \notin S20 => bits \in Resolutions)
  BY ConstrainRange, SensorAssumption DEF Resolutions
<1> DEFINE sensors == {s} \cap (plugged \ S20)
           asked == {GetResolution(scratch', e) : e \in Named}
<1>1. /\ scratch' \in [Sensor -> Resolutions] /\ eeprom' \in [Sensor -> Resolutions]
      /\ \A d \in Sensor : scratch'[d] = IF d \in sensors THEN bits ELSE scratch[d]
  <2>1. WriteScratchPad(sensors, bits) /\ (sensors # {} => bits \in Resolutions)
    BY DEF SetResolution
  <2> HIDE DEF sensors
  <2> QED
    BY <2>1, WrittenTypes DEF SensorInv
<1>2. asked \in SUBSET (0 .. 12)
  BY <1>1 DEF GetResolution, SensorInv, SensorTypes, Resolutions
<1> PICK top \in Nat : top = IF lib.devices > 1 /\ bits # 12 THEN Max({bits} \cup asked) ELSE bits
  BY <1>2, Highest
<1>3. /\ lib' = [lib EXCEPT !.bits = top]
      /\ changed' = (changed \/ s \notin plugged)
      /\ call' = "other" /\ busy' = {} /\ UNCHANGED plugged
  BY DEF SetResolution, Other
<1>4. SensorTypes'
  BY <1>1, <1>3 DEF SensorInv, SensorTypes
<1>5. Counted'
  <2> SUFFICES ASSUME ~changed, s \in plugged PROVE Counted'
    BY <1>3 DEF Counted
  <2>1. Cardinality(plugged) <= lib.devices /\ (plugged \cap Parasite # {} => lib.parasite)
    BY DEF SensorInv, Counted
  <2>2. lib'.devices = lib.devices /\ lib'.parasite = lib.parasite /\ lib'.bits = top
    BY <1>3 DEF SensorInv, SensorTypes
  <2>3. ASSUME NEW d \in plugged \ S20 PROVE scratch'[d] <= top
    <3>0. d \in Sensor /\ scratch'[d] \in Resolutions
      BY <1>1 DEF SensorInv, SensorTypes
    <3>1. CASE lib.devices > 1 /\ bits # 12
      <4>1. d \in Named
        BY <2>1, AllNamed DEF SensorInv
      <4>2. scratch'[d] \in asked
        BY <4>1 DEF GetResolution
      <4> HIDE DEF asked
      <4>3. top = Max({bits} \cup asked)
        BY <3>1
      <4> QED
        BY <1>2, <4>2, <4>3, Highest
    <3>2. CASE bits = 12
      BY <3>0, <3>2 DEF Resolutions
    <3>3. CASE lib.devices <= 1 /\ bits # 12
      <4>1. Cardinality(plugged) <= 1
        BY <2>1, <3>3, PluggedFinite DEF SensorInv, SensorTypes
      <4>2. plugged = {s}
        BY <4>1, PluggedFinite, FS_Singleton, FS_EmptySet DEF SensorInv
      <4>3. d = s /\ s \notin S20
        BY <4>2
      <4>4. d \in sensors /\ ~(lib.devices > 1)
        BY <3>3, <4>3 DEF SensorInv, SensorTypes
      <4>5. scratch'[d] = bits
        BY <1>1, <3>0, <4>4
      <4>6. top = bits
        BY <4>4
      <4> QED
        BY <4>5, <4>6
    <3> QED
      BY <3>1, <3>2, <3>3 DEF SensorInv, SensorTypes
  <2> QED
    BY <1>3, <2>1, <2>2, <2>3 DEF Counted
<1> QED
  BY <1>3, <1>4, <1>5 DEF SensorInv, WaitsLongEnough

\* A request that waits: whoever does not answer when it is done has its conversion waited for.
LEMMA RequestKeeps ==
  ASSUME SensorInv, RequestTemperatures \/ \E d \in Sensor : RequestByAddress(d) PROVE SensorInv'
<1> USE DEF SensorInv, SensorTypes
<1>1. UNCHANGED <<plugged, scratch, eeprom, lib, changed>> /\ busy' \subseteq Sensor /\ call' \in {"one", "all"}
  BY DEF RequestTemperatures, RequestByAddress, Request
<1>2. SensorTypes' /\ Counted'
  BY <1>1 DEF Counted
<1>3. ASSUME RequestTemperatures, lib.wait, ~changed PROVE call' = "all" /\ busy' \subseteq S20
  <2> SUFFICES ASSUME NEW d \in plugged \ S20 PROVE Blocks(d, lib.bits)
    BY <1>3 DEF RequestTemperatures, Request
  <2>1. scratch[d] \in Resolutions /\ scratch[d] <= lib.bits /\ (d \in Parasite => lib.parasite)
    BY <1>3 DEF Counted
  <2>2. MillisToWait(scratch[d]) <= MillisToWait(lib.bits)
    BY <2>1 DEF MillisToWait, Resolutions
  <2> QED
    BY <2>1, <2>2 DEF Blocks, ConversionTime
<1>4. ASSUME NEW d \in Sensor, RequestByAddress(d), lib.wait
      PROVE  call' = "one" /\ busy' \subseteq IF changed THEN Parasite ELSE {}
  <2>1. call' = "one" /\ busy' = {e \in {d} \cap plugged : ~Blocks(e, GetResolution(scratch, d))}
    BY <1>4 DEF RequestByAddress, Request
  <2>2. ASSUME d \in plugged PROVE ConversionTime(d) <= MillisToWait(GetResolution(scratch, d))
    BY <2>2 DEF ConversionTime, GetResolution, MillisToWait, Resolutions
  <2>3. ASSUME ~changed, d \in plugged, d \in Parasite PROVE lib.parasite
    BY <2>3 DEF Counted
  <2> QED
    BY <2>1, <2>2, <2>3 DEF Blocks
<1>5. CASE RequestTemperatures
  BY <1>1, <1>2, <1>3, <1>5 DEF WaitsLongEnough, RequestTemperatures
<1>6. ASSUME NEW d \in Sensor, RequestByAddress(d) PROVE SensorInv'
  BY <1>1, <1>2, <1>4, <1>6 DEF WaitsLongEnough, RequestByAddress
<1> QED
  BY <1>5, <1>6

\* Sensors come and go between calls.
LEMMA BusKeeps ==
  ASSUME SensorInv, NEW d \in Sensor, Save(d) \/ Recall(d) \/ Unplug(d) \/ Plug(d) PROVE SensorInv'
<1> USE DEF SensorInv, SensorTypes, Other
<1>1. CASE Save(d)
  BY <1>1 DEF Save, Counted, WaitsLongEnough
<1>2. CASE Recall(d)
  BY <1>2 DEF Recall, Counted, WaitsLongEnough
<1>3. CASE Unplug(d)
  <2>1. Cardinality(plugged \ {d}) <= Cardinality(plugged) /\ Cardinality(plugged \ {d}) \in Nat
    BY PluggedFinite, FS_Subset, FS_CardinalityType
  <2>2. Cardinality(plugged) <= lib.devices => Cardinality(plugged \ {d}) <= lib.devices
    BY <2>1, PluggedFinite
  <2> QED
    BY <1>3, <2>2 DEF Unplug, Counted, WaitsLongEnough
<1>4. CASE Plug(d)
  BY <1>4 DEF Plug, Counted, WaitsLongEnough
<1> QED
  BY <1>1, <1>2, <1>3, <1>4

LEMMA SensorStep == SensorInv /\ [SensorNext]_sensorVars => SensorInv'
<1> SUFFICES ASSUME SensorInv, [SensorNext]_sensorVars PROVE SensorInv'
  OBVIOUS
<1>1. CASE Configure
  BY <1>1 DEF Configure, Other, SensorInv, SensorTypes, Counted, WaitsLongEnough
<1>2. CASE UNCHANGED sensorVars
  BY <1>2 DEF sensorVars, SensorInv, SensorTypes, Counted, WaitsLongEnough
<1> QED
  BY <1>1, <1>2, BeginSensorsKeeps, SetAllKeeps, SetOneKeeps, RequestKeeps, BusKeeps DEF SensorNext

\* Whatever resolutions are asked for and wherever sensors leave: a request that waits has waited
\* long enough for every sensor that follows its resolution (setResolution, requestTemperatures,
\* blockTillConversionComplete).
THEOREM WaitsLongEnoughHolds == SensorInit /\ [][SensorNext]_sensorVars => []WaitsLongEnough
<1>1. SensorInv => WaitsLongEnough
  BY DEF SensorInv
<1> QED
  BY SensorInitInv, SensorStep, <1>1, PTL

-----------------------------------------------------------------------------
(* The search of a bus.  The codes are the leaves of a tree whose branches are bits, and a *)
(* call goes down to the next leaf.                                                        *)

BitStrings == [1 .. Bits -> {0, 1}]

\* d goes with r down to bit k; at bit k, r has taken the 0 of two branches.
Agree(d, r, k) == \A i \in 1 .. k - 1 : d[i] = r[i]
Fork(B, r, k) == r[k] = 0 /\ \E d \in B : Agree(d, r, k) /\ d[k] = 1

\* The last fork of r before bit k is at z.
LastFork(B, r, k, z) == /\ z \in 0 .. k - 1 /\ (z # 0 => Fork(B, r, z))
                        /\ \A j \in 1 .. k - 1 : Fork(B, r, j) => j <= z

\* The devices that come after r, and those not before r as far as bit k.
Less(r, d) == \E j \in 1 .. Bits : r[j] = 0 /\ d[j] = 1 /\ Agree(d, r, j)
Below(d, r, k) == \E j \in 1 .. k - 1 : d[j] = 0 /\ r[j] = 1 /\ Agree(d, r, j)
Beyond(B, r) == {d \in B : Less(r, d)}
Ahead(B, r, k) == {d \in B : ~Below(d, r, k)}

\* The same of both kinds of search: the devices, the code, the fork to come back to (LastFork of
\* the last call, above the bits this call has gone through), the last fork so far.
Bus == IF pass[1] = "alarm" THEN alarmed ELSE onBus
Rom == IF pass[1] = "alarm" THEN alarm.rom ELSE search.rom
Turn == IF pass[1] = "alarm" THEN alarm.junction ELSE search.last
Exhausted == IF pass[1] = "alarm" THEN alarm.exhausted ELSE search.flag
Seen == IF pass[1] = "alarm" /\ walk.k > alarm.junction THEN alarm.junction ELSE walk.zero

Settled == Rom \in Bus /\ LastFork(Bus, Rom, Bits + 1, Turn)

\* A call that has begun with the bus as it is.
Clean == walk.k # 0 => /\ walk.inPlay = {d \in Bus : Agree(d, Rom, walk.k)}
                       /\ (Bus # {} \/ pass[1] = "search" \/ walk.k > 1) => walk.inPlay # {}
                       /\ LastFork(Bus, Rom, walk.k, Seen)
                       /\ pass[1] = "alarm" => (walk.done <=> Seen = 0)

\* A search that has found what is before it, and nothing else.
Regular == /\ Clean
           /\ walk.k = 0 => \/ Turn = 0 /\ ~Exhausted
                            \/ Settled /\ (Exhausted <=> Turn = 0)
           /\ walk.k # 0 /\ walk.k <= Turn => Settled

ToGo == IF walk.k = 0 THEN IF Turn = 0 /\ ~Exhausted THEN Bus ELSE Beyond(Bus, Rom)
        ELSE IF walk.k <= Turn THEN Beyond(Bus, Rom) ELSE Ahead(Bus, Rom, walk.k)

OneWireTypes ==
    /\ onBus \subseteq Codes /\ alarmed \subseteq onBus
    /\ search \in [rom : BitStrings, last : 0 .. Bits, flag : BOOLEAN]
    /\ alarm \in [rom : BitStrings, junction : 0 .. Bits, exhausted : BOOLEAN]
    /\ walk \in [k : 0 .. Bits + 1, inPlay : SUBSET onBus, zero : 0 .. Bits, done : BOOLEAN]
    /\ pass[1] \in {"none", "search", "alarm", "target"}
    /\ ended \in BOOLEAN /\ disturbed \in BOOLEAN /\ found \in Seq(BitStrings) /\ answers \in Nat /\ lost \in Nat
    /\ pass[1] = "none" => ended
    /\ ended => walk.k = 0

\* What was found, of a bus that was left alone.
Found == ~disturbed /\ pass[1] \in {"search", "alarm"} =>
            /\ IsInjective(found)
            /\ ended => ToSet(found) = Bus
            /\ ~ended => Regular /\ ToSet(found) = Bus \ ToGo

\* Each device that leaves may cost another round.
Limit == (lost + 1) * (Cardinality(Codes) + 1)
Answered == pass[1] = "search" =>
              /\ answers <= Limit
              /\ ~ended => \/ Regular /\ answers + Cardinality(ToGo) <= Limit
                           \/ Clean /\ answers + Cardinality(onBus) <= Limit
                           \/ answers + Cardinality(onBus) + 1 <= Limit

\* The first answer of a search for a family.
Targeted ==
    ~disturbed /\ pass[1] = "target" /\ (\E d \in onBus : Family(d) = pass[2]) =>
        /\ found # <<>> => Family(found[1]) = pass[2]
        /\ found = <<>> /\ ~ended =>
             /\ search.last = Bits /\ Family(search.rom) = pass[2]
             /\ walk.k = 0 => ~search.flag
             /\ walk.k \in 1 .. FamilyBits + 1 => {d \in onBus : Family(d) = pass[2]} \subseteq walk.inPlay

SearchInv == OneWireTypes /\ Found /\ Answered /\ Targeted

-----------------------------------------------------------------------------
(* Codes. *)

LEMMA BitsNat == Bits \in Nat /\ FamilyBits \in Nat /\ FamilyBits < Bits
  BY CodeAssumption

LEMMA FirstDifference ==
  ASSUME NEW d \in BitStrings, NEW r \in BitStrings, d # r
  PROVE  \E j \in 1 .. Bits : d[j] # r[j] /\ Agree(d, r, j)
<1> USE BitsNat
<1> DEFINE D == {j \in 1 .. Bits : d[j] # r[j]}
<1>1. D # {}
  BY DEF BitStrings
<1>2. PICK j \in D : \A i \in D : j <= i
  <2>1. D \in SUBSET Nat
    OBVIOUS
  <2> HIDE DEF D
  <2> QED
    BY <1>1, <2>1, LeastElement
<1>3. j \in 1 .. Bits /\ d[j] # r[j]
  OBVIOUS
<1>4. ASSUME NEW i \in 1 .. j - 1 PROVE d[i] = r[i]
  <2>1. i \in 1 .. Bits /\ ~(j <= i)
    BY <1>3
  <2> QED
    BY <1>2, <2>1
<1> QED
  BY <1>3, <1>4 DEF Agree

Take(r, k, b) == [r EXCEPT ![k] = b]

\* A bit is taken: what is said of the bits before it stays true.
LEMMA Taken ==
  ASSUME NEW r \in BitStrings, NEW k \in 1 .. Bits, NEW b \in {0, 1},
         NEW s, s = Take(r, k, b), NEW d
  PROVE  /\ s \in BitStrings /\ s[k] = b
         /\ \A j \in 1 .. k - 1 : s[j] = r[j]
         /\ \A j \in 1 .. k : Agree(d, s, j) <=> Agree(d, r, j)
         /\ Agree(d, s, k + 1) <=> Agree(d, r, k) /\ d[k] = b
<1> USE BitsNat
<1>1. s \in BitStrings /\ s[k] = b
  BY DEF BitStrings, Take
<1>2. \A j \in 1 .. k - 1 : s[j] = r[j]
  BY DEF BitStrings, Take
<1>3. ASSUME NEW j \in 1 .. k PROVE Agree(d, s, j) <=> Agree(d, r, j)
  <2>1. \A i \in 1 .. j - 1 : i \in 1 .. k - 1
    BY <1>3
  <2> QED
    BY <1>2, <2>1 DEF Agree
<1>4. Agree(d, s, k + 1) <=> Agree(d, s, k) /\ d[k] = s[k]
  <2>1. \A i \in 1 .. k + 1 - 1 : i \in 1 .. k - 1 \/ i = k
    OBVIOUS
  <2>2. k \in 1 .. k + 1 - 1 /\ \A i \in 1 .. k - 1 : i \in 1 .. k + 1 - 1
    OBVIOUS
  <2> QED
    BY <2>1, <2>2 DEF Agree
<1>5. k \in 1 .. k
  OBVIOUS
<1> QED
  BY <1>1, <1>2, <1>3, <1>4, <1>5

LEMMA TakenForks ==
  ASSUME NEW B, NEW r \in BitStrings, NEW k \in 1 .. Bits, NEW b \in {0, 1}
  PROVE  /\ \A j \in 1 .. k - 1 : Fork(B, Take(r, k, b), j) <=> Fork(B, r, j)
         /\ Fork(B, Take(r, k, b), k) <=> b = 0 /\ \E d \in B : Agree(d, r, k) /\ d[k] = 1
<1> USE BitsNat
<1> DEFINE s == Take(r, k, b)
<1>1. \A d \in B, j \in 1 .. k : Agree(d, s, j) <=> Agree(d, r, j)
  BY Taken
<1>2. s[k] = b /\ \A j \in 1 .. k - 1 : s[j] = r[j]
  BY DEF BitStrings, Take
<1>3. k \in 1 .. k /\ \A j \in 1 .. k - 1 : j \in 1 .. k
  OBVIOUS
<1> HIDE DEF s
<1>4. \A j \in 1 .. k - 1 : Fork(B, s, j) <=> Fork(B, r, j)
  BY <1>1, <1>2, <1>3 DEF Fork
<1>5. Fork(B, s, k) <=> b = 0 /\ \E d \in B : Agree(d, r, k) /\ d[k] = 1
  BY <1>1, <1>2, <1>3 DEF Fork
<1> QED
  BY <1>4, <1>5 DEF s

LEMMA TakenBelow ==
  ASSUME NEW r \in BitStrings, NEW k \in 1 .. Bits, NEW b \in {0, 1}, NEW d
  PROVE  Below(d, Take(r, k, b), k + 1) <=> Below(d, r, k) \/ (Agree(d, r, k) /\ d[k] = 0 /\ b = 1)
<1> USE BitsNat
<1> DEFINE s == Take(r, k, b)
<1>1. \A j \in 1 .. k : Agree(d, s, j) <=> Agree(d, r, j)
  BY Taken
<1>2. s[k] = b /\ \A j \in 1 .. k - 1 : s[j] = r[j]
  BY DEF BitStrings, Take
<1>3. k \in 1 .. k /\ \A j \in 1 .. k - 1 : j \in 1 .. k
  OBVIOUS
<1> HIDE DEF s
<1>4. \A j \in 1 .. k + 1 - 1 : j \in 1 .. k - 1 \/ j = k
  OBVIOUS
<1>5. k \in 1 .. k + 1 - 1 /\ \A j \in 1 .. k - 1 : j \in 1 .. k + 1 - 1
  OBVIOUS
<1>6. Below(d, s, k + 1) <=> Below(d, s, k) \/ (Agree(d, s, k) /\ d[k] = 0 /\ s[k] = 1)
  BY <1>4, <1>5 DEF Below
<1>7. Below(d, s, k) <=> Below(d, r, k)
  BY <1>1, <1>2, <1>3 DEF Below
<1> QED
  BY <1>1, <1>2, <1>3, <1>6, <1>7 DEF s

\* A round of a call keeps the last fork so far.
LEMMA RoundForks ==
  ASSUME NEW B \in SUBSET BitStrings, NEW r \in BitStrings, NEW k \in 1 .. Bits, NEW b \in {0, 1},
         NEW z, LastFork(B, r, k, z)
  PROVE  LastFork(B, Take(r, k, b), k + 1, IF Fork(B, Take(r, k, b), k) THEN k ELSE z)
<1> USE BitsNat
<1> DEFINE s == Take(r, k, b)
<1>2. \A j \in 1 .. k - 1 : Fork(B, s, j) <=> Fork(B, r, j)
  BY TakenForks
<1> HIDE DEF s
<1>3. k + 1 - 1 = k /\ \A j \in 1 .. k : j \in 1 .. k - 1 \/ j = k
  OBVIOUS
<1>4. CASE Fork(B, s, k)
  <2>1. k \in 0 .. k + 1 - 1 /\ \A j \in 1 .. k + 1 - 1 : j <= k
    OBVIOUS
  <2>2. LastFork(B, s, k + 1, k)
    BY <1>4, <2>1 DEF LastFork
  <2> QED
    BY <1>4, <2>2 DEF s
<1>5. CASE ~Fork(B, s, k)
  <2>1. z \in 0 .. k /\ (z # 0 => Fork(B, s, z))
    <3>1. z \in 0 .. k - 1 /\ (z # 0 => Fork(B, r, z))
      BY DEF LastFork
    <3>2. z # 0 => z \in 1 .. k - 1
      BY <3>1
    <3> QED
      BY <1>2, <3>1, <3>2
  <2>2. \A j \in 1 .. k : Fork(B, s, j) => j <= z
    BY <1>2, <1>3, <1>5 DEF LastFork
  <2>3. LastFork(B, s, k + 1, z)
    BY <1>3, <2>1, <2>2 DEF LastFork
  <2> QED
    BY <1>5, <2>3 DEF s
<1> QED
  BY <1>4, <1>5

\* At the fork a call comes back to, it turns to the other branch: what it goes to then is what
\* comes after the last code.
LEMMA Turned ==
  ASSUME NEW B \in SUBSET BitStrings, NEW r \in B, NEW k \in 1 .. Bits, LastFork(B, r, Bits + 1, k),
         NEW s, s = Take(r, k, 1)
  PROVE  Ahead(B, s, k + 1) = Beyond(B, r)
<1> USE BitsNat
<1>1. r[k] = 0 /\ \A j \in 1 .. Bits : Fork(B, r, j) => j <= k
  BY DEF LastFork, Fork
<1>2. ASSUME NEW d \in B PROVE Less(r, d) <=> ~Below(d, r, k) /\ ~(Agree(d, r, k) /\ d[k] = 0)
  <2>1. ASSUME Less(r, d) PROVE ~Below(d, r, k) /\ ~(Agree(d, r, k) /\ d[k] = 0)
    <3>1. PICK j \in 1 .. Bits : r[j] = 0 /\ d[j] = 1 /\ Agree(d, r, j)
      BY <2>1 DEF Less
    <3>2. j <= k
      BY <1>1, <3>1 DEF Fork
    <3>3. ASSUME NEW i \in 1 .. k, d[i] = 0, Agree(d, r, i) PROVE r[i] = 0
      <4>1. CASE i < j
        BY <3>1, <3>3, <4>1 DEF Agree
      <4>2. CASE i > j
        BY <3>1, <3>3, <4>2 DEF Agree
      <4> QED
        BY <3>1, <3>3, <4>1, <4>2
    <3>4. ~Below(d, r, k)
      BY <3>3 DEF Below
    <3>5. ASSUME Agree(d, r, k), d[k] = 0 PROVE FALSE
      <4>1. CASE j < k
        BY <3>1, <3>5, <4>1 DEF Agree
      <4>2. CASE j = k
        BY <3>1, <3>5, <4>2
      <4> QED
        BY <3>2, <4>1, <4>2
    <3> QED
      BY <3>4, <3>5
  <2>2. ASSUME ~Below(d, r, k), ~(Agree(d, r, k) /\ d[k] = 0) PROVE Less(r, d)
    <3>1. d # r
      BY <1>1, <2>2 DEF Agree
    <3>2. PICK j \in 1 .. Bits : d[j] # r[j] /\ Agree(d, r, j)
      BY <3>1, FirstDifference
    <3>3. d[j] \in {0, 1} /\ r[j] \in {0, 1}
      BY DEF BitStrings
    <3>4. CASE d[j] = 1
      BY <3>2, <3>3, <3>4 DEF Less
    <3>5. CASE d[j] = 0
      <4>1. r[j] = 1
        BY <3>2, <3>3, <3>5
      <4>2. ~(j < k)
        BY <2>2, <3>2, <3>5, <4>1 DEF Below
      <4>3. j > k
        BY <1>1, <4>1, <4>2
      <4>4. Agree(d, r, k) /\ d[k] = r[k]
        BY <3>2, <4>3 DEF Agree
      <4> QED
        BY <1>1, <2>2, <4>4
    <3> QED
      BY <3>3, <3>4, <3>5
  <2> QED
    BY <2>1, <2>2
<1>3. \A d \in B : Below(d, s, k + 1) <=> Below(d, r, k) \/ (Agree(d, r, k) /\ d[k] = 0 /\ 1 = 1)
  BY TakenBelow
<1> QED
  BY <1>2, <1>3 DEF Ahead, Beyond

\* A call that has come to the last bit has the first device that is ahead.
LEMMA Arrived ==
  ASSUME NEW B \in SUBSET BitStrings, NEW r \in B
  PROVE  /\ Beyond(B, r) = Ahead(B, r, Bits + 1) \ {r}
         /\ r \in Ahead(B, r, Bits + 1)
<1> USE BitsNat
<1>1. Bits + 1 - 1 = Bits
  OBVIOUS
<1>2. ~Below(r, r, Bits + 1)
  BY DEF Below
<1>3. ~Less(r, r)
  BY DEF Less
<1>4. ASSUME NEW d \in B, d # r PROVE Less(r, d) <=> ~Below(d, r, Bits + 1)
  <2>1. PICK j \in 1 .. Bits : d[j] # r[j] /\ Agree(d, r, j)
    BY <1>4, FirstDifference
  <2>2. d[j] \in {0, 1} /\ r[j] \in {0, 1}
    BY DEF BitStrings
  <2>3. ASSUME NEW i \in 1 .. Bits, d[i] # r[i], Agree(d, r, i) PROVE i = j
    <3>1. ~(i < j)
      BY <2>1, <2>3 DEF Agree
    <3>2. ~(j < i)
      BY <2>1, <2>3 DEF Agree
    <3> QED
      BY <3>1, <3>2
  <2> QED
    BY <1>1, <2>1, <2>2, <2>3 DEF Less, Below
<1> QED
  BY <1>2, <1>3, <1>4 DEF Beyond, Ahead

\* After a code without a fork comes no other.
LEMMA NoneBeyond ==
  ASSUME NEW B \in SUBSET BitStrings, NEW r \in B, LastFork(B, r, Bits + 1, 0)
  PROVE  Beyond(B, r) = {}
<1> USE BitsNat
<1>1. \A j \in 1 .. Bits : ~Fork(B, r, j)
  BY DEF LastFork
<1> QED
  BY <1>1 DEF Beyond, Less, Fork

-----------------------------------------------------------------------------
(* The steps of a call. *)

LEMMA BusTypes ==
  ASSUME OneWireTypes
  PROVE  /\ Bus \in SUBSET BitStrings /\ Bus \subseteq onBus /\ Bus \subseteq Codes
         /\ Rom \in BitStrings /\ Turn \in 0 .. Bits /\ walk.k \in 0 .. Bits + 1
  BY CodeAssumption DEF OneWireTypes, Bus, Rom, Turn, BitStrings

\* A call begins.
Calls == /\ walk.k = 0 /\ ~Exhausted /\ (pass[1] = "search" => Bus # {})
         /\ walk' = [k |-> 1, inPlay |-> Bus, zero |-> 0, done |-> TRUE]
         /\ UNCHANGED <<Bus, Rom, Turn, Exhausted, pass>>

LEMMA CallsRegular ==
  ASSUME OneWireTypes, Calls
  PROVE  Clean' /\ (Regular => Regular' /\ ToGo' = ToGo)
<1> USE BitsNat
<1> DEFINE B == Bus  r == Rom
<1>1. B \in SUBSET BitStrings /\ r \in BitStrings /\ Turn \in 0 .. Bits
  BY BusTypes
<1>2. \A d \in B : Agree(d, r, 1)
  BY DEF Agree
<1>3. LastFork(B, r, 1, 0)
  BY DEF LastFork
<1>4. Ahead(B, r, 1) = B
  BY DEF Ahead, Below
<1>5. /\ Bus' = B /\ Rom' = r /\ Turn' = Turn /\ (Exhausted' <=> Exhausted) /\ pass' = pass
      /\ walk'.k = 1 /\ walk'.inPlay = B /\ walk'.zero = 0 /\ walk'.done = TRUE
  BY DEF Calls
<1>6. Seen' = 0
  <2>1. pass'[1] = "alarm" /\ walk'.k > alarm'.junction => alarm'.junction = 0
    BY <1>1, <1>5 DEF Turn
  <2> QED
    BY <1>5, <2>1 DEF Seen
<1>7. walk.k = 0 /\ ~Exhausted /\ (pass[1] = "search" => B # {})
  BY DEF Calls
<1> HIDE DEF B, r
<1>8. Clean'
  <2>1. B = {d \in B : Agree(d, r, 1)}
    BY <1>2
  <2> QED
    BY <1>3, <1>5, <1>6, <1>7, <2>1 DEF Clean
<1>9. ASSUME Regular PROVE Regular' /\ ToGo' = ToGo
  <2>1. Turn # 0 => Settled
    BY <1>7, <1>9 DEF Regular
  <2>2. 1 <= Turn <=> Turn # 0
    BY <1>1
  <2>3. Settled => Settled'
    BY <1>5 DEF Settled, B, r
  <2>4. Regular'
    BY <1>5, <1>8, <2>1, <2>2, <2>3 DEF Regular
  <2>5. ToGo = IF Turn = 0 THEN B ELSE Beyond(B, r)
    BY <1>7 DEF ToGo, B, r
  <2>6. ToGo' = IF Turn = 0 THEN B ELSE Beyond(B, r)
    BY <1>4, <1>5, <2>2 DEF ToGo
  <2> QED
    BY <2>4, <2>5, <2>6
<1> QED
  BY <1>8, <1>9

\* A round: the bit that is taken is one that was read.
Down(b) ==
    LET both == Zero /\ One
        k == walk.k
    IN /\ k \in 1 .. Bits /\ b \in {0, 1} /\ \E d \in walk.inPlay : d[k] = b
       /\ both => /\ k < Turn => b = Rom[k]
                  /\ k = Turn => b = 1
                  /\ k > Turn => b = 0
       /\ Rom' = Take(Rom, k, b) /\ Bus' = Bus /\ pass' = pass
       /\ walk'.k = k + 1 /\ walk'.inPlay = Keeps(b)
       /\ IF k < Turn THEN Turn' = Turn ELSE Turn' \in 0 .. k
       /\ both \/ k # Turn \/ pass[1] # "alarm" => Seen' = IF both /\ b = 0 THEN k ELSE Seen
       /\ pass[1] = "alarm" => (walk'.done <=> walk.done /\ ~(both /\ b = 0))

LEMMA DownClean ==
  ASSUME OneWireTypes, Clean, NEW b, Down(b), (Zero /\ One) \/ walk.k # Turn \/ pass[1] # "alarm"
  PROVE  Clean'
<1> USE BitsNat
<1> DEFINE B == Bus  r == Rom  k == walk.k  play == walk.inPlay  s == Take(r, k, b)  z == Seen
           y == IF Fork(B, s, k) THEN k ELSE z
<1>1. B \in SUBSET BitStrings /\ r \in BitStrings
  BY BusTypes
<1>2. /\ k \in 1 .. Bits /\ b \in {0, 1} /\ \E d \in play : d[k] = b
      /\ Rom' = s /\ Bus' = B /\ pass' = pass /\ walk'.k = k + 1 /\ walk'.inPlay = {d \in play : d[k] = b}
      /\ pass[1] = "alarm" => (walk'.done <=> walk.done /\ ~((Zero /\ One) /\ b = 0))
  BY DEF Down, Keeps
<1>3. play = {d \in B : Agree(d, r, k)} /\ LastFork(B, r, k, z) /\ (pass[1] = "alarm" => (walk.done <=> z = 0))
  BY <1>2 DEF Clean
<1>4. (Zero /\ One) /\ b = 0 <=> Fork(B, s, k)
  <2>1. Fork(B, s, k) <=> b = 0 /\ \E d \in B : Agree(d, r, k) /\ d[k] = 1
    <3>1. r \in BitStrings /\ k \in 1 .. Bits /\ b \in {0, 1}
      BY <1>1, <1>2
    <3> HIDE DEF B, r, k, play, z, y
    <3> QED
      BY <3>1, TakenForks
  <2>2. (\E d \in B : Agree(d, r, k) /\ d[k] = 1) <=> One
    BY <1>3 DEF One
  <2>3. b = 0 => Zero
    BY <1>2 DEF Zero
  <2> QED
    BY <2>1, <2>2, <2>3
<1>5. Seen' = y
  BY <1>4 DEF Down
<1> HIDE DEF B, r, k, play, s, z, y
<1>6. {d \in play : d[k] = b} = {d \in B : Agree(d, s, k + 1)}
  <2>1. \A d \in B : Agree(d, s, k + 1) <=> Agree(d, r, k) /\ d[k] = b
    BY <1>1, <1>2, Taken DEF s
  <2> QED
    BY <1>3, <2>1
<1>7. LastFork(B, s, k + 1, y)
  BY <1>1, <1>2, <1>3, RoundForks DEF s, y
<1>8. pass[1] = "alarm" => (walk'.done <=> y = 0)
  <2>1. Fork(B, s, k) => y = k /\ k # 0
    BY <1>2 DEF y
  <2>2. ~Fork(B, s, k) => y = z
    BY DEF y
  <2> QED
    BY <1>2, <1>3, <1>4, <2>1, <2>2
<1>9. {d \in play : d[k] = b} # {}
  BY <1>2
<1> QED
  BY <1>2, <1>5, <1>6, <1>7, <1>8, <1>9 DEF Clean

LEMMA DownRegular ==
  ASSUME OneWireTypes, Regular, NEW b, Down(b)
  PROVE  Regular' /\ ToGo' = ToGo
<1> USE BitsNat
<1> DEFINE B == Bus  r == Rom  k == walk.k  play == walk.inPlay  s == Take(r, k, b)  both == Zero /\ One
<1>1. B \in SUBSET BitStrings /\ r \in BitStrings /\ Turn \in 0 .. Bits
  BY BusTypes
<1>2. /\ k \in 1 .. Bits /\ b \in {0, 1} /\ \E d \in play : d[k] = b
      /\ Rom' = s /\ Bus' = B /\ pass' = pass /\ walk'.k = k + 1
      /\ IF k < Turn THEN Turn' = Turn ELSE Turn' \in 0 .. k
      /\ both => (k < Turn => b = r[k]) /\ (k = Turn => b = 1) /\ (k > Turn => b = 0)
  BY DEF Down
<1>3. Clean /\ play = {d \in B : Agree(d, r, k)} /\ (k <= Turn => Settled)
  BY <1>2 DEF Regular, Clean
<1>4. both <=> (\E d \in play : d[k] = 0) /\ (\E d \in play : d[k] = 1)
  BY DEF Zero, One
<1>5. k <= Turn => r \in play /\ r \in B
  <2>1. Agree(r, r, k)
    BY DEF Agree
  <2> QED
    BY <1>3, <2>1 DEF Settled
<1>6. r[k] \in {0, 1}
  BY <1>1, <1>2 DEF BitStrings
<1>7. k = Turn => both
  <2> SUFFICES ASSUME k = Turn PROVE both
    OBVIOUS
  <2>1. Fork(B, r, k)
    BY <1>2, <1>3 DEF Settled, LastFork
  <2>2. r[k] = 0 /\ \E d \in play : d[k] = 1
    BY <1>3, <2>1 DEF Fork
  <2>3. r \in play
    BY <1>1, <1>5
  <2>4. \E d \in play : d[k] = 0
    BY <2>2, <2>3
  <2> QED
    BY <1>4, <2>2, <2>4
<1>8. Clean'
  BY <1>3, <1>7, DownClean
<1> HIDE DEF B, r, k, play, s, both
<1>9. CASE k < Turn
  <2>1. b = r[k]
    <3>1. CASE both
      BY <1>2, <1>9, <3>1
    <3>2. CASE ~both
      <4>1. r \in play
        BY <1>1, <1>2, <1>5, <1>9
      <4>2. \E d \in play : d[k] = r[k]
        BY <4>1
      <4>3. (b = 0 /\ r[k] = 1) \/ (b = 1 /\ r[k] = 0) \/ b = r[k]
        BY <1>2, <1>6
      <4>4. ~(b = 0 /\ r[k] = 1)
        BY <1>2, <1>4, <3>2, <4>2
      <4>5. ~(b = 1 /\ r[k] = 0)
        BY <1>2, <1>4, <3>2, <4>2
      <4> QED
        BY <4>3, <4>4, <4>5
    <3> QED
      BY <3>1, <3>2
  <2>2. s = r
    BY <1>1, <2>1 DEF s, Take, BitStrings
  <2>3. Settled' /\ Turn' = Turn
    <3>1. Turn' = Turn /\ Rom' = r /\ Bus' = B
      BY <1>2, <1>9, <2>2
    <3>2. Settled
      BY <1>1, <1>2, <1>3, <1>9
    <3> QED
      BY <3>1, <3>2 DEF Settled, B, r
  <2>4. Regular'
    BY <1>2, <1>8, <2>3 DEF Regular
  <2>5. k + 1 <= Turn /\ k # 0 /\ k + 1 # 0 /\ k <= Turn
    BY <1>1, <1>2, <1>9
  <2> QED
    BY <1>2, <2>2, <2>3, <2>4, <2>5 DEF ToGo, B, r, k
<1>10. CASE ~(k < Turn)
  <2>1. k + 1 # 0 /\ ~(k + 1 <= Turn') /\ k # 0
    BY <1>1, <1>2, <1>10
  <2>2. Regular'
    BY <1>2, <1>8, <2>1 DEF Regular
  <2>3. ToGo' = Ahead(B, s, k + 1)
    BY <1>2, <2>1 DEF ToGo
  <2>4. CASE k = Turn
    <3>1. ToGo = Beyond(B, r)
      BY <1>1, <2>1, <2>4 DEF ToGo, B, r, k
    <3>2. b = 1
      BY <1>2, <1>7, <2>4
    <3>3. LastFork(B, r, Bits + 1, k)
      BY <1>3, <1>1, <2>4 DEF Settled, B, r
    <3>4. Ahead(B, s, k + 1) = Beyond(B, r)
      BY <1>1, <1>2, <1>5, <2>4, <3>2, <3>3, Turned DEF s
    <3> QED
      BY <2>2, <2>3, <3>1, <3>4
  <2>5. CASE k > Turn
    <3>1. ToGo = Ahead(B, r, k)
      BY <1>1, <1>2, <2>1, <2>5 DEF ToGo, B, r, k
    <3>2. \A d \in B : Below(d, s, k + 1) <=> Below(d, r, k) \/ (Agree(d, r, k) /\ d[k] = 0 /\ b = 1)
      BY <1>1, <1>2, TakenBelow DEF s
    <3>3. ASSUME NEW d \in B, Agree(d, r, k), d[k] = 0, b = 1 PROVE FALSE
      <4>1. d \in play
        BY <1>1, <1>3, <3>3
      <4>2. both
        BY <1>2, <1>4, <3>3, <4>1
      <4> QED
        BY <1>2, <2>5, <3>3, <4>2
    <3>4. \A d \in B : Below(d, s, k + 1) <=> Below(d, r, k)
      BY <3>2, <3>3
    <3> QED
      BY <2>2, <2>3, <3>1, <3>4 DEF Ahead
  <2> QED
    BY <1>1, <1>2, <1>10, <2>4, <2>5
<1> QED
  BY <1>9, <1>10

\* A call comes to its end.
Ends == /\ walk.k = Bits + 1 /\ walk'.k = 0
        /\ Rom' = Rom /\ Bus' = Bus /\ pass' = pass /\ Turn' = Seen /\ (Exhausted' <=> Seen = 0)

LEMMA CodeReached ==
  ASSUME OneWireTypes, Clean, walk.k = Bits + 1
  PROVE  Rom \in Bus /\ LastFork(Bus, Rom, Bits + 1, Seen)
<1> USE BitsNat
<1> DEFINE B == Bus  r == Rom
<1>1. B \in SUBSET BitStrings /\ r \in BitStrings
  BY BusTypes
<1>2. Bits + 1 > 1 /\ Bits + 1 # 0
  OBVIOUS
<1>3. PICK d \in B : Agree(d, r, Bits + 1)
  BY <1>2 DEF Clean
<1>4. LastFork(B, r, Bits + 1, Seen)
  BY <1>2 DEF Clean
<1>5. ~(\E j \in 1 .. Bits : d[j] # r[j])
  BY <1>3 DEF Agree
<1>6. d = r
  BY <1>1, <1>5, FirstDifference
<1> QED
  BY <1>4, <1>6

LEMMA EndsRegular ==
  ASSUME OneWireTypes, Clean, Ends
  PROVE  /\ Rom \in Bus /\ Regular' /\ ToGo' \subseteq Bus \ {Rom}
         /\ Regular => Rom \in ToGo /\ ToGo' = ToGo \ {Rom}
<1> USE BitsNat
<1> DEFINE B == Bus  r == Rom
<1>1. B \in SUBSET BitStrings /\ r \in BitStrings /\ Turn \in 0 .. Bits
  BY BusTypes
<1>2. walk.k = Bits + 1 /\ Bits + 1 # 0
  BY DEF Ends
<1>3. r \in B /\ LastFork(B, r, Bits + 1, Seen)
  BY <1>2, CodeReached
<1>6. walk'.k = 0 /\ Rom' = r /\ Bus' = B /\ Turn' = Seen /\ (Exhausted' <=> Turn' = 0)
  BY DEF Ends
<1> HIDE DEF B, r
<1>7. Settled'
  BY <1>3, <1>6 DEF Settled
<1>8. Regular'
  BY <1>6, <1>7 DEF Regular, Clean
<1>9. ToGo' = Beyond(B, r)
  BY <1>6 DEF ToGo
<1>10. Beyond(B, r) = Ahead(B, r, Bits + 1) \ {r} /\ r \in Ahead(B, r, Bits + 1)
  BY <1>1, <1>3, Arrived
<1>11. Ahead(B, r, Bits + 1) \subseteq B
  BY DEF Ahead
<1>12. ToGo = Ahead(B, r, Bits + 1)
  BY <1>1, <1>2 DEF ToGo, B, r
<1> QED
  BY <1>3, <1>8, <1>9, <1>10, <1>11, <1>12 DEF B, r

\* A search that is exhausted has nothing to go to.
LEMMA ExhaustedAll ==
  ASSUME OneWireTypes, Regular, walk.k = 0, Exhausted
  PROVE  ToGo = {}
<1>1. Bus \in SUBSET BitStrings
  BY BusTypes
<1>2. Settled /\ Turn = 0
  BY DEF Regular
<1>3. Rom \in Bus /\ LastFork(Bus, Rom, Bits + 1, 0)
  BY <1>2 DEF Settled
<1>4. Beyond(Bus, Rom) = {}
  BY <1>1, <1>3, NoneBeyond
<1> QED
  BY <1>4 DEF ToGo

\* The actions are these steps.
LEMMA SearchCallSteps ==
  ASSUME OneWireTypes, pass[1] = "search", SearchCall
  PROVE  Calls \/ ((Exhausted \/ Bus = {}) /\ walk.k = 0 /\ SearchFails)
  BY DEF SearchCall, Calls, Exhausted, Bus, Rom, Turn, GoOn, NoCall

LEMMA AlarmCallSteps ==
  ASSUME OneWireTypes, AlarmCall
  PROVE  Calls \/ ((Exhausted \/ Bus = {}) /\ walk.k = 0 /\ Return(FALSE, <<>>))
  BY DEF AlarmCall, Calls, Exhausted, Bus, Rom, Turn, GoOn, NoCall, OneWireTypes

LEMMA InPlayBits ==
  ASSUME OneWireTypes, walk.k \in 1 .. Bits, NEW d \in walk.inPlay
  PROVE  d \in BitStrings /\ d[walk.k] \in {0, 1}
  BY CodeAssumption DEF OneWireTypes, BitStrings

LEMMA SearchBitSteps ==
  ASSUME OneWireTypes, SearchBit
  PROVE  Down(Direction)
<1> USE BitsNat
<1> DEFINE k == walk.k  both == Zero /\ One  b == Direction
<1>1. /\ k \in 1 .. Bits /\ pass[1] # "alarm" /\ (Zero \/ One)
      /\ search' = [search EXCEPT !.rom[k] = b]
      /\ walk' = [walk EXCEPT !.k = @ + 1, !.inPlay = Keeps(b), !.zero = IF both /\ b = 0 THEN k ELSE @]
      /\ UNCHANGED <<alarm, onBus, alarmed, pass>>
  <2>1. walk.k \in 0 .. Bits + 1
    BY DEF OneWireTypes
  <2> QED
    BY <2>1 DEF SearchBit, Searching, GoOn
<1>2. /\ search \in [rom : BitStrings, last : 0 .. Bits, flag : BOOLEAN]
      /\ walk \in [k : 0 .. Bits + 1, inPlay : SUBSET onBus, zero : 0 .. Bits, done : BOOLEAN]
  BY DEF OneWireTypes
<1>3. search.rom[k] \in {0, 1}
  BY <1>1, <1>2 DEF BitStrings
<1>4. /\ b \in {0, 1}
      /\ ~both => b = IF One THEN 1 ELSE 0
      /\ both => /\ k < search.last => b = search.rom[k]
                 /\ k = search.last => b = 1
                 /\ k > search.last => b = 0
  BY <1>1, <1>2, <1>3 DEF Direction
<1>5. \E d \in walk.inPlay : d[k] = b
  BY <1>1, <1>4 DEF Zero, One
<1>6. /\ search'.rom = Take(search.rom, k, b) /\ search'.last = search.last
      /\ walk'.k = k + 1 /\ walk'.inPlay = Keeps(b)
      /\ walk'.zero = IF both /\ b = 0 THEN k ELSE walk.zero
  BY <1>1, <1>2 DEF Take
<1>7. Rom = search.rom /\ Rom' = search'.rom /\ Turn = search.last /\ Turn' = search'.last /\ Bus' = Bus
  BY <1>1 DEF Rom, Turn, Bus
<1>8. Seen = walk.zero /\ Seen' = walk'.zero
  BY <1>1 DEF Seen
<1>9. Turn \in 0 .. Bits /\ (k < Turn \/ Turn \in 0 .. k)
  BY <1>1, <1>2, <1>7
<1> HIDE DEF k, both, b
<1>10. IF k < Turn THEN Turn' = Turn ELSE Turn' \in 0 .. k
  BY <1>6, <1>7, <1>9
<1> QED
  BY <1>1, <1>4, <1>5, <1>6, <1>7, <1>8, <1>10 DEF Down, k, both, b

LEMMA AlarmBitSteps ==
  ASSUME OneWireTypes, Clean, AlarmBit
  PROVE  \E b : Down(b)
<1> USE BitsNat
<1> DEFINE k == walk.k  both == Zero /\ One  kept == both /\ k < alarm.junction
           b == IF ~both THEN IF One THEN 1 ELSE 0
                ELSE IF k = alarm.junction THEN 1 ELSE IF kept THEN alarm.rom[k] ELSE 0
<1>1. /\ k \in 1 .. Bits /\ pass[1] = "alarm" /\ (Zero \/ One)
      /\ alarm' = [alarm EXCEPT !.rom[k] = b,
                                !.junction = IF ~both \/ kept THEN @ ELSE IF k = @ THEN walk.zero ELSE k]
      /\ walk' = [walk EXCEPT !.k = @ + 1, !.inPlay = Keeps(b), !.zero = IF kept /\ b = 0 THEN k ELSE @,
                              !.done = @ /\ ~(both /\ b = 0)]
      /\ UNCHANGED <<search, onBus, alarmed, pass>>
  <2>1. walk.k \in 0 .. Bits + 1
    BY DEF OneWireTypes
  <2> QED
    BY <2>1 DEF AlarmBit, Alarming, GoOn
<1>2. /\ alarm \in [rom : BitStrings, junction : 0 .. Bits, exhausted : BOOLEAN]
      /\ walk \in [k : 0 .. Bits + 1, inPlay : SUBSET onBus, zero : 0 .. Bits, done : BOOLEAN]
  BY DEF OneWireTypes
<1>3. alarm.rom[k] \in {0, 1}
  BY <1>1, <1>2 DEF BitStrings
<1>4. /\ b \in {0, 1}
      /\ ~both => b = IF One THEN 1 ELSE 0
      /\ both => /\ k < alarm.junction => b = alarm.rom[k]
                 /\ k = alarm.junction => b = 1
                 /\ k > alarm.junction => b = 0
  BY <1>1, <1>2, <1>3
<1>5. \E d \in walk.inPlay : d[k] = b
  BY <1>1, <1>4 DEF Zero, One
<1>6. /\ alarm'.rom = Take(alarm.rom, k, b)
      /\ alarm'.junction = IF ~both \/ kept THEN alarm.junction
                           ELSE IF k = alarm.junction THEN walk.zero ELSE k
      /\ walk'.k = k + 1 /\ walk'.inPlay = Keeps(b)
      /\ walk'.zero = IF kept /\ b = 0 THEN k ELSE walk.zero
      /\ walk'.done <=> walk.done /\ ~(both /\ b = 0)
  <2> HIDE DEF both, b, kept
  <2> QED
    BY <1>1, <1>2 DEF Take
<1>7. Rom = alarm.rom /\ Rom' = alarm'.rom /\ Turn = alarm.junction /\ Turn' = alarm'.junction /\ Bus' = Bus
  BY <1>1 DEF Rom, Turn, Bus
<1>8. /\ Seen = IF k > Turn THEN Turn ELSE walk.zero
      /\ Seen' = IF k + 1 > Turn' THEN Turn' ELSE walk'.zero
  BY <1>1, <1>6, <1>7 DEF Seen
<1>9. Turn \in 0 .. Bits /\ (kept <=> both /\ k < Turn)
  BY <1>1, <1>2, <1>7
<1>10. Seen \in 0 .. k - 1
  BY <1>1 DEF Clean, LastFork
<1> HIDE DEF both, b, k, kept
<1>11. IF k < Turn THEN Turn' = Turn ELSE Turn' \in 0 .. k
  BY <1>1, <1>6, <1>7, <1>8, <1>9, <1>10
<1>12. both \/ k # Turn => Seen' = IF both /\ b = 0 THEN k ELSE Seen
  <2>1. CASE k < Turn
    BY <1>1, <1>6, <1>7, <1>8, <1>9, <2>1
  <2>2. CASE k = Turn
    BY <1>1, <1>4, <1>6, <1>7, <1>8, <1>9, <1>10, <2>2
  <2>3. CASE k > Turn
    BY <1>1, <1>4, <1>6, <1>7, <1>8, <1>9, <2>3
  <2> QED
    BY <1>1, <1>9, <2>1, <2>2, <2>3
<1>13. Down(b)
  BY <1>1, <1>4, <1>5, <1>6, <1>7, <1>11, <1>12 DEF Down, k, both
<1> QED
  BY <1>13

LEMMA AlarmReturnSteps ==
  ASSUME OneWireTypes, Clean, AlarmReturn
  PROVE  Ends /\ Return(TRUE, Rom)
<1> USE BitsNat
<1>1. /\ walk.k = Bits + 1 /\ pass[1] = "alarm" /\ walk'.k = 0
      /\ alarm'.rom = alarm.rom /\ alarm'.junction = alarm.junction /\ alarm'.exhausted = walk.done
      /\ UNCHANGED <<pass, alarmed>> /\ Return(TRUE, alarm.rom)
  <2>1. /\ walk.k > Bits /\ pass[1] = "alarm" /\ alarm' = [alarm EXCEPT !.exhausted = walk.done]
        /\ Return(TRUE, alarm.rom)
    BY DEF AlarmReturn, Alarming
  <2>2. walk' = NoCall /\ UNCHANGED <<pass, alarmed>>
    BY <2>1 DEF Return
  <2>3. walk'.k = 0
    BY <2>2 DEF NoCall
  <2>4. /\ walk.k \in 0 .. Bits + 1
        /\ alarm \in [rom : BitStrings, junction : 0 .. Bits, exhausted : BOOLEAN]
    BY DEF OneWireTypes
  <2>5. walk.k = Bits + 1
    BY <2>1, <2>4
  <2>6. alarm'.rom = alarm.rom /\ alarm'.junction = alarm.junction /\ alarm'.exhausted = walk.done
    BY <2>1, <2>4
  <2> QED
    BY <2>1, <2>2, <2>3, <2>5, <2>6
<1>2. Bits + 1 > alarm.junction
  BY DEF OneWireTypes
<1>3. Seen = alarm.junction
  BY <1>1, <1>2 DEF Seen
<1>4. walk.done <=> Seen = 0
  BY <1>1 DEF Clean
<1> QED
  BY <1>1, <1>3, <1>4 DEF Ends, Rom, Bus, Turn, Exhausted

LEMMA SearchReturnSteps ==
  ASSUME OneWireTypes, pass[1] = "search", SearchReturn
  PROVE  \/ Family(search.rom) = Zeros(FamilyBits) /\ SearchFails
         \/ Ends /\ Return(TRUE, Rom)
<1> USE BitsNat
<1>1. walk.k = Bits + 1 /\ UNCHANGED alarm
  BY DEF SearchReturn, Searching, OneWireTypes
<1>2. CASE Family(search.rom) = Zeros(FamilyBits)
  BY <1>2 DEF SearchReturn
<1>3. CASE ~(Family(search.rom) = Zeros(FamilyBits))
  <2>1. /\ search'.rom = search.rom /\ search'.last = walk.zero /\ search'.flag = (walk.zero = 0)
        /\ Return(TRUE, search.rom) /\ walk'.k = 0 /\ UNCHANGED <<pass, onBus>>
    <3>1. /\ search' = [search EXCEPT !.last = walk.zero, !.flag = (walk.zero = 0)]
          /\ Return(TRUE, search.rom)
      BY <1>3 DEF SearchReturn
    <3>2. walk' = NoCall /\ UNCHANGED <<pass, onBus>>
      BY <3>1 DEF Return
    <3>3. walk'.k = 0
      BY <3>2 DEF NoCall
    <3>4. search \in [rom : BitStrings, last : 0 .. Bits, flag : BOOLEAN]
      BY DEF OneWireTypes
    <3> QED
      BY <3>1, <3>2, <3>3, <3>4
  <2> QED
    BY <1>1, <2>1 DEF Ends, Rom, Bus, Turn, Exhausted, Seen
<1> QED
  BY <1>2, <1>3

\* A call that has the bus as it is, is not broken off.
LEMMA BreakEmpty ==
  ASSUME OneWireTypes, Clean, walk.k \in 1 .. Bits, ~(Zero \/ One)
  PROVE  Bus = {} /\ pass[1] # "search"
<1>1. walk.inPlay = {}
  BY InPlayBits DEF Zero, One
<1> QED
  BY <1>1 DEF Clean

LEMMA NoFamilyZero ==
  ASSUME OneWireTypes, Rom \in Bus
  PROVE  Family(Rom) # Zeros(FamilyBits)
  BY BusTypes, CodeAssumption

-----------------------------------------------------------------------------
(* Types. *)

CallTypes == walk \in [k : 0 .. Bits + 1, inPlay : SUBSET onBus, zero : 0 .. Bits, done : BOOLEAN]
RestTypes ==
    /\ onBus \subseteq Codes /\ alarmed \subseteq onBus
    /\ search \in [rom : BitStrings, last : 0 .. Bits, flag : BOOLEAN]
    /\ alarm \in [rom : BitStrings, junction : 0 .. Bits, exhausted : BOOLEAN]
    /\ pass[1] \in {"none", "search", "alarm", "target"}
HistoryTypes ==
    /\ ended \in BOOLEAN /\ disturbed \in BOOLEAN /\ found \in Seq(BitStrings) /\ answers \in Nat /\ lost \in Nat
    /\ pass[1] = "none" => ended
    /\ ended => walk.k = 0

LEMMA TypesParts == OneWireTypes <=> CallTypes /\ RestTypes /\ HistoryTypes
  BY DEF OneWireTypes, CallTypes, RestTypes, HistoryTypes

LEMMA NoCallTypes == ASSUME walk' = NoCall PROVE CallTypes' /\ walk'.k = 0
  BY BitsNat DEF CallTypes, NoCall

LEMMA FailTypes ==
  ASSUME HistoryTypes, Return(FALSE, <<>>)
  PROVE  HistoryTypes' /\ CallTypes'
<1>1. walk' = NoCall /\ ended' = TRUE /\ answers' = answers /\ found' = found /\ UNCHANGED <<pass, disturbed, lost>>
  BY DEF Return
<1>2. CallTypes' /\ walk'.k = 0
  BY <1>1, NoCallTypes
<1> QED
  BY <1>1, <1>2 DEF HistoryTypes

LEMMA AnswerTypes ==
  ASSUME HistoryTypes, pass[1] # "none", NEW code \in BitStrings, Return(TRUE, code)
  PROVE  HistoryTypes' /\ CallTypes'
<1>1. walk' = NoCall /\ ended' = FALSE /\ UNCHANGED <<pass, disturbed, lost>>
  BY DEF Return
<1>2. answers' = answers + 1 \/ answers' = answers
  BY DEF Return
<1>3. found' = found \/ found' = Append(found, code)
  BY DEF Return
<1>4. CallTypes' /\ walk'.k = 0
  BY <1>1, NoCallTypes
<1>5. answers' \in Nat
  BY <1>2 DEF HistoryTypes
<1>6. found' \in Seq(BitStrings)
  BY <1>3, AppendProperties DEF HistoryTypes
<1> QED
  BY <1>1, <1>4, <1>5, <1>6 DEF HistoryTypes

LEMMA FamilyRom ==
  ASSUME NEW d \in BitStrings
  PROVE  /\ Family(d) \o Zeros(Bits - FamilyBits) \in BitStrings
         /\ Family(Family(d) \o Zeros(Bits - FamilyBits)) = Family(d)
<1> USE BitsNat
<1> DEFINE f == Family(d)  z == Zeros(Bits - FamilyBits)  S == {0, 1}
<1>1. /\ f \in Seq(S) /\ Len(f) = FamilyBits /\ \A i \in 1 .. FamilyBits : f[i] = d[i]
  <2>1. \A i \in 1 .. FamilyBits : d[i] \in S
    BY DEF BitStrings
  <2>2. /\ SubSeq(d, 1, FamilyBits) \in Seq(S)
        /\ Len(SubSeq(d, 1, FamilyBits)) = IF 1 <= FamilyBits THEN FamilyBits - 1 + 1 ELSE 0
        /\ \A i \in 1 .. FamilyBits - 1 + 1 : SubSeq(d, 1, FamilyBits)[i] = d[1 + i - 1]
    <3> HIDE DEF S
    <3> QED
      BY <2>1, SubSeqProperties
  <2>3. FamilyBits - 1 + 1 = FamilyBits /\ \A i \in 1 .. FamilyBits : 1 + i - 1 = i
    OBVIOUS
  <2> QED
    BY <2>2, <2>3 DEF Family
<1>2. z \in Seq(S) /\ Len(z) = Bits - FamilyBits
  BY DEF Zeros
<1> DEFINE c == f \o z
<1> HIDE DEF f, z, S
<1>3. /\ c \in Seq(S) /\ Len(c) = Len(f) + Len(z)
      /\ \A i \in 1 .. Len(f) : c[i] = f[i]
  <2>1. /\ c \in Seq(S) /\ Len(c) = Len(f) + Len(z)
        /\ \A i \in 1 .. Len(f) + Len(z) : c[i] = IF i <= Len(f) THEN f[i] ELSE z[i - Len(f)]
    BY <1>1, <1>2, ConcatProperties
  <2>2. \A i \in 1 .. Len(f) : i \in 1 .. Len(f) + Len(z) /\ i <= Len(f)
    BY <1>1, <1>2
  <2> QED
    BY <2>1, <2>2
<1> HIDE DEF c
<1>4. Len(c) = Bits
  BY <1>1, <1>2, <1>3
<1>5. c \in [1 .. Len(c) -> S]
  BY <1>3, LenProperties
<1>6. c \in BitStrings
  BY <1>4, <1>5 DEF BitStrings, S
<1>7. Family(c) = f
  <2>1. \A i \in 1 .. FamilyBits : c[i] = d[i]
    BY <1>1, <1>3
  <2>2. Family(c) = Family(d)
    BY <2>1 DEF Family
  <2> QED
    BY <2>2 DEF f
<1> QED
  BY <1>6, <1>7 DEF c, f, z

LEMMA TypesBegin ==
  ASSUME OneWireTypes, BeginSearch \/ BeginTarget \/ BeginAlarms
  PROVE  OneWireTypes'
<1> USE BitsNat
<1>1. Zeros(Bits) \in BitStrings
  BY DEF Zeros, BitStrings
<1>2. CallTypes /\ RestTypes /\ HistoryTypes
  BY TypesParts
<1>3. ASSUME NEW p, Begin(p), p[1] \in {"search", "alarm", "target"}
      PROVE  CallTypes' /\ HistoryTypes' /\ onBus' = onBus /\ alarmed' = alarmed /\ pass'[1] = p[1]
  <2>1. /\ walk' = walk /\ onBus' = onBus /\ alarmed' = alarmed /\ pass' = p /\ lost' = lost
        /\ ended' = FALSE /\ found' = <<>> /\ answers' = 0 /\ disturbed' = FALSE
    BY <1>3 DEF Begin
  <2>2. CallTypes'
    BY <1>2, <2>1 DEF CallTypes
  <2>3. pass'[1] = p[1] /\ pass'[1] # "none"
    BY <1>3, <2>1
  <2>4. found' \in Seq(BitStrings) /\ answers' \in Nat /\ lost' \in Nat
    BY <1>2, <2>1 DEF HistoryTypes
  <2>5. HistoryTypes'
    BY <2>1, <2>3, <2>4 DEF HistoryTypes
  <2> QED
    BY <2>1, <2>2, <2>3, <2>5
<1>4. CASE BeginSearch
  <2>1. /\ Begin(<<"search">>) /\ alarm' = alarm
        /\ search' = [rom |-> Zeros(Bits), last |-> 0, flag |-> FALSE]
    BY <1>4 DEF BeginSearch, ResetSearch
  <2>2. CallTypes' /\ HistoryTypes' /\ onBus' = onBus /\ alarmed' = alarmed /\ pass'[1] = "search"
    BY <1>3, <2>1
  <2>3. RestTypes'
    BY <1>1, <1>2, <2>1, <2>2 DEF RestTypes
  <2> QED
    BY <2>2, <2>3 DEF OneWireTypes, CallTypes, RestTypes, HistoryTypes
<1>5. CASE BeginAlarms
  <2>1. /\ Begin(<<"alarm">>) /\ search' = search
        /\ alarm' = [rom |-> Zeros(Bits), junction |-> 0, exhausted |-> FALSE]
    BY <1>5 DEF BeginAlarms, ResetAlarmSearch
  <2>2. CallTypes' /\ HistoryTypes' /\ onBus' = onBus /\ alarmed' = alarmed /\ pass'[1] = "alarm"
    BY <1>3, <2>1
  <2>3. RestTypes'
    BY <1>1, <1>2, <2>1, <2>2 DEF RestTypes
  <2> QED
    BY <2>2, <2>3 DEF OneWireTypes, CallTypes, RestTypes, HistoryTypes
<1>6. CASE BeginTarget
  <2>1. PICK d \in Codes :
          /\ Begin(<<"target", Family(d)>>) /\ alarm' = alarm
          /\ search' = [rom |-> Family(d) \o Zeros(Bits - FamilyBits), last |-> Bits, flag |-> FALSE]
    BY <1>6 DEF BeginTarget
  <2>2. CallTypes' /\ HistoryTypes' /\ onBus' = onBus /\ alarmed' = alarmed /\ pass'[1] = "target"
    BY <1>3, <2>1
  <2>3. Family(d) \o Zeros(Bits - FamilyBits) \in BitStrings
    BY CodeAssumption, FamilyRom DEF BitStrings
  <2>4. RestTypes'
    BY <1>1, <1>2, <2>1, <2>2, <2>3 DEF RestTypes
  <2> QED
    BY <2>2, <2>4 DEF OneWireTypes, CallTypes, RestTypes, HistoryTypes
<1> QED
  BY <1>4, <1>5, <1>6

LEMMA TypesWorking ==
  ASSUME OneWireTypes, Working
  PROVE  OneWireTypes'
<1> USE BitsNat
<1>1. CallTypes /\ RestTypes /\ HistoryTypes
  BY TypesParts
<1>2. pass[1] # "none"
  <2>1. SearchCall \/ AlarmCall => ~ended
    BY DEF SearchCall, AlarmCall
  <2>2. SearchBit \/ SearchBreak \/ SearchReturn => walk.k > 0
    BY DEF SearchBit, SearchBreak, SearchReturn, Searching
  <2>3. AlarmBit \/ AlarmBreak \/ AlarmReturn => walk.k > 0
    BY DEF AlarmBit, AlarmBreak, AlarmReturn, Alarming
  <2> QED
    BY <1>1, <2>1, <2>2, <2>3 DEF Working, HistoryTypes
<1>3. CASE Return(FALSE, <<>>) /\ UNCHANGED alarm /\ (UNCHANGED search \/ SearchFails)
  <2>1. HistoryTypes' /\ CallTypes'
    BY <1>1, <1>3, FailTypes
  <2>2. UNCHANGED <<onBus, alarmed, pass>>
    BY <1>3 DEF Return
  <2>3. search' \in [rom : BitStrings, last : 0 .. Bits, flag : BOOLEAN]
    <3>1. SearchFails => search' = [search EXCEPT !.last = 0, !.flag = FALSE]
      BY DEF SearchFails
    <3>2. search \in [rom : BitStrings, last : 0 .. Bits, flag : BOOLEAN]
      BY <1>1 DEF RestTypes
    <3>3. 0 \in 0 .. Bits
      OBVIOUS
    <3>4. ASSUME SearchFails PROVE search' \in [rom : BitStrings, last : 0 .. Bits, flag : BOOLEAN]
      BY <3>1, <3>2, <3>3, <3>4
    <3> QED
      BY <1>3, <3>2, <3>4
  <2>4. RestTypes'
    BY <1>1, <1>3, <2>2, <2>3 DEF RestTypes
  <2> QED
    BY <2>1, <2>4 DEF OneWireTypes, CallTypes, RestTypes, HistoryTypes
<1>4. CASE \E w : GoOn(w) /\ w \in [k : 0 .. Bits + 1, inPlay : SUBSET onBus, zero : 0 .. Bits, done : BOOLEAN]
                   /\ search' \in [rom : BitStrings, last : 0 .. Bits, flag : BOOLEAN]
                   /\ alarm' \in [rom : BitStrings, junction : 0 .. Bits, exhausted : BOOLEAN] /\ ~ended
  <2>1. UNCHANGED <<onBus, alarmed, pass, ended, found, answers, disturbed, lost>>
    BY <1>4 DEF GoOn
  <2>2. RestTypes' /\ CallTypes' /\ HistoryTypes'
    BY <1>1, <1>4, <2>1 DEF GoOn, RestTypes, CallTypes, HistoryTypes
  <2> QED
    BY <2>2 DEF OneWireTypes, CallTypes, RestTypes, HistoryTypes
<1>5. CASE \E code \in BitStrings : Return(TRUE, code)
                   /\ search' \in [rom : BitStrings, last : 0 .. Bits, flag : BOOLEAN]
                   /\ alarm' \in [rom : BitStrings, junction : 0 .. Bits, exhausted : BOOLEAN]
  <2>1. HistoryTypes' /\ CallTypes'
    BY <1>1, <1>2, <1>5, AnswerTypes
  <2>2. UNCHANGED <<onBus, alarmed, pass>>
    BY <1>5 DEF Return
  <2>3. RestTypes'
    BY <1>1, <1>5, <2>2 DEF RestTypes
  <2> QED
    BY <2>1, <2>3 DEF OneWireTypes, CallTypes, RestTypes, HistoryTypes
<1>6. walk.k > 0 => ~ended
  BY <1>1 DEF HistoryTypes
<1> DEFINE W == [k : 0 .. Bits + 1, inPlay : SUBSET onBus, zero : 0 .. Bits, done : BOOLEAN]
           S == [rom : BitStrings, last : 0 .. Bits, flag : BOOLEAN]
           A == [rom : BitStrings, junction : 0 .. Bits, exhausted : BOOLEAN]
<1>7. walk \in W /\ search \in S /\ alarm \in A /\ alarmed \subseteq onBus
  BY <1>1 DEF CallTypes, RestTypes
<1>8. \A i \in SUBSET onBus : [NoCall EXCEPT !.k = 1, !.inPlay = i] \in W
  <2> SUFFICES ASSUME NEW i \in SUBSET onBus PROVE [NoCall EXCEPT !.k = 1, !.inPlay = i] \in W
    OBVIOUS
  <2>1. NoCall \in W
    BY DEF NoCall
  <2>2. 1 \in 0 .. Bits + 1 /\ 0 \in 0 .. Bits
    OBVIOUS
  <2> QED
    BY <2>1, <2>2
<1>9. ASSUME SearchCall PROVE OneWireTypes'
  <2>1. ~ended /\ UNCHANGED alarm
    BY <1>9 DEF SearchCall
  <2>2. CASE SearchFails
    BY <1>3, <2>1, <2>2 DEF SearchFails
  <2>3. CASE GoOn([NoCall EXCEPT !.k = 1, !.inPlay = onBus]) /\ UNCHANGED search
    BY <1>4, <1>7, <1>8, <2>1, <2>3
  <2> QED
    BY <1>9, <2>2, <2>3 DEF SearchCall
<1>10. ASSUME AlarmCall PROVE OneWireTypes'
  <2>1. ~ended /\ UNCHANGED <<search, alarm>>
    BY <1>10 DEF AlarmCall
  <2>2. CASE Return(FALSE, <<>>)
    BY <1>3, <2>1, <2>2
  <2>3. CASE GoOn([NoCall EXCEPT !.k = 1, !.inPlay = alarmed])
    BY <1>4, <1>7, <1>8, <2>1, <2>3
  <2> QED
    BY <1>10, <2>2, <2>3 DEF AlarmCall
<1>11. ASSUME SearchBreak PROVE OneWireTypes'
  BY <1>3, <1>11 DEF SearchBreak, Searching, SearchFails
<1>12. ASSUME AlarmBreak PROVE OneWireTypes'
  BY <1>3, <1>12 DEF AlarmBreak, Alarming
<1>13. \A b : Keeps(b) \subseteq onBus
  BY <1>7 DEF Keeps
<1>14. ASSUME SearchBit PROVE OneWireTypes'
  <2> DEFINE b == Direction
             z == IF Zero /\ One /\ b = 0 THEN walk.k ELSE walk.zero
             w == [walk EXCEPT !.k = @ + 1, !.inPlay = Keeps(b), !.zero = z]
  <2>1. walk.k > 0 /\ walk.k <= Bits /\ UNCHANGED alarm /\ search' = [search EXCEPT !.rom[walk.k] = b] /\ GoOn(w)
    BY <1>14 DEF SearchBit, Searching
  <2>2. walk.k \in 1 .. Bits
    BY <1>7, <2>1
  <2>3. b \in {0, 1}
    BY <1>7, <2>2 DEF Direction, BitStrings
  <2>7. z \in 0 .. Bits /\ walk.k + 1 \in 0 .. Bits + 1
    BY <1>7, <2>2
  <2> HIDE DEF b, z
  <2>4. w \in W
    BY <1>7, <1>13, <2>7
  <2>5. Take(search.rom, walk.k, b) \in BitStrings
    BY <1>7, <2>2, <2>3 DEF Take, BitStrings
  <2>6. search' \in S
    BY <1>7, <2>1, <2>5 DEF Take
  <2> QED
    BY <1>4, <1>6, <1>7, <2>1, <2>4, <2>6
<1>15. ASSUME AlarmBit PROVE OneWireTypes'
  <2> DEFINE both == Zero /\ One
             kept == both /\ walk.k < alarm.junction
             b == IF ~both THEN IF One THEN 1 ELSE 0
                  ELSE IF walk.k = alarm.junction THEN 1 ELSE IF kept THEN alarm.rom[walk.k] ELSE 0
             z == IF kept /\ b = 0 THEN walk.k ELSE walk.zero
             e == walk.done /\ ~(both /\ b = 0)
             w == [walk EXCEPT !.k = @ + 1, !.inPlay = Keeps(b), !.zero = z, !.done = e]
             j == IF ~both \/ kept THEN alarm.junction ELSE IF walk.k = alarm.junction THEN walk.zero ELSE walk.k
  <2>1. /\ walk.k > 0 /\ walk.k <= Bits /\ UNCHANGED search /\ GoOn(w)
        /\ alarm' = [alarm EXCEPT !.rom[walk.k] = b, !.junction = j]
    BY <1>15 DEF AlarmBit, Alarming
  <2>2. walk.k \in 1 .. Bits
    BY <1>7, <2>1
  <2>3. b \in {0, 1}
    BY <1>7, <2>2 DEF BitStrings
  <2>4. j \in 0 .. Bits
    BY <1>7, <2>2
  <2>8. z \in 0 .. Bits /\ walk.k + 1 \in 0 .. Bits + 1 /\ e \in BOOLEAN
    BY <1>7, <2>2
  <2> HIDE DEF both, b, j, kept, z, e
  <2>5. w \in W
    BY <1>7, <1>13, <2>8
  <2>6. Take(alarm.rom, walk.k, b) \in BitStrings
    BY <1>7, <2>2, <2>3 DEF Take, BitStrings
  <2>7. alarm' \in A
    BY <1>7, <2>1, <2>4, <2>6 DEF Take
  <2> QED
    BY <1>4, <1>6, <1>7, <2>1, <2>5, <2>7
<1>16. ASSUME SearchReturn PROVE OneWireTypes'
  <2>1. UNCHANGED alarm
    BY <1>16 DEF SearchReturn, Searching
  <2>2. CASE SearchFails
    BY <1>3, <2>1, <2>2 DEF SearchFails
  <2>3. CASE search' = [search EXCEPT !.last = walk.zero, !.flag = (walk.zero = 0)] /\ Return(TRUE, search.rom)
    BY <1>5, <1>7, <2>1, <2>3
  <2> QED
    BY <1>16, <2>2, <2>3 DEF SearchReturn
<1>17. ASSUME AlarmReturn PROVE OneWireTypes'
  <2>1. UNCHANGED search /\ alarm' = [alarm EXCEPT !.exhausted = walk.done] /\ Return(TRUE, alarm.rom)
    BY <1>17 DEF AlarmReturn, Alarming
  <2> QED
    BY <1>5, <1>7, <2>1
<1> QED
  BY <1>9, <1>10, <1>11, <1>12, <1>14, <1>15, <1>16, <1>17 DEF Working

LEMMA TypesStep == OneWireTypes /\ [OneWireNext]_oneWireVars => OneWireTypes'
<1> SUFFICES ASSUME OneWireTypes, [OneWireNext]_oneWireVars PROVE OneWireTypes'
  OBVIOUS
<1>1. CASE Leaves
  <2>1. PICK d \in onBus : /\ onBus' = onBus \ {d} \/ onBus' = onBus
                           /\ alarmed' = alarmed \ {d} /\ walk' = [walk EXCEPT !.inPlay = @ \ {d}]
    BY <1>1 DEF Leaves
  <2>2. /\ disturbed' = TRUE /\ found' = <<>> /\ lost' = lost + 1
        /\ UNCHANGED <<search, alarm, pass, ended, answers>>
    BY <1>1 DEF Leaves
  <2>3. CallTypes /\ RestTypes /\ HistoryTypes
    BY TypesParts
  <2>4. RestTypes'
    BY <2>1, <2>2, <2>3 DEF RestTypes
  <2>5. CallTypes' /\ walk'.k = walk.k
    BY <2>1, <2>3 DEF CallTypes
  <2>6. HistoryTypes'
    BY <2>2, <2>3, <2>5 DEF HistoryTypes
  <2> QED
    BY <2>4, <2>5, <2>6 DEF OneWireTypes, CallTypes, RestTypes, HistoryTypes
<1>2. CASE UNCHANGED oneWireVars
  BY <1>2 DEF oneWireVars, OneWireTypes
<1> QED
  BY <1>1, <1>2, TypesBegin, TypesWorking DEF OneWireNext

-----------------------------------------------------------------------------
(* What is found. *)

LEMMA AppendSet ==
  ASSUME NEW S, NEW s \in Seq(S), NEW e \in S
  PROVE  /\ ToSet(Append(s, e)) = ToSet(s) \cup {e}
         /\ IsInjective(s) /\ e \notin ToSet(s) => IsInjective(Append(s, e))
<1> DEFINE n == Len(s)  t == Append(s, e)
<1>1. /\ t \in Seq(S) /\ Len(t) = n + 1 /\ \A i \in 1 .. n : t[i] = s[i]
      /\ t[n + 1] = e
  BY AppendProperties
<1>2. n \in Nat /\ DOMAIN s = 1 .. n /\ DOMAIN t = 1 .. n + 1
  BY <1>1, LenProperties
<1>3. \A i \in 1 .. n + 1 : i \in 1 .. n \/ i = n + 1
  BY <1>2
<1>4. n + 1 \in 1 .. n + 1 /\ \A i \in 1 .. n : i \in 1 .. n + 1
  BY <1>2
<1> HIDE DEF n, t
<1>5. ToSet(t) = ToSet(s) \cup {e}
  <2>1. ASSUME NEW x \in ToSet(t) PROVE x \in ToSet(s) \cup {e}
    BY <1>1, <1>2, <1>3, <2>1 DEF ToSet
  <2>2. ASSUME NEW x \in ToSet(s) PROVE x \in ToSet(t)
    BY <1>1, <1>2, <1>4, <2>2 DEF ToSet
  <2>3. e \in ToSet(t)
    BY <1>1, <1>2, <1>4 DEF ToSet
  <2> QED
    BY <2>1, <2>2, <2>3
<1>6. ASSUME IsInjective(s), e \notin ToSet(s) PROVE IsInjective(t)
  <2>1. \A i, j \in 1 .. n : s[i] = s[j] => i = j
    BY <1>2, <1>6 DEF IsInjective
  <2>2. \A i \in 1 .. n : s[i] # e
    BY <1>2, <1>6 DEF ToSet
  <2> SUFFICES ASSUME NEW i \in 1 .. n + 1, NEW j \in 1 .. n + 1, t[i] = t[j] PROVE i = j
    BY <1>2 DEF IsInjective
  <2> QED
    BY <1>1, <1>3, <2>1, <2>2
<1> QED
  BY <1>5, <1>6 DEF t

\* A sequence without a double is as long as its set is large.
LEMMA InjectiveLen ==
  ASSUME NEW S, NEW s \in Seq(S), IsInjective(s)
  PROVE  Len(s) = Cardinality(ToSet(s))
<1> DEFINE n == Len(s)  T == ToSet(s)
<1>1. n \in Nat /\ DOMAIN s = 1 .. n /\ s \in [1 .. n -> S]
  BY LenProperties
<1>2. s \in Bijection(1 .. n, T)
  <2>1. s \in [1 .. n -> T] /\ \A x \in T : \E i \in 1 .. n : s[i] = x
    BY <1>1 DEF ToSet
  <2>2. \A i, j \in 1 .. n : s[i] = s[j] => i = j
    BY <1>1 DEF IsInjective
  <2> HIDE DEF T, n
  <2> QED
    BY <2>1, <2>2 DEF Bijection, Injection, Surjection, IsInjective
<1>3. ExistsBijection(1 .. n, T)
  BY <1>2 DEF ExistsBijection
<1> HIDE DEF n, T
<1>4. IsFiniteSet(1 .. n) /\ Cardinality(1 .. n) = IF 1 > n THEN 0 ELSE n - 1 + 1
  BY <1>1, FS_Interval
<1>5. Cardinality(1 .. n) = n
  BY <1>1, <1>4
<1>6. Cardinality(T) = n
  BY <1>3, <1>4, <1>5, FS_Bijection
<1> QED
  BY <1>6 DEF T, n

\* The search is one of the two that go through the whole bus.
Through == ~disturbed /\ pass[1] \in {"search", "alarm"}

LEMMA FoundAnswer ==
  ASSUME OneWireTypes, Found, Through, ~ended, Ends, Return(TRUE, Rom)
  PROVE  Found'
<1>1. Regular /\ Clean /\ IsInjective(found) /\ ToSet(found) = Bus \ ToGo
  BY DEF Found, Through, Regular
<1>2. Rom \in Bus /\ Regular' /\ Rom \in ToGo /\ ToGo' = ToGo \ {Rom}
  BY <1>1, EndsRegular
<1>3. Rom \in BitStrings /\ found \in Seq(BitStrings)
  BY BusTypes DEF OneWireTypes
<1>4. ended' = FALSE /\ found' = Append(found, Rom)
  BY DEF Return, Through
<1>5. ToSet(found') = ToSet(found) \cup {Rom}
  BY <1>3, <1>4, AppendSet
<1>6. IsInjective(found')
  BY <1>1, <1>2, <1>3, <1>4, AppendSet
<1>7. Bus' = Bus
  BY DEF Ends
<1>8. ToSet(found') = Bus' \ ToGo'
  BY <1>1, <1>2, <1>5, <1>7
<1> QED
  BY <1>2, <1>4, <1>6, <1>8 DEF Found

\* A call that fails has found all there is.
LEMMA FoundFails ==
  ASSUME Found, Through, ~ended, Return(FALSE, <<>>), Bus = {} \/ ToGo = {}
  PROVE  Found'
<1>1. IsInjective(found) /\ ToSet(found) = Bus
  BY DEF Found, Through
<1>2. ended' = TRUE /\ found' = found /\ UNCHANGED <<onBus, alarmed, pass>>
  BY DEF Return
<1>3. Bus' = Bus
  BY <1>2 DEF Bus
<1> QED
  BY <1>1, <1>2, <1>3 DEF Found

LEMMA FoundGoesOn ==
  ASSUME Found, Through, ~ended, Regular', ToGo' = ToGo, Bus' = Bus, UNCHANGED <<found, ended>>
  PROVE  Found'
  BY DEF Found, Through

LEMMA FoundWorking ==
  ASSUME OneWireTypes, Found, Through, Working
  PROVE  Found'
<1>1. ~ended
  <2>1. SearchCall \/ AlarmCall => ~ended
    BY DEF SearchCall, AlarmCall
  <2>2. SearchBit \/ SearchBreak \/ SearchReturn => walk.k > 0
    BY DEF SearchBit, SearchBreak, SearchReturn, Searching
  <2>3. AlarmBit \/ AlarmBreak \/ AlarmReturn => walk.k > 0
    BY DEF AlarmBit, AlarmBreak, AlarmReturn, Alarming
  <2> QED
    BY <2>1, <2>2, <2>3 DEF Working, OneWireTypes
<1>2. Regular /\ Clean
  BY <1>1 DEF Found, Through, Regular
<1>3. CASE Calls /\ UNCHANGED <<found, ended>>
  <2>1. Regular' /\ ToGo' = ToGo
    BY <1>2, <1>3, CallsRegular
  <2> QED
    BY <1>1, <1>3, <2>1, FoundGoesOn DEF Calls
<1>4. CASE (Exhausted \/ Bus = {}) /\ walk.k = 0 /\ Return(FALSE, <<>>)
  BY <1>1, <1>2, <1>4, ExhaustedAll, FoundFails
<1>5. CASE UNCHANGED <<found, ended>> /\ \E b : Down(b)
  <2>1. PICK b : Down(b)
    BY <1>5
  <2>2. Regular' /\ ToGo' = ToGo
    BY <1>2, <2>1, DownRegular
  <2>3. Bus' = Bus
    BY <2>1 DEF Down
  <2> QED
    BY <1>1, <1>5, <2>2, <2>3, FoundGoesOn
<1>6. pass[1] = "search" \/ pass[1] = "alarm"
  BY DEF Through
<1>7. ASSUME SearchCall PROVE Found'
  <2>1. pass[1] = "search"
    BY <1>6, <1>7 DEF SearchCall
  <2>2. Calls => UNCHANGED <<found, ended>>
    BY <1>7 DEF SearchCall, Calls, SearchFails, Return, NoCall, GoOn
  <2> QED
    BY <1>3, <1>4, <1>7, <2>1, <2>2, SearchCallSteps DEF SearchFails
<1>8. ASSUME AlarmCall PROVE Found'
  <2>2. Calls => UNCHANGED <<found, ended>>
    BY <1>8 DEF AlarmCall, Calls, Return, NoCall, GoOn
  <2> QED
    BY <1>3, <1>4, <1>8, <2>2, AlarmCallSteps
<1>9. ASSUME SearchBit PROVE Found'
  <2>1. UNCHANGED <<found, ended>>
    BY <1>9 DEF SearchBit, GoOn
  <2> QED
    BY <1>5, <1>9, <2>1, SearchBitSteps
<1>10. ASSUME AlarmBit PROVE Found'
  <2>1. UNCHANGED <<found, ended>>
    BY <1>10 DEF AlarmBit, GoOn
  <2> QED
    BY <1>2, <1>5, <1>10, <2>1, AlarmBitSteps
<1>11. ASSUME SearchBreak PROVE Found'
  <2>1. walk.k \in 1 .. Bits /\ ~(Zero \/ One) /\ pass[1] # "alarm"
    BY <1>11, BitsNat DEF SearchBreak, Searching, OneWireTypes
  <2> QED
    BY <1>2, <1>6, <2>1, BreakEmpty
<1>12. ASSUME AlarmBreak PROVE Found'
  <2>1. walk.k > 0 /\ walk.k <= Bits /\ ~(Zero \/ One)
    BY <1>12 DEF AlarmBreak, Alarming
  <2>2. walk.k \in 1 .. Bits
    BY <2>1, BitsNat DEF OneWireTypes
  <2>3. Bus = {}
    BY <1>2, <2>1, <2>2, BreakEmpty
  <2>4. Return(FALSE, <<>>)
    BY <1>12 DEF AlarmBreak
  <2> QED
    BY <1>1, <2>3, <2>4, FoundFails
<1>13. ASSUME SearchReturn PROVE Found'
  <2>1. pass[1] = "search"
    BY <1>6, <1>13 DEF SearchReturn, Searching
  <2>2. CASE Family(search.rom) = Zeros(FamilyBits) /\ SearchFails
    <3>1. walk.k = Bits + 1
      BY <1>13, BitsNat DEF SearchReturn, Searching, OneWireTypes
    <3>2. Rom = search.rom
      BY <2>1 DEF Rom
    <3> QED
      BY <1>2, <2>2, <3>1, <3>2, CodeReached, NoFamilyZero
  <2>3. CASE Ends /\ Return(TRUE, Rom)
    BY <1>1, <2>3, FoundAnswer
  <2> QED
    BY <1>13, <2>1, <2>2, <2>3, SearchReturnSteps
<1>14. ASSUME AlarmReturn PROVE Found'
  BY <1>1, <1>2, <1>14, AlarmReturnSteps, FoundAnswer
<1> QED
  BY <1>7, <1>8, <1>9, <1>10, <1>11, <1>12, <1>13, <1>14 DEF Working

LEMMA WorkingKeeps ==
  ASSUME Working
  PROVE  UNCHANGED <<onBus, alarmed, pass, disturbed, lost>>
<1>1. ASSUME NEW w, GoOn(w) PROVE UNCHANGED <<onBus, alarmed, pass, disturbed, lost>>
  BY <1>1 DEF GoOn
<1>2. ASSUME NEW yes, NEW code, Return(yes, code) PROVE UNCHANGED <<onBus, alarmed, pass, disturbed, lost>>
  BY <1>2 DEF Return
<1>3. SearchCall \/ SearchBreak \/ SearchReturn => UNCHANGED <<onBus, alarmed, pass, disturbed, lost>>
  BY <1>1, <1>2 DEF SearchCall, SearchBreak, SearchReturn, SearchFails
<1>4. AlarmCall \/ AlarmBreak \/ AlarmReturn => UNCHANGED <<onBus, alarmed, pass, disturbed, lost>>
  BY <1>1, <1>2 DEF AlarmCall, AlarmBreak, AlarmReturn
<1>5. SearchBit \/ AlarmBit => UNCHANGED <<onBus, alarmed, pass, disturbed, lost>>
  BY <1>1 DEF SearchBit, AlarmBit
<1> QED
  BY <1>3, <1>4, <1>5 DEF Working

LEMMA SameRegular ==
  ASSUME UNCHANGED <<onBus, alarmed, search, alarm, walk, pass>>
  PROVE  /\ Bus' = Bus /\ Rom' = Rom /\ Turn' = Turn /\ ToGo' = ToGo
         /\ (Clean' <=> Clean) /\ (Regular' <=> Regular)
<1>1. Bus' = Bus /\ Rom' = Rom /\ Turn' = Turn /\ Exhausted' = Exhausted /\ Seen' = Seen
  BY DEF Bus, Rom, Turn, Exhausted, Seen
<1>2. ToGo' = ToGo
  BY <1>1 DEF ToGo
<1>3. Clean' <=> Clean
  BY <1>1 DEF Clean
<1>4. Settled' <=> Settled
  BY <1>1 DEF Settled
<1> QED
  BY <1>1, <1>2, <1>3, <1>4 DEF Regular

\* A search that is started over has found nothing, and has all to go to.
LEMMA BeginRegular ==
  ASSUME OneWireTypes, BeginSearch \/ BeginAlarms
  PROVE  /\ Regular' /\ ToGo' = Bus' /\ found' = <<>> /\ ~ended' /\ answers' = 0
         /\ pass'[1] = "search" => Bus' = onBus' /\ onBus' = onBus /\ lost' = lost
<1>1. \A p : Begin(p) => /\ walk.k = 0 /\ walk' = walk /\ pass' = p /\ found' = <<>> /\ ended' = FALSE
                        /\ answers' = 0 /\ onBus' = onBus /\ lost' = lost
  BY DEF Begin
<1>2. walk'.k = 0 /\ found' = <<>> /\ ended' = FALSE /\ answers' = 0 /\ onBus' = onBus /\ lost' = lost
  BY <1>1 DEF BeginSearch, BeginAlarms
<1>3. Turn' = 0 /\ ~Exhausted'
  <2>1. CASE BeginSearch
    BY <1>1, <2>1 DEF BeginSearch, ResetSearch, Turn, Exhausted
  <2>2. CASE BeginAlarms
    BY <1>1, <2>2 DEF BeginAlarms, ResetAlarmSearch, Turn, Exhausted
  <2> QED
    BY <2>1, <2>2
<1>4. Regular'
  BY <1>2, <1>3 DEF Regular, Clean
<1>5. ToGo' = Bus'
  BY <1>2, <1>3 DEF ToGo
<1> QED
  BY <1>2, <1>4, <1>5 DEF Bus

LEMMA FoundStep == OneWireTypes /\ Found /\ [OneWireNext]_oneWireVars => Found'
<1> SUFFICES ASSUME OneWireTypes, Found, [OneWireNext]_oneWireVars PROVE Found'
  OBVIOUS
<1>1. CASE BeginSearch \/ BeginAlarms
  <2>1. Regular' /\ ToGo' = Bus' /\ found' = <<>> /\ ~ended'
    BY <1>1, BeginRegular
  <2>2. IsInjective(found') /\ ToSet(found') = {}
    BY <2>1 DEF IsInjective, ToSet
  <2> QED
    BY <2>1, <2>2 DEF Found
<1>2. CASE BeginTarget
  <2>1. pass'[1] = "target"
    BY <1>2 DEF BeginTarget, Begin
  <2> QED
    BY <2>1 DEF Found
<1>3. CASE Working
  <2>1. UNCHANGED <<pass, disturbed>>
    BY <1>3, WorkingKeeps
  <2>2. CASE Through
    BY <1>3, <2>2, FoundWorking
  <2>3. CASE ~Through
    BY <2>1, <2>3 DEF Found, Through
  <2> QED
    BY <2>2, <2>3
<1>4. CASE Leaves
  BY <1>4 DEF Leaves, Found
<1>5. CASE UNCHANGED oneWireVars
  <2>1. UNCHANGED <<onBus, alarmed, search, alarm, walk, pass, found, ended, disturbed>>
    BY <1>5 DEF oneWireVars
  <2>2. Bus' = Bus /\ ToGo' = ToGo /\ (Regular' <=> Regular)
    BY <2>1, SameRegular
  <2> QED
    BY <2>1, <2>2 DEF Found
<1> QED
  BY <1>1, <1>2, <1>3, <1>4, <1>5 DEF OneWireNext

-----------------------------------------------------------------------------
(* How often it answers. *)

LEMMA BusSizes ==
  ASSUME OneWireTypes
  PROVE  /\ Cardinality(Codes) \in Nat /\ Cardinality(onBus) \in 0 .. Cardinality(Codes)
         /\ Limit \in Nat /\ Cardinality(Codes) + 1 <= Limit
<1>1. Cardinality(Codes) \in Nat
  BY CodeAssumption, FS_CardinalityType
<1>2. onBus \in SUBSET Codes /\ lost \in Nat
  BY DEF OneWireTypes
<1>3. IsFiniteSet(onBus) /\ Cardinality(onBus) <= Cardinality(Codes)
  BY <1>2, CodeAssumption, FS_Subset
<1>4. Cardinality(onBus) \in Nat
  BY <1>3, FS_CardinalityType
<1> DEFINE c == Cardinality(Codes)
<1>5. (lost + 1) * (c + 1) = lost * (c + 1) + (c + 1) /\ lost * (c + 1) \in Nat
  <2> HIDE DEF c
  <2>1. c \in Nat
    BY <1>1 DEF c
  <2> QED
    BY <1>2, <2>1
<1> QED
  BY <1>1, <1>3, <1>4, <1>5 DEF Limit

LEMMA PartSizes ==
  ASSUME OneWireTypes, NEW T \in SUBSET onBus
  PROVE  /\ IsFiniteSet(T) /\ Cardinality(T) \in 0 .. Cardinality(onBus)
         /\ \A e \in T : Cardinality(T \ {e}) = Cardinality(T) - 1
<1>1. onBus \in SUBSET Codes
  BY DEF OneWireTypes
<1>2. IsFiniteSet(onBus)
  BY <1>1, CodeAssumption, FS_Subset
<1>3. IsFiniteSet(T) /\ Cardinality(T) <= Cardinality(onBus)
  BY <1>2, FS_Subset
<1>4. Cardinality(T) \in Nat
  BY <1>3, FS_CardinalityType
<1>5. Cardinality(onBus) \in Nat
  BY <1>2, FS_CardinalityType
<1> QED
  BY <1>3, <1>4, <1>5, FS_RemoveElement

LEMMA ToGoOfBus ==
  ASSUME OneWireTypes
  PROVE  ToGo \subseteq Bus /\ (Regular /\ pass[1] = "search" => Bus = onBus)
  BY DEF ToGo, Beyond, Ahead, Bus

LEMMA AnsweredWorking ==
  ASSUME OneWireTypes, Answered, pass[1] = "search", Working
  PROVE  Answered'
<1> DEFINE C == Cardinality(onBus)  G == Cardinality(ToGo)
<1>1. UNCHANGED <<onBus, pass, lost>> /\ Limit' = Limit
  BY WorkingKeeps DEF Limit
<1>2. Bus = onBus /\ Bus' = onBus
  BY <1>1 DEF Bus
<1>3. answers \in Nat /\ Limit \in Nat /\ C \in Nat
  BY BusSizes DEF OneWireTypes
<1>4. G \in 0 .. C
  BY <1>2, ToGoOfBus, PartSizes
<1>5. CASE Return(FALSE, <<>>)
  <2>1. ended' = TRUE /\ answers' = answers
    BY <1>5 DEF Return
  <2> QED
    BY <1>1, <2>1 DEF Answered
<1>6. ASSUME ~ended PROVE \/ Regular /\ answers + G <= Limit
                          \/ Clean /\ answers + C <= Limit
                          \/ answers + C + 1 <= Limit
  BY <1>6 DEF Answered
<1>7. ASSUME ~ended, UNCHANGED <<ended, answers>>, Clean => Clean', Regular => Regular' /\ ToGo' = ToGo PROVE Answered'
  <2> HIDE DEF C, G
  <2>1. answers <= Limit
    BY DEF Answered
  <2>2. \/ Regular' /\ answers + Cardinality(ToGo)' <= Limit
        \/ Clean' /\ answers + C <= Limit
        \/ answers + C + 1 <= Limit
    BY <1>6, <1>7 DEF G
  <2>3. Cardinality(onBus') = C
    BY <1>1 DEF C
  <2> QED
    BY <1>1, <1>7, <2>1, <2>2, <2>3 DEF Answered
<1>8. CASE Ends /\ Return(TRUE, Rom) /\ ~ended
  <2>1. ended' = FALSE /\ answers' = answers + 1 /\ walk'.k = 0
    BY <1>8 DEF Return, Ends
  <2>2. Clean'
    BY <2>1 DEF Clean
  <2>3. Cardinality(onBus') = C
    BY <1>1
  <2>4. Clean => /\ Regular' /\ Rom \in onBus /\ ToGo' \subseteq onBus \ {Rom}
    BY <1>2, <1>8, EndsRegular
  <2>5. Regular => Rom \in ToGo /\ ToGo' = ToGo \ {Rom} /\ Clean
    BY <1>8, EndsRegular DEF Regular
  <2>6. Regular => Cardinality(ToGo') = G - 1 /\ G >= 1
    <3>1. ASSUME Regular PROVE Cardinality(ToGo') = G - 1
      BY <1>2, <2>5, <3>1, ToGoOfBus, PartSizes
    <3>2. ASSUME Regular PROVE Cardinality(ToGo') \in Nat
      <4>1. ToGo' \in SUBSET onBus
        BY <2>4, <2>5, <3>2
      <4> QED
        BY <4>1, PartSizes, <1>3
    <3> QED
      BY <1>4, <3>1, <3>2
  <2>7. Clean => Cardinality(ToGo') <= C - 1 /\ C >= 1
    <3> SUFFICES ASSUME Clean PROVE Cardinality(ToGo') <= C - 1 /\ C >= 1
      OBVIOUS
    <3>1. Cardinality(onBus \ {Rom}) = C - 1
      BY <2>4, PartSizes
    <3>2. IsFiniteSet(onBus \ {Rom})
      BY PartSizes
    <3>3. Cardinality(ToGo') <= Cardinality(onBus \ {Rom})
      BY <2>4, <3>2, FS_Subset
    <3>4. Cardinality(onBus \ {Rom}) \in Nat
      BY <3>2, FS_CardinalityType
    <3> QED
      BY <1>3, <3>1, <3>3, <3>4
  <2>8. CASE Regular /\ answers + G <= Limit
    <3>1. Regular'
      BY <2>4, <2>5, <2>8
    <3>2. answers + 1 <= Limit /\ answers + 1 + Cardinality(ToGo') <= Limit
      BY <1>3, <1>4, <2>6, <2>8
    <3> QED
      BY <1>1, <2>1, <3>1, <3>2 DEF Answered
  <2>9. CASE Clean /\ answers + C <= Limit
    <3>1. Regular'
      BY <2>4, <2>9
    <3>2. Cardinality(ToGo') \in Nat
      <4>1. ToGo' \in SUBSET onBus
        BY <2>4, <2>9
      <4> QED
        BY <4>1, PartSizes, <1>3
    <3>3. answers + 1 <= Limit /\ answers + 1 + Cardinality(ToGo') <= Limit
      BY <1>3, <2>7, <2>9, <3>2
    <3> QED
      BY <1>1, <2>1, <3>1, <3>3 DEF Answered
  <2>10. CASE answers + C + 1 <= Limit
    <3>1. answers + 1 <= Limit /\ answers + 1 + C <= Limit
      BY <1>3, <2>10
    <3> QED
      BY <1>1, <2>1, <2>2, <2>3, <3>1 DEF Answered
  <2> QED
    BY <1>6, <1>8, <2>8, <2>9, <2>10
<1> HIDE DEF C, G
<1>9. ASSUME SearchCall PROVE Answered'
  <2>1. ~ended
    BY <1>9 DEF SearchCall
  <2>2. CASE Calls
    <3>1. UNCHANGED <<ended, answers>>
      BY <1>9, <2>2 DEF SearchCall, Calls, SearchFails, Return, NoCall, GoOn
    <3> QED
      BY <1>7, <2>1, <2>2, <3>1, CallsRegular
  <2> QED
    BY <1>5, <1>9, <2>2, SearchCallSteps DEF SearchFails
<1>10. ASSUME SearchBit PROVE Answered'
  <2>1. UNCHANGED <<ended, answers>> /\ walk.k > 0
    BY <1>10 DEF SearchBit, GoOn, Searching
  <2>2. ~ended
    BY <2>1 DEF OneWireTypes
  <2>3. Down(Direction)
    BY <1>10, SearchBitSteps
  <2>4. Clean => Clean'
    BY <2>3, DownClean
  <2>5. Regular => Regular' /\ ToGo' = ToGo
    BY <2>3, DownRegular
  <2> QED
    BY <1>7, <2>1, <2>2, <2>4, <2>5
<1>11. ASSUME SearchBreak PROVE Answered'
  BY <1>5, <1>11 DEF SearchBreak, SearchFails
<1>12. ASSUME SearchReturn PROVE Answered'
  <2>1. ~ended
    BY <1>12 DEF SearchReturn, Searching, OneWireTypes
  <2> QED
    BY <1>5, <1>8, <1>12, <2>1, SearchReturnSteps DEF SearchFails
<1>13. ~(AlarmCall \/ AlarmBit \/ AlarmBreak \/ AlarmReturn)
  BY DEF AlarmCall, AlarmBit, AlarmBreak, AlarmReturn, Alarming
<1> QED
  BY <1>9, <1>10, <1>11, <1>12, <1>13 DEF Working

LEMMA AnsweredStep == OneWireTypes /\ Answered /\ [OneWireNext]_oneWireVars => Answered'
<1> SUFFICES ASSUME OneWireTypes, Answered, [OneWireNext]_oneWireVars, pass'[1] = "search" PROVE Answered'
  BY DEF Answered
<1> DEFINE C == Cardinality(Codes)
<1>1. C \in Nat /\ Cardinality(onBus) \in 0 .. C /\ Limit \in Nat /\ C + 1 <= Limit
  BY BusSizes
<1>2. CASE BeginSearch \/ BeginAlarms
  <2>1. Regular' /\ ToGo' = onBus /\ ~ended' /\ answers' = 0 /\ lost' = lost
    BY <1>2, BeginRegular
  <2>2. Limit' = Limit
    BY <2>1 DEF Limit
  <2>3. 0 <= Limit /\ 0 + Cardinality(onBus) <= Limit
    BY <1>1
  <2> QED
    BY <2>1, <2>2, <2>3 DEF Answered
<1>3. CASE BeginTarget
  BY <1>3 DEF BeginTarget, Begin
<1>4. CASE Working
  <2>1. pass[1] = "search"
    BY <1>4, WorkingKeeps
  <2> QED
    BY <1>4, <2>1, AnsweredWorking
<1>5. CASE Leaves
  <2>1. lost' = lost + 1 /\ answers' = answers /\ pass' = pass /\ \E d \in onBus : onBus' = onBus \ {d} \/ onBus' = onBus
    BY <1>5 DEF Leaves
  <2>2. onBus' \in SUBSET onBus
    BY <2>1
  <2>3. Cardinality(onBus') \in 0 .. Cardinality(onBus)
    BY <2>2, PartSizes
  <2>4. Limit' = Limit + (C + 1)
    <3>1. Limit = (lost + 1) * (C + 1) /\ Limit' = (lost + 1 + 1) * (C + 1)
      BY <2>1 DEF Limit
    <3>2. lost \in Nat
      BY DEF OneWireTypes
    <3> HIDE DEF C
    <3> QED
      BY <1>1, <3>1, <3>2
  <2>5. answers <= Limit /\ answers \in Nat
    BY <2>1 DEF Answered, OneWireTypes
  <2>6. answers' <= Limit' /\ answers' + Cardinality(onBus') + 1 <= Limit'
    <3> HIDE DEF C
    <3> QED
      BY <1>1, <2>1, <2>3, <2>4, <2>5
  <2> QED
    BY <2>6 DEF Answered
<1>6. CASE UNCHANGED oneWireVars
  <2>1. UNCHANGED <<onBus, alarmed, search, alarm, walk, pass, ended, answers, lost>>
    BY <1>6 DEF oneWireVars
  <2>2. ToGo' = ToGo /\ (Regular' <=> Regular) /\ (Clean' <=> Clean)
    BY <2>1, SameRegular
  <2>3. Limit' = Limit
    BY <2>1 DEF Limit
  <2> QED
    BY <2>1, <2>2, <2>3 DEF Answered
<1> QED
  BY <1>2, <1>3, <1>4, <1>5, <1>6 DEF OneWireNext

-----------------------------------------------------------------------------
(* The search for a family. *)

LEMMA FamilyTaken ==
  ASSUME NEW r \in BitStrings, NEW k \in 1 .. Bits, NEW b \in {0, 1}, k <= FamilyBits => b = r[k]
  PROVE  Family(Take(r, k, b)) = Family(r)
<1> USE BitsNat
<1> DEFINE s == Take(r, k, b)
<1>1. \A i \in 1 .. FamilyBits : s[i] = r[i]
  BY DEF Take, BitStrings
<1> HIDE DEF s
<1> QED
  BY <1>1 DEF Family, s

LEMMA FamilyBit ==
  ASSUME NEW d, NEW r, Family(d) = Family(r), NEW k \in 1 .. FamilyBits
  PROVE  d[k] = r[k]
<1> USE BitsNat
<1>1. \A e : Family(e)[k] = e[k]
  BY DEF Family
<1>2. Family(d)[k] = d[k] /\ Family(r)[k] = r[k]
  BY <1>1
<1> QED
  BY <1>2

\* The devices that are looked for.
Wanted == {d \in onBus : Family(d) = pass[2]}
Wants == /\ search.last = Bits /\ Family(search.rom) = pass[2]
         /\ walk.k = 0 => ~search.flag
         /\ walk.k \in 1 .. FamilyBits + 1 => Wanted \subseteq walk.inPlay

LEMMA TargetedParts ==
  Targeted <=> (~disturbed /\ pass[1] = "target" /\ Wanted # {} =>
                   /\ found # <<>> => Family(found[1]) = pass[2]
                   /\ found = <<>> /\ ~ended => Wants)
  BY DEF Targeted, Wanted, Wants

\* Down to the end of the family, the search goes where its devices are.
LEMMA FirstBit ==
  ASSUME OneWireTypes, Wants, Wanted # {}, SearchBit
  PROVE  Wants'
<1> USE BitsNat
<1> DEFINE k == walk.k  b == Direction
<1>1. /\ k \in 1 .. Bits /\ search' = [search EXCEPT !.rom[k] = b] /\ UNCHANGED <<onBus, pass>>
      /\ walk'.k = k + 1 /\ walk'.inPlay = Keeps(b)
  <2>1. /\ walk.k > 0 /\ walk.k <= Bits /\ search' = [search EXCEPT !.rom[k] = b]
        /\ GoOn([walk EXCEPT !.k = @ + 1, !.inPlay = Keeps(b), !.zero = IF Zero /\ One /\ b = 0 THEN walk.k ELSE @])
    BY DEF SearchBit, Searching
  <2>2. walk \in [k : 0 .. Bits + 1, inPlay : SUBSET onBus, zero : 0 .. Bits, done : BOOLEAN]
    BY DEF OneWireTypes
  <2>3. walk' = [walk EXCEPT !.k = @ + 1, !.inPlay = Keeps(b), !.zero = IF Zero /\ One /\ b = 0 THEN walk.k ELSE @]
        /\ UNCHANGED <<onBus, pass>>
    BY <2>1 DEF GoOn
  <2>4. walk'.k = k + 1 /\ walk'.inPlay = Keeps(b)
    <3> HIDE DEF b
    <3> QED
      BY <2>2, <2>3
  <2> QED
    BY <2>1, <2>2, <2>3, <2>4
<1>2. search \in [rom : BitStrings, last : 0 .. Bits, flag : BOOLEAN] /\ search.rom[k] \in {0, 1}
  BY <1>1 DEF OneWireTypes, BitStrings
<1>3. b \in {0, 1}
  BY <1>1, <1>2 DEF Direction
<1>4. search'.rom = Take(search.rom, k, b) /\ search'.last = search.last
  <2> HIDE DEF b
  <2> QED
    BY <1>1, <1>2 DEF Take
<1>5. Wanted' = Wanted
  BY <1>1 DEF Wanted
<1>6. ASSUME k <= FamilyBits PROVE b = search.rom[k] /\ Wanted \subseteq Keeps(b)
  <2>1. k \in 1 .. FamilyBits /\ k \in 1 .. FamilyBits + 1 /\ k < Bits
    BY <1>1, <1>6
  <2>2. Wanted \subseteq walk.inPlay /\ k < search.last
    BY <2>1 DEF Wants
  <2>3. \A d \in Wanted : d[k] = search.rom[k]
    BY <2>1, FamilyBit DEF Wanted, Wants
  <2>4. PICK d \in walk.inPlay : d[k] = search.rom[k]
    BY <2>2, <2>3
  <2>5. ASSUME Zero /\ One PROVE b = search.rom[k]
    BY <2>2, <2>5 DEF Direction
  <2>6. ASSUME ~(Zero /\ One) PROVE b = search.rom[k]
    <3>1. b = IF One THEN 1 ELSE 0
      BY <2>6 DEF Direction
    <3>2. search.rom[k] = 1 => One
      BY <2>4 DEF One
    <3>3. search.rom[k] = 0 => Zero
      BY <2>4 DEF Zero
    <3> HIDE DEF b
    <3> QED
      BY <1>2, <2>6, <3>1, <3>2, <3>3
  <2>7. b = search.rom[k]
    BY <2>5, <2>6
  <2> HIDE DEF b, k
  <2>8. Wanted \subseteq Keeps(b)
    BY <2>2, <2>3, <2>7 DEF Keeps, k
  <2> QED
    BY <2>7, <2>8
<1> HIDE DEF b, k
<1>7. Family(search'.rom) = pass[2]
  BY <1>1, <1>2, <1>3, <1>4, <1>6, FamilyTaken DEF Wants
<1>8. walk'.k \in 1 .. FamilyBits + 1 => k <= FamilyBits
  BY <1>1
<1>9. walk'.k # 0
  BY <1>1
<1> QED
  BY <1>1, <1>4, <1>5, <1>6, <1>7, <1>8, <1>9 DEF Wants

LEMMA TargetedStep == OneWireTypes /\ Targeted /\ [OneWireNext]_oneWireVars => Targeted'
<1> SUFFICES ASSUME OneWireTypes, Targeted, [OneWireNext]_oneWireVars,
                    ~disturbed', pass'[1] = "target", Wanted' # {}
             PROVE  /\ found' # <<>> => Family(found'[1]) = pass'[2]
                    /\ found' = <<>> /\ ~ended' => Wants'
  <2>1. Targeted' <=> (~disturbed' /\ pass'[1] = "target" /\ Wanted' # {} =>
                         /\ found' # <<>> => Family(found'[1]) = pass'[2]
                         /\ found' = <<>> /\ ~ended' => Wants')
    BY DEF Targeted, Wanted, Wants
  <2> QED
    BY <2>1
<1>1. CASE BeginSearch \/ BeginAlarms
  BY <1>1 DEF BeginSearch, BeginAlarms, Begin
<1>2. CASE BeginTarget
  <2>1. PICK d \in Codes :
          /\ Begin(<<"target", Family(d)>>)
          /\ search' = [rom |-> Family(d) \o Zeros(Bits - FamilyBits), last |-> Bits, flag |-> FALSE]
    BY <1>2 DEF BeginTarget
  <2>2. walk.k = 0 /\ walk' = walk /\ pass' = <<"target", Family(d)>> /\ found' = <<>>
    BY <2>1 DEF Begin
  <2>3. Family(search'.rom) = Family(d) /\ search'.last = Bits /\ ~search'.flag
    BY <2>1, CodeAssumption, FamilyRom DEF BitStrings
  <2>4. pass'[2] = Family(d) /\ ~(walk'.k \in 1 .. FamilyBits + 1)
    BY <2>2, BitsNat
  <2> QED
    BY <2>2, <2>3, <2>4 DEF Wants
<1>3. CASE Leaves
  BY <1>3 DEF Leaves
<1>4. CASE UNCHANGED oneWireVars
  <2>1. UNCHANGED <<onBus, search, walk, pass, ended, found, disturbed>>
    BY <1>4 DEF oneWireVars
  <2>2. Wanted' = Wanted /\ (Wants' <=> Wants)
    BY <2>1 DEF Wanted, Wants
  <2> QED
    BY <2>1, <2>2, TargetedParts
<1>5. CASE Working
  <2>1. UNCHANGED <<onBus, pass, disturbed>>
    BY <1>5, WorkingKeeps
  <2>2. Wanted' = Wanted
    BY <2>1 DEF Wanted
  <2>3. /\ found # <<>> => Family(found[1]) = pass[2]
        /\ found = <<>> /\ ~ended => Wants
    BY <2>1, <2>2, TargetedParts
  <2>4. CASE Return(FALSE, <<>>)
    <3>1. ended' = TRUE /\ found' = found
      BY <2>4 DEF Return
    <3> QED
      BY <2>1, <2>3, <3>1
  <2> DEFINE Goal == /\ found' # <<>> => Family(found'[1]) = pass'[2]
                     /\ found' = <<>> /\ ~ended' => Wants'
  <2>5. ASSUME UNCHANGED <<found, ended>>, ~ended /\ Wants => Wants' PROVE Goal
    BY <2>1, <2>3, <2>5
  <2>6. ASSUME SearchCall PROVE Goal
    <3>1. CASE GoOn([NoCall EXCEPT !.k = 1, !.inPlay = onBus]) /\ UNCHANGED search
      <4>1. UNCHANGED <<found, ended>> /\ walk'.k = 1 /\ walk'.inPlay = onBus
        BY <3>1 DEF GoOn, NoCall
      <4>2. Wants => Wants'
        BY <2>1, <2>2, <3>1, <4>1 DEF Wants, Wanted
      <4> QED
        BY <2>5, <4>1, <4>2
    <3>2. CASE SearchFails
      BY <2>4, <3>2 DEF SearchFails
    <3> QED
      BY <2>6, <3>1, <3>2 DEF SearchCall
  <2>7. ASSUME SearchBit PROVE Goal
    <3>1. UNCHANGED <<found, ended>>
      BY <2>7 DEF SearchBit, GoOn
    <3>2. Wants => Wants'
      BY <2>2, <2>7, FirstBit
    <3> QED
      BY <2>5, <3>1, <3>2
  <2>8. ASSUME SearchBreak PROVE Goal
    BY <2>4, <2>8 DEF SearchBreak, SearchFails
  <2>9. ASSUME SearchReturn PROVE Goal
    <3>1. ~ended /\ found \in Seq(BitStrings) /\ search.rom \in BitStrings
      BY <2>9 DEF SearchReturn, Searching, OneWireTypes
    <3>2. CASE SearchFails
      BY <2>4, <3>2 DEF SearchFails
    <3>3. CASE Return(TRUE, search.rom)
      <4>1. found' = Append(found, search.rom)
        <5>1. ~disturbed
          BY <2>1
        <5> QED
          BY <3>3, <5>1 DEF Return
      <4>2. found' # <<>> /\ \A i \in 1 .. Len(found) : found'[i] = found[i]
        BY <3>1, <4>1, AppendProperties
      <4>3. CASE found = <<>>
        <5>1. found'[1] = search.rom
          BY <4>1, <4>3
        <5> QED
          BY <2>1, <2>3, <3>1, <4>2, <4>3, <5>1 DEF Wants
      <4>4. CASE found # <<>>
        <5>1. 1 \in 1 .. Len(found)
          <6>1. Len(found) \in Nat /\ Len(found) # 0
            BY <3>1, <4>4, EmptySeq, LenProperties
          <6> QED
            BY <6>1
        <5>2. found'[1] = found[1]
          BY <4>2, <5>1
        <5> QED
          BY <2>1, <2>3, <4>2, <4>4, <5>2
      <4> QED
        BY <4>3, <4>4
    <3> QED
      BY <2>9, <3>2, <3>3 DEF SearchReturn
  <2>10. ~(AlarmCall \/ AlarmBit \/ AlarmBreak \/ AlarmReturn)
    BY <2>1 DEF AlarmCall, AlarmBit, AlarmBreak, AlarmReturn, Alarming
  <2> QED
    BY <1>5, <2>6, <2>7, <2>8, <2>9, <2>10 DEF Working
<1> QED
  BY <1>1, <1>2, <1>3, <1>4, <1>5 DEF OneWireNext

\* A search of a bus that is left alone finds every device once and then says so, a search for a
\* family finds one of it first, and the count of the devices ends although devices leave
\* (OneWire::search, target_search, alarmSearch), for every set of codes of every length.
THEOREM SearchIsSoundHolds == OneWireInit /\ [][OneWireNext]_oneWireVars => []SearchIsSound
<1>1. OneWireInit => SearchInv
  <2> SUFFICES ASSUME OneWireInit PROVE SearchInv
    OBVIOUS
  <2>1. Zeros(Bits) \in BitStrings
    BY DEF Zeros, BitStrings
  <2>2. /\ onBus \subseteq Codes /\ alarmed \subseteq onBus /\ pass = <<"none">> /\ ended = TRUE
        /\ search = [rom |-> Zeros(Bits), last |-> 0, flag |-> FALSE]
        /\ alarm = [rom |-> Zeros(Bits), junction |-> 0, exhausted |-> FALSE]
        /\ walk = NoCall /\ found = <<>> /\ answers = 0 /\ disturbed = FALSE /\ lost = 0
    BY DEF OneWireInit, ResetSearch, ResetAlarmSearch
  <2>3. CallTypes /\ walk.k = 0
    BY <2>2, BitsNat DEF CallTypes, NoCall
  <2>4. RestTypes
    BY <2>1, <2>2, BitsNat DEF RestTypes
  <2>5. HistoryTypes
    <3>1. found \in Seq(BitStrings)
      BY <2>2
    <3>2. 0 \in Nat
      OBVIOUS
    <3> QED
      BY <2>2, <2>3, <3>1, <3>2 DEF HistoryTypes
  <2>6. OneWireTypes
    BY <2>3, <2>4, <2>5, TypesParts
  <2>7. pass[1] = "none"
    BY <2>2
  <2>8. Found
    BY <2>7 DEF Found
  <2>9. Answered
    BY <2>7 DEF Answered
  <2>10. Targeted
    BY <2>7 DEF Targeted
  <2> QED
    BY <2>6, <2>8, <2>9, <2>10 DEF SearchInv
<1>2. SearchInv /\ [OneWireNext]_oneWireVars => SearchInv'
  BY TypesStep, FoundStep, AnsweredStep, TargetedStep DEF SearchInv
<1>3. SearchInv => SearchIsSound
  <2> SUFFICES ASSUME SearchInv PROVE SearchIsSound
    OBVIOUS
  <2>1. OneWireTypes /\ Found /\ Answered /\ Targeted
    BY DEF SearchInv
  <2>2. SearchEnds
    BY <2>1 DEF SearchEnds, Answered, Limit
  <2>3. ASSUME ~disturbed, pass[1] # "none", pass[1] # "target"
        PROVE  /\ Len(found) = Cardinality(ToSet(found))
               /\ ended => ToSet(found) = IF pass[1] = "alarm" THEN alarmed ELSE onBus
    <3>1. pass[1] \in {"search", "alarm"}
      BY <2>1, <2>3 DEF OneWireTypes
    <3>2. IsInjective(found) /\ (ended => ToSet(found) = Bus)
      BY <2>1, <2>3, <3>1 DEF Found
    <3>3. Len(found) = Cardinality(ToSet(found))
      BY <2>1, <3>2, InjectiveLen DEF OneWireTypes
    <3> QED
      BY <3>2, <3>3 DEF Bus
  <2>4. ASSUME ~disturbed, pass[1] = "target", found # <<>>, \E d \in onBus : Family(d) = pass[2]
        PROVE  Family(found[1]) = pass[2]
    BY <2>1, <2>4 DEF Targeted
  <2> QED
    BY <2>2, <2>3, <2>4 DEF SearchIsSound, FindsEachOnce
<1> QED
  BY <1>1, <1>2, <1>3, PTL

-----------------------------------------------------------------------------
(* The measurements of the ADXL357. *)

\* N is in its order, and a list of S.
InOrder(N) == \A i, j \in 1 .. Len(N) : i < j => N[i] < N[j]
Lists(N, S) == \A n : n \in S <=> \E k \in 1 .. Len(N) : N[k] = n

\* The k-th of a set is what is in the k-th place of the sequence of its elements in order.
LEMMA NthIs ==
  ASSUME NEW N \in Seq(Nat), NEW S, InOrder(N), Lists(N, S)
  PROVE  Cardinality(S) = Len(N) /\ \A k \in 1 .. Len(N) : Nth(k, S) = N[k]
<1>0. PICK l \in Nat : l = Len(N)
  OBVIOUS
<1> SUFFICES ASSUME \A k \in 1 .. l : N[k] \in Nat, \A i, j \in 1 .. l : i < j => N[i] < N[j],
                    \A n : n \in S <=> \E k \in 1 .. l : N[k] = n
             PROVE  Cardinality(S) = l /\ \A k \in 1 .. l : Nth(k, S) = N[k]
  BY <1>0 DEF InOrder, Lists
<1> DEFINE Image(k) == {N[j] : j \in 1 .. k}
<1>1. ASSUME NEW k \in 0 .. l PROVE Cardinality(Image(k)) = k
  <2> DEFINE b == [j \in 1 .. k |-> N[j]]
             J == 1 .. k
             I == Image(k)
  <2>1. b \in [J -> I] /\ \A j \in J : b[j] = N[j] /\ j \in 1 .. l
    OBVIOUS
  <2>2. \A i \in I : \E j \in J : b[j] = i
    OBVIOUS
  <2>3. \A i, j \in J : b[i] = b[j] => i = j
    <3> SUFFICES ASSUME NEW i \in J, NEW j \in J, N[i] = N[j] PROVE i = j
      OBVIOUS
    <3>1. i \in 1 .. l /\ j \in 1 .. l /\ ~(N[i] < N[j]) /\ ~(N[j] < N[i])
      OBVIOUS
    <3>2. ~(i < j) /\ ~(j < i)
      BY <3>1
    <3> QED
      BY <3>1, <3>2
  <2>4. IsFiniteSet(J) /\ Cardinality(J) = k
    BY FS_Interval
  <2> HIDE DEF b, J, I
  <2>5. b \in Injection(J, I) /\ b \in Surjection(J, I)
    BY <2>1, <2>2, <2>3 DEF Injection, IsInjective, Surjection
  <2>6. ExistsBijection(J, I)
    BY <2>5 DEF ExistsBijection, Bijection
  <2>7. Cardinality(I) = Cardinality(J)
    BY <2>4, <2>6, FS_Bijection
  <2> QED
    BY <2>4, <2>7 DEF I
<1>2. S = Image(l)
  OBVIOUS
<1>3. ASSUME NEW k \in 1 .. l PROVE {m \in S : m <= N[k]} = Image(k)
  <2>1. ASSUME NEW j \in 1 .. l PROVE N[j] <= N[k] <=> j <= k
    <3>1. N[j] \in Nat /\ N[k] \in Nat
      OBVIOUS
    <3>2. (j < k => N[j] < N[k]) /\ (k < j => N[k] < N[j])
      OBVIOUS
    <3> QED
      BY <3>1, <3>2
  <2>2. ASSUME NEW m \in S, m <= N[k] PROVE m \in Image(k)
    <3>1. PICK j \in 1 .. l : N[j] = m
      OBVIOUS
    <3>2. j \in 1 .. k
      BY <2>1, <2>2, <3>1
    <3> QED
      BY <3>1, <3>2
  <2>3. ASSUME NEW m \in Image(k) PROVE m \in S /\ m <= N[k]
    <3>1. PICK j \in 1 .. k : N[j] = m
      OBVIOUS
    <3>2. j \in 1 .. l /\ j <= k
      OBVIOUS
    <3>3. N[j] <= N[k]
      BY <2>1, <3>2
    <3>4. N[j] \in S
      BY <3>2
    <3> QED
      BY <3>1, <3>3, <3>4
  <2> HIDE DEF Image
  <2> QED
    BY <2>2, <2>3
<1>4. ASSUME NEW k \in 1 .. l PROVE Nth(k, S) = N[k]
  <2> DEFINE Rank(n) == Cardinality({m \in S : m <= n})
  <2>1. \A j \in 1 .. l : Rank(N[j]) = j
    <3> SUFFICES ASSUME NEW j \in 1 .. l PROVE Rank(N[j]) = j
      OBVIOUS
    <3>1. j \in 0 .. l
      OBVIOUS
    <3> HIDE DEF Image
    <3>2. Cardinality(Image(j)) = j
      BY <1>1, <3>1
    <3>3. {m \in S : m <= N[j]} = Image(j)
      BY <1>3
    <3> QED
      BY <3>2, <3>3
  <2>2. N[k] \in S /\ Rank(N[k]) = k
    BY <2>1
  <2>3. ASSUME NEW n \in S, Rank(n) = k PROVE n = N[k]
    <3>1. PICK j \in 1 .. l : N[j] = n
      OBVIOUS
    <3> HIDE DEF Rank
    <3>2. j = k
      BY <2>1, <2>3, <3>1
    <3> QED
      BY <3>1, <3>2
  <2>4. Nth(k, S) = CHOOSE n \in S : Rank(n) = k
    BY DEF Nth
  <2> HIDE DEF Rank
  <2> QED
    BY <2>2, <2>3, <2>4
<1>5. Cardinality(S) = l
  <2>1. l \in 0 .. l
    OBVIOUS
  <2> HIDE DEF Image
  <2> QED
    BY <1>1, <1>2, <2>1
<1> QED
  BY <1>4, <1>5

\* An axis of some measurements, and what is added for it.
Column(sets, a) == [k \in DOMAIN sets |-> sets[k][a]]

LEMMA AddedIs ==
  ASSUME NEW sum, NEW sets, NEW a \in 1 .. 3
  PROVE  Added(sum, sets)[a] = sum[a] + SumOver(Column(sets, a), DOMAIN sets)
<1>1. DOMAIN Column(sets, a) = DOMAIN sets
  BY DEF Column
<1>2. Added(sum, sets)[a] = sum[a] + SumOver(Column(sets, a), DOMAIN Column(sets, a))
  BY DEF Added, Column, SumOver, MapThenSumSet, MapThenFoldSet
<1> QED
  BY <1>1, <1>2

\* The sign is what it was.
LEMMA SignBack ==
  ASSUME NEW half \in Nat \ {0}, NEW m \in -half .. half - 1
  PROVE  Signed(m % (2 * half), half) = m
<1> DEFINE d == 2 * half
<1>0. d \in Nat \ {0} /\ d = half + half
  OBVIOUS
<1> HIDE DEF d
<1>1. CASE m >= 0
  <2>1. m % d = m
    BY <1>0, <1>1
  <2> QED
    BY <1>0, <1>1, <2>1 DEF Signed, d
<1>2. CASE m < 0
  <2>1. m % d = m + d
    BY <1>0, <1>2
  <2> QED
    BY <1>0, <1>2, <2>1 DEF Signed, d
<1> QED
  BY <1>1, <1>2

\* The numbers N, without the one behind the first P if s is 1, and with a greater one at the end.
Renumbered(N, P, s, new) ==
    [k \in 1 .. Len(N) + 1 - s |-> IF k <= P THEN N[k] ELSE IF k <= Len(N) - s THEN N[k + s] ELSE new]

\* What is so of M, the numbers N renumbered.
RenumbersTo(M, N, P, s, new) ==
  /\ M \in Seq(Nat) /\ Len(M) = Len(N) + 1 - s
  /\ \A k \in 1 .. P : M[k] = N[k]
  /\ \A k \in P + 1 .. Len(N) - s : M[k] = N[k + s]
  /\ M[Len(N) + 1 - s] = new

LEMMA RenumberedIs ==
  ASSUME NEW N \in Seq(Nat), NEW P \in Nat, NEW s \in {0, 1}, P + s <= Len(N), NEW new \in Nat
  PROVE  RenumbersTo(Renumbered(N, P, s, new), N, P, s, new)
<1> DEFINE M == Renumbered(N, P, s, new)
           l == Len(N) + 1 - s
<1>1. l \in Nat /\ P < l /\ Len(N) \in Nat
  OBVIOUS
<1>2. DOMAIN M = 1 .. l /\ \A k \in 1 .. l : M[k] = IF k <= P THEN N[k] ELSE IF k <= Len(N) - s THEN N[k + s] ELSE new
  BY DEF Renumbered
<1> HIDE DEF M, l
<1>3. ASSUME NEW k \in 1 .. l PROVE M[k] \in Nat
  <2>1. k <= P => k \in 1 .. Len(N)
    BY <1>1
  <2>2. k <= Len(N) - s => k + s \in 1 .. Len(N)
    BY <1>1
  <2>3. \A i \in 1 .. Len(N) : N[i] \in Nat
    OBVIOUS
  <2> QED
    BY <1>2, <2>1, <2>2, <2>3
<1>4. M = [k \in 1 .. l |-> M[k]]
  <2>1. M = [k \in DOMAIN M |-> M[k]]
    BY DEF M, Renumbered
  <2> QED
    BY <1>2, <2>1
<1>5. M \in [1 .. l -> Nat]
  BY <1>3, <1>4
<1>6. M \in Seq(Nat) /\ Len(M) = l
  BY <1>1, <1>5, LenProperties
<1>7. (\A k \in 1 .. P : M[k] = N[k]) /\ (\A k \in P + 1 .. Len(N) - s : M[k] = N[k + s]) /\ M[l] = new
  BY <1>1, <1>2 DEF l
<1> QED
  BY <1>6, <1>7 DEF M, l, RenumbersTo

\* It stays in order, and a list of what is left.
LEMMA RenumberedOrder ==
  ASSUME NEW N \in Seq(Nat), NEW P \in Nat, NEW s \in {0, 1}, P + s <= Len(N), NEW new \in Nat,
         InOrder(N), \A k \in 1 .. Len(N) : N[k] < new
  PROVE  InOrder(Renumbered(N, P, s, new))
<1> DEFINE M == Renumbered(N, P, s, new)
           l == Len(N) + 1 - s
           Old(k) == IF k <= P THEN k ELSE k + s
<1>1. /\ Len(M) = l
      /\ \A k \in 1 .. l - 1 : Old(k) \in 1 .. Len(N) /\ M[k] = N[Old(k)]
      /\ M[l] = new
  <2>0. RenumbersTo(M, N, P, s, new)
    BY RenumberedIs
  <2>1. M \in Seq(Nat) /\ Len(M) = l
    BY <2>0 DEF RenumbersTo
  <2>2. \A k \in 1 .. P : M[k] = N[k]
    BY <2>0 DEF RenumbersTo
  <2>3. \A k \in P + 1 .. Len(N) - s : M[k] = N[k + s]
    BY <2>0 DEF RenumbersTo
  <2>4. M[l] = new
    BY <2>0 DEF RenumbersTo
  <2>5. \A k \in 1 .. l - 1 : Old(k) \in 1 .. Len(N)
    OBVIOUS
  <2> HIDE DEF M
  <2>6. ASSUME NEW k \in 1 .. l - 1 PROVE M[k] = N[Old(k)]
    <3>1. CASE k <= P
      BY <2>2, <3>1
    <3>2. CASE k > P
      <4>1. k \in P + 1 .. Len(N) - s
        BY <3>2
      <4> QED
        BY <2>3, <3>2, <4>1
    <3> QED
      BY <3>1, <3>2
  <2> QED
    BY <2>1, <2>4, <2>5, <2>6
<1>2. \A i, j \in 1 .. l - 1 : i < j => Old(i) < Old(j)
  OBVIOUS
<1>3. \A i, j \in 1 .. Len(N) : i < j => N[i] < N[j]
  BY DEF InOrder
<1>4. l \in Nat
  OBVIOUS
<1> HIDE DEF M, l, Old
<1>5. ASSUME NEW i \in 1 .. l, NEW j \in 1 .. l, i < j PROVE M[i] < M[j]
  <2>1. i \in 1 .. l - 1
    BY <1>4, <1>5
  <2>2. CASE j = l
    BY <1>1, <2>1, <2>2
  <2>3. CASE j # l
    <3>1. j \in 1 .. l - 1
      BY <1>4, <2>3
    <3> QED
      BY <1>1, <1>2, <1>3, <1>5, <2>1, <3>1
  <2> QED
    BY <2>2, <2>3
<1> QED
  BY <1>1, <1>5 DEF InOrder, M

LEMMA RenumberedLists ==
  ASSUME NEW N \in Seq(Nat), NEW P \in Nat, NEW s \in {0, 1}, P + s <= Len(N), NEW new \in Nat,
         InOrder(N), NEW S, Lists(N, S), NEW T, \A n : n \in T <=> n = new \/ (n \in S /\ ~(s = 1 /\ n = N[P + 1]))
  PROVE  Lists(Renumbered(N, P, s, new), T)
<1> DEFINE M == Renumbered(N, P, s, new)
           l == Len(N) + 1 - s
           Old(k) == IF k <= P THEN k ELSE k + s
<1>1. /\ Len(M) = l
      /\ \A k \in 1 .. l - 1 : Old(k) \in 1 .. Len(N) /\ M[k] = N[Old(k)]
      /\ M[l] = new
  <2>0. RenumbersTo(M, N, P, s, new)
    BY RenumberedIs
  <2>1. M \in Seq(Nat) /\ Len(M) = l
    BY <2>0 DEF RenumbersTo
  <2>2. \A k \in 1 .. P : M[k] = N[k]
    BY <2>0 DEF RenumbersTo
  <2>3. \A k \in P + 1 .. Len(N) - s : M[k] = N[k + s]
    BY <2>0 DEF RenumbersTo
  <2>4. M[l] = new
    BY <2>0 DEF RenumbersTo
  <2>5. \A k \in 1 .. l - 1 : Old(k) \in 1 .. Len(N)
    OBVIOUS
  <2> HIDE DEF M
  <2>6. ASSUME NEW k \in 1 .. l - 1 PROVE M[k] = N[Old(k)]
    <3>1. CASE k <= P
      BY <2>2, <3>1
    <3>2. CASE k > P
      <4>1. k \in P + 1 .. Len(N) - s
        BY <3>2
      <4> QED
        BY <2>3, <3>2, <4>1
    <3> QED
      BY <3>1, <3>2
  <2> QED
    BY <2>1, <2>4, <2>5, <2>6
<1>2. \A n : n \in S <=> \E k \in 1 .. Len(N) : N[k] = n
  BY DEF Lists
<1>3. \A i, j \in 1 .. Len(N) : i < j => N[i] < N[j] /\ N[i] \in Nat /\ N[j] \in Nat
  BY DEF InOrder
<1>4. l \in Nat /\ l >= 1 /\ Len(N) \in Nat
  OBVIOUS
<1>5. \A k \in 1 .. l - 1 : s = 1 => Old(k) # P + 1
  OBVIOUS
<1>6. \A i \in 1 .. Len(N) : ~(s = 1 /\ i = P + 1) => \E k \in 1 .. l - 1 : Old(k) = i
  <2> SUFFICES ASSUME NEW i \in 1 .. Len(N), ~(s = 1 /\ i = P + 1) PROVE \E k \in 1 .. l - 1 : Old(k) = i
    OBVIOUS
  <2>1. CASE i <= P
    <3>1. i \in 1 .. l - 1 /\ Old(i) = i
      BY <2>1
    <3> QED
      BY <3>1
  <2>2. CASE i > P
    <3>1. i - s \in 1 .. l - 1 /\ Old(i - s) = i
      BY <2>2
    <3> QED
      BY <3>1
  <2> QED
    BY <2>1, <2>2
<1> HIDE DEF M, l, Old
<1>7. ASSUME NEW k \in 1 .. l PROVE M[k] \in T
  <2>1. CASE k = l
    BY <1>1, <2>1
  <2>2. CASE k # l
    <3>1. k \in 1 .. l - 1
      BY <1>4, <2>2
    <3>2. M[k] = N[Old(k)] /\ Old(k) \in 1 .. Len(N) /\ (s = 1 => Old(k) # P + 1)
      BY <1>1, <1>5, <3>1
    <3>3. N[Old(k)] \in S
      BY <1>2, <3>2
    <3>4. s = 1 => N[Old(k)] # N[P + 1]
      <4>1. s = 1 => P + 1 \in 1 .. Len(N)
        BY <1>4
      <4> QED
        BY <1>3, <3>2, <4>1
    <3> QED
      BY <3>2, <3>3, <3>4
  <2> QED
    BY <2>1, <2>2
<1>8. ASSUME NEW n \in T PROVE \E k \in 1 .. l : M[k] = n
  <2>1. CASE n = new
    BY <1>1, <1>4, <2>1
  <2>2. CASE n # new
    <3>1. n \in S /\ ~(s = 1 /\ n = N[P + 1])
      BY <2>2
    <3>2. PICK i \in 1 .. Len(N) : N[i] = n
      BY <1>2, <3>1
    <3>3. ~(s = 1 /\ i = P + 1)
      BY <3>1, <3>2
    <3>4. PICK k \in 1 .. l - 1 : Old(k) = i
      BY <1>6, <3>3
    <3>5. k \in 1 .. l /\ M[k] = n
      BY <1>1, <1>4, <3>2, <3>4
    <3> QED
      BY <3>5
  <2> QED
    BY <2>1, <2>2
<1> QED
  BY <1>1, <1>7, <1>8 DEF Lists, M

\* Entries, and those that have been taken out of the FIFO and not handed over.
Entry == Nat \X (1 .. 3) \X Int
TakenOut == fifodata.entries \o latch

AdxlTypeOK ==
  /\ measured \in Seq(Measurements) /\ dropped \subseteq DOMAIN measured
  /\ latch \in Seq(Entry) /\ Len(latch) <= 2 /\ fifo \in Seq(Seq(Entry))
  /\ fifodata.on \in BOOLEAN /\ fifodata = [on |-> fifodata.on, entries |-> fifodata.entries]
  /\ fifodata.entries \in Seq(Entry) /\ Len(fifodata.entries) <= 3 * FIFO_SETS
  /\ (~fifodata.on => fifodata.entries = <<>> /\ latch = <<>>)
  /\ handed \in Seq([1 .. 3 -> Int]) /\ offset \in [1 .. 3 -> Int]

\* The numbers of the measurements that were handed over, of the q under way, and of those in the FIFO.
Numbered(N, q) ==
  /\ Len(N) = Len(handed) + q + Len(fifo) /\ Len(TakenOut) = 3 * q
  /\ InOrder(N) /\ Lists(N, DOMAIN measured \ dropped)
  /\ \A k \in 1 .. Len(handed) : handed[k] = measured[N[k]]
  /\ \A k \in 1 .. q, a \in 1 .. 3 : TakenOut[3 * (k - 1) + a] = EntryOf(N[Len(handed) + k], measured[N[Len(handed) + k]])[a]
  /\ \A k \in 1 .. Len(fifo) : fifo[k] = EntryOf(N[Len(handed) + q + k], measured[N[Len(handed) + q + k]])
NumbersInv == \E N \in Seq(Nat), q \in Nat : Numbered(N, q)

\* What measureOffset() has added, and the mean it took last.
Total(a, m, n) == SumOver(Column(handed, a), m + 1 .. n)
OffsetInv ==
  /\ averaged \in Nat \X Nat /\ averaged[1] <= averaged[2] /\ averaged[2] <= Len(handed)
  /\ mean.on \in BOOLEAN /\ mean = [on |-> mean.on, count |-> mean.count, sum |-> mean.sum, st |-> mean.st]
  /\ mean.on => /\ offset = NoOffset /\ averaged[1] = averaged[2] /\ mean.count = Len(handed) - averaged[1]
                /\ mean.sum \in [1 .. 3 -> Int]
                /\ \A a \in 1 .. 3 : mean.sum[a] = Total(a, averaged[1], Len(handed))
  /\ averaged[1] # averaged[2] =>
        /\ averaged[2] - averaged[1] >= SAMPLES
        /\ \A a \in 1 .. 3 : offset[a] = Quotient(Total(a, averaged[1], averaged[2]), averaged[2] - averaged[1])

AdxlInv == AdxlTypeOK /\ NumbersInv /\ OffsetInv

LEMMA SeqOfFunction == ASSUME NEW n \in Nat, NEW S, NEW f \in [1 .. n -> S] PROVE f \in Seq(S) /\ Len(f) = n
  OBVIOUS

LEMMA EntryType ==
  ASSUME NEW n \in Nat, NEW m \in Measurements
  PROVE  /\ EntryOf(n, m) \in Seq(Entry) /\ Len(EntryOf(n, m)) = 3
         /\ \A a \in 1 .. 3 : EntryOf(n, m)[a] = <<n, a, m[a] % (2 * HalfAxis)>> /\ m[a] \in Int /\ m[a] % (2 * HalfAxis) \in Int
<1>1. \A a \in 1 .. 3 : m[a] \in Int /\ m[a] % (2 * HalfAxis) \in Int
  BY AdxlAssumption
<1>2. EntryOf(n, m) \in [1 .. 3 -> Entry]
  BY <1>1 DEF EntryOf, Entry
<1>3. EntryOf(n, m) \in Seq(Entry) /\ Len(EntryOf(n, m)) = 3
  <2> DEFINE f == EntryOf(n, m)
  <2> HIDE DEF f
  <2>1. f \in [1 .. 3 -> Entry]
    BY <1>2 DEF f
  <2>2. f \in Seq(Entry) /\ Len(f) = 3
    BY <2>1, SeqOfFunction
  <2> QED
    BY <2>2 DEF f
<1> QED
  BY <1>1, <1>3 DEF EntryOf

\* Between two arrays nothing is under way: the numbers are those of the property.
LEMMA KeptIs ==
  ASSUME NEW N \in Seq(Nat), NEW q \in Nat, Numbered(N, q), AdxlTypeOK, ~fifodata.on
  PROVE  handed \o InFifo = Kept
<1> DEFINE S == DOMAIN measured \ dropped
           n0 == Len(handed)
           f == Len(fifo)
           l == Len(N)
<1>1. q = 0 /\ l = n0 + f /\ n0 \in Nat /\ f \in Nat /\ l \in Nat
  <2>1. n0 \in Nat /\ f \in Nat /\ l \in Nat /\ l = n0 + q + f
    BY DEF Numbered, AdxlTypeOK
  <2>2. fifodata.entries = <<>> /\ latch = <<>>
    BY DEF AdxlTypeOK
  <2>3. Len(TakenOut) = 0
    BY <2>2 DEF TakenOut
  <2>4. Len(TakenOut) = 3 * q
    BY DEF Numbered
  <2>5. q = 0
    BY <2>3, <2>4
  <2> QED
    BY <2>1, <2>5
<1>2. Cardinality(S) = l /\ \A k \in 1 .. l : Nth(k, S) = N[k]
  <2>1. InOrder(N) /\ Lists(N, S)
    BY DEF Numbered
  <2> HIDE DEF S
  <2> QED
    BY <2>1, NthIs
<1>3. Kept = [k \in 1 .. l |-> measured[N[k]]]
  <2>1. Kept = [k \in 1 .. Cardinality(S) |-> measured[Nth(k, S)]]
    BY DEF Kept
  <2> HIDE DEF S, l
  <2> QED
    BY <1>2, <2>1
<1>4. InFifo = [k \in 1 .. f |-> measured[N[n0 + k]]]
  <2>1. DOMAIN fifo = 1 .. f
    BY DEF AdxlTypeOK
  <2>2. ASSUME NEW k \in 1 .. f PROVE measured[fifo[k][1][1]] = measured[N[n0 + k]]
    <3>1. n0 + k \in 1 .. l
      BY <1>1
    <3>2. fifo[k] = EntryOf(N[n0 + k], measured[N[n0 + k]])
      BY <1>1 DEF Numbered
    <3>3. fifo[k][1] = <<N[n0 + k], 1, measured[N[n0 + k]][1] % (2 * HalfAxis)>>
      BY <3>2 DEF EntryOf
    <3> QED
      BY <3>3
  <2> QED
    BY <2>1, <2>2 DEF InFifo
<1>5. \A k \in 1 .. n0 : handed[k] = measured[N[k]]
  BY DEF Numbered
<1>6. DOMAIN handed = 1 .. n0 /\ handed \in Seq([1 .. 3 -> Int])
  BY DEF AdxlTypeOK
<1>7. handed \o InFifo = [k \in 1 .. n0 + f |-> IF k <= n0 THEN handed[k] ELSE InFifo[k - n0]]
  <2> DEFINE g == InFifo
             T == [1 .. 3 -> Int]
  <2>1. DOMAIN measured = 1 .. Len(measured) /\ \A n \in DOMAIN measured : measured[n] \in T
    BY AdxlAssumption DEF AdxlTypeOK
  <2>2. \A k \in 1 .. l : N[k] \in DOMAIN measured
    BY DEF Numbered, Lists
  <2>3. \A k \in 1 .. f : n0 + k \in 1 .. l
    BY <1>1
  <2>4. g \in [1 .. f -> T]
    <3> HIDE DEF T, f, n0, l
    <3> QED
      BY <1>4, <2>1, <2>2, <2>3
  <2> HIDE DEF g, T
  <2>5. g \in Seq(T) /\ Len(g) = f /\ handed \in Seq(T)
    <3>1. g \in Seq(T) /\ Len(g) = f
      <4> HIDE DEF f
      <4> QED
        BY <1>1, <2>4, SeqOfFunction
    <3> QED
      BY <1>6, <3>1 DEF T
  <2>6. /\ handed \o g \in Seq(T) /\ Len(handed \o g) = n0 + f
        /\ \A k \in 1 .. n0 + f : (handed \o g)[k] = IF k <= n0 THEN handed[k] ELSE g[k - n0]
    <3>1. handed \o g \in Seq(T)
      BY <2>5, ConcatProperties
    <3>0. Len(handed \o g) = Len(handed) + Len(g)
      BY <2>5, ConcatProperties
    <3>2. Len(handed \o g) = n0 + f
      BY <2>5, <3>0
    <3>3. \A k \in 1 .. n0 + f : (handed \o g)[k] = IF k <= n0 THEN handed[k] ELSE g[k - n0]
      BY <2>5, ConcatProperties
    <3> QED
      BY <3>1, <3>2, <3>3
  <2> DEFINE c == handed \o g
  <2> HIDE DEF c
  <2>8. c = [k \in 1 .. n0 + f |-> IF k <= n0 THEN handed[k] ELSE g[k - n0]]
    <3>1. DOMAIN c = 1 .. n0 + f /\ c = [k \in DOMAIN c |-> c[k]]
      <4>1. c \in Seq(T) /\ Len(c) = n0 + f
        BY <2>6 DEF c
      <4> QED
        BY <4>1
    <3>2. \A k \in 1 .. n0 + f : c[k] = IF k <= n0 THEN handed[k] ELSE g[k - n0]
      BY <2>6 DEF c
    <3> HIDE DEF n0, f
    <3> QED
      BY <3>1, <3>2
  <2> QED
    BY <2>8 DEF c, g
<1>8. \A k \in 1 .. l : (IF k <= n0 THEN handed[k] ELSE InFifo[k - n0]) = measured[N[k]]
  <2>1. ASSUME NEW k \in 1 .. l, k <= n0 PROVE handed[k] = measured[N[k]]
    BY <1>5, <2>1
  <2>2. ASSUME NEW k \in 1 .. l, ~(k <= n0) PROVE InFifo[k - n0] = measured[N[k]]
    <3>1. k - n0 \in 1 .. f /\ n0 + (k - n0) = k
      BY <1>1, <2>2
    <3> QED
      BY <1>4, <3>1
  <2> QED
    BY <2>1, <2>2
<1> QED
  BY <1>1, <1>3, <1>7, <1>8

\* The mean is that of what was handed over in the meantime.
LEMMA AveragedIs ==
  ASSUME AdxlTypeOK, OffsetInv, Averaged # <<>>
  PROVE  /\ Len(Averaged) >= SAMPLES
         /\ \A a \in 1 .. 3 : offset[a] = Quotient(Added(NoOffset, Averaged)[a], Len(Averaged))
<1> DEFINE m == averaged[1]
           e == averaged[2]
           n == e - m
           n0 == Len(handed)
<1>1. m \in Nat /\ e \in Nat /\ m <= e /\ e <= n0 /\ n0 \in Nat /\ n \in Nat /\ handed \in Seq([1 .. 3 -> Int])
  BY DEF OffsetInv, AdxlTypeOK
<1>2. Averaged = SubSeq(handed, m + 1, e)
  BY DEF Averaged
<1>3. m # e
  BY <1>1, <1>2
<1>4. n >= SAMPLES /\ \A a \in 1 .. 3 : offset[a] = Quotient(Total(a, m, e), n)
  BY <1>3 DEF OffsetInv
<1> HIDE DEF m, e
<1>5. Len(Averaged) = n /\ DOMAIN Averaged = 1 .. n /\ \A k \in 1 .. n : Averaged[k] = handed[m + k] /\ m + k \in 1 .. n0
  BY <1>1, <1>2
<1>6. ASSUME NEW a \in 1 .. 3 PROVE Added(NoOffset, Averaged)[a] = Total(a, m, e)
  <2> DEFINE u == Column(Averaged, a)
             v == Column(handed, a)
  <2>1. \A k \in 1 .. n : u[k] \in Int /\ v[m + k] = u[k]
    <3> SUFFICES ASSUME NEW k \in 1 .. n PROVE u[k] \in Int /\ v[m + k] = u[k]
      OBVIOUS
    <3>1. u[k] = Averaged[k][a]
      BY <1>5 DEF Column
    <3>2. v[m + k] = handed[m + k][a]
      BY <1>1, <1>5 DEF Column
    <3>3. handed[m + k] \in [1 .. 3 -> Int]
      BY <1>1, <1>5, ElementOfSeq
    <3>4. handed[m + k][a] \in Int
      BY <3>3
    <3> QED
      BY <1>5, <3>1, <3>2, <3>4
  <2> HIDE DEF u, v
  <2>2. SumOver(u, 1 .. n) = SumOver(v, m + 1 .. m + n)
    <3> HIDE DEF n
    <3>1. m \in Nat /\ n \in Nat /\ FurtherOn(u, v, m, n)
      BY <1>1, <2>1 DEF FurtherOn
    <3> QED
      BY <3>1, SumShifted
  <2>3. m + n = e
    BY <1>1
  <2>4. Added(NoOffset, Averaged)[a] = NoOffset[a] + SumOver(u, 1 .. n)
    BY <1>5, AddedIs DEF u
  <2>5. NoOffset[a] = 0
    BY DEF NoOffset
  <2>6. SumOver(u, 1 .. n) \in Int
    <3>1. IsFiniteSet(1 .. n)
      BY <1>1, FS_Interval
    <3> QED
      BY <2>1, <3>1, SumTakes
  <2> QED
    BY <2>2, <2>3, <2>4, <2>5, <2>6 DEF Total, v
<1> QED
  BY <1>4, <1>5, <1>6

\* The FIFO drops its oldest measurement for the new one, if it is full.
LEMMA MeasureOrder ==
  ASSUME AdxlTypeOK, NumbersInv, Measure
  PROVE  AdxlTypeOK' /\ NumbersInv'
<1>0. PICK m \in Measurements : measured' = Append(measured, m)
        /\ fifo' = (IF Len(fifo) = FIFO_SETS THEN Tail(fifo) ELSE fifo) \o <<EntryOf(Len(measured'), m)>>
        /\ dropped' = IF Len(fifo) = FIFO_SETS THEN dropped \cup {fifo[1][1][1]} ELSE dropped
  BY DEF Measure
<1>u. UNCHANGED <<latch, clock, offset, fifodata, mean, handed, averaged>>
  BY DEF Measure
<1>1. PICK N \in Seq(Nat), q \in Nat : Numbered(N, q)
  BY DEF NumbersInv
<1>s. PICK s \in {0, 1} : s = 1 <=> Len(fifo) = FIFO_SETS
  OBVIOUS
<1>l. Len(measured) \in Nat /\ Len(handed) \in Nat /\ Len(fifo) \in Nat
  BY DEF AdxlTypeOK
<1>n. PICK new \in Nat : new = Len(measured) + 1 /\ new # 0
  BY <1>l
<1>p. PICK P \in Nat : P = Len(handed) + q /\ P >= Len(handed)
  BY <1>l
<1>f. PICK f \in Nat : f = Len(fifo)
  BY <1>l
<1>2. measured \in Seq(Measurements) /\ dropped \subseteq DOMAIN measured /\ fifo \in Seq(Seq(Entry)) /\ DOMAIN measured = 1 .. new - 1
  BY <1>n DEF AdxlTypeOK
<1>3. /\ measured' \in Seq(Measurements) /\ Len(measured') = new /\ DOMAIN measured' = 1 .. new
      /\ \A n \in DOMAIN measured : measured'[n] = measured[n]
      /\ measured'[new] = m
  BY <1>0, <1>2, <1>n
<1>4. /\ Len(N) = P + f /\ Len(TakenOut) = 3 * q /\ InOrder(N) /\ Lists(N, DOMAIN measured \ dropped)
      /\ \A k \in 1 .. Len(handed) : handed[k] = measured[N[k]]
      /\ \A k \in 1 .. q, a \in 1 .. 3 : TakenOut[3 * (k - 1) + a] = EntryOf(N[Len(handed) + k], measured[N[Len(handed) + k]])[a]
      /\ \A k \in 1 .. f : fifo[k] = EntryOf(N[P + k], measured[N[P + k]])
  <2>1. /\ Len(N) = Len(handed) + q + f /\ Len(TakenOut) = 3 * q /\ InOrder(N) /\ Lists(N, DOMAIN measured \ dropped)
        /\ \A k \in 1 .. Len(handed) : handed[k] = measured[N[k]]
        /\ \A k \in 1 .. q, a \in 1 .. 3 : TakenOut[3 * (k - 1) + a] = EntryOf(N[Len(handed) + k], measured[N[Len(handed) + k]])[a]
        /\ \A k \in 1 .. f : fifo[k] = EntryOf(N[Len(handed) + q + k], measured[N[Len(handed) + q + k]])
    BY <1>1, <1>f DEF Numbered
  <2> QED
    BY <1>p, <2>1
<1>5. f >= s /\ P + s <= Len(N) /\ P <= Len(N) /\ Len(N) \in Nat /\ new \in Nat
  BY <1>s, <1>f, <1>4, AdxlAssumption
<1>6. \A k \in 1 .. Len(N) : N[k] \in DOMAIN measured /\ N[k] \notin dropped
  BY <1>4 DEF Lists
<1>7. \A k \in 1 .. Len(N) : N[k] < new
  BY <1>2, <1>6
<1> DEFINE M == Renumbered(N, P, s, new)
<1>8. /\ M \in Seq(Nat) /\ Len(M) = Len(N) + 1 - s
      /\ \A k \in 1 .. P : M[k] = N[k]
      /\ \A k \in P + 1 .. Len(N) - s : M[k] = N[k + s]
      /\ M[Len(N) + 1 - s] = new
  <2>0. P + s <= Len(N)
    BY <1>5
  <2>1. RenumbersTo(M, N, P, s, new)
    BY <2>0, RenumberedIs
  <2> HIDE DEF M
  <2> QED
    BY <2>1 DEF RenumbersTo
<1>9. InOrder(M)
  BY <1>4, <1>5, <1>7, RenumberedOrder
<1>10. s = 1 => fifo[1][1][1] = N[P + 1]
  <2> SUFFICES ASSUME s = 1 PROVE fifo[1][1][1] = N[P + 1]
    OBVIOUS
  <2>1. fifo[1] = EntryOf(N[P + 1], measured[N[P + 1]])
    BY <1>4, <1>5
  <2>2. fifo[1][1] = <<N[P + 1], 1, measured[N[P + 1]][1] % (2 * HalfAxis)>>
    BY <2>1 DEF EntryOf
  <2> QED
    BY <2>2
<1>11. dropped' = IF s = 1 THEN dropped \cup {N[P + 1]} ELSE dropped
  BY <1>0, <1>s, <1>10
<1>12. Lists(M, DOMAIN measured' \ dropped')
  <2> DEFINE S == DOMAIN measured \ dropped
             T == DOMAIN measured' \ dropped'
  <2>1. \A n : n \in T <=> n = new \/ (n \in S /\ ~(s = 1 /\ n = N[P + 1]))
    <3>1. s = 1 => N[P + 1] # new
      <4>1. s = 1 => P + 1 \in 1 .. Len(N)
        BY <1>5
      <4> QED
        BY <1>7, <4>1
    <3>2. \A n : n \in DOMAIN measured' <=> n = new \/ n \in DOMAIN measured
      <4>1. new \in 1 .. new
        BY <1>n
      <4> HIDE DEF M, S, T
      <4>2. \A n : n \in 1 .. new <=> n = new \/ n \in 1 .. new - 1
        BY <1>n
      <4> QED
        BY <1>2, <1>3, <4>2
    <3>3. new \notin dropped
      BY <1>2
    <3>4. \A n : n \in dropped' <=> n \in dropped \/ (s = 1 /\ n = N[P + 1])
      BY <1>11
    <3> QED
      BY <3>1, <3>2, <3>3, <3>4
  <2>2. Lists(N, S)
    BY <1>4
  <2> HIDE DEF S, T
  <2>3. Lists(M, T)
    <3>1. InOrder(N) /\ P + s <= Len(N) /\ Lists(N, S) /\ new \in Nat
      BY <1>4, <1>5, <2>2
    <3>2. Lists(Renumbered(N, P, s, new), T)
      BY <2>1, <3>1, RenumberedLists
    <3> QED
      BY <3>2
  <2> QED
    BY <2>3 DEF T
<1> HIDE DEF M
<1>13. /\ fifo' \in Seq(Seq(Entry)) /\ Len(fifo') = f + 1 - s
       /\ \A k \in 1 .. f - s : fifo'[k] = fifo[k + s]
       /\ fifo'[f + 1 - s] = EntryOf(new, m)
  <2> DEFINE rest == IF Len(fifo) = FIFO_SETS THEN Tail(fifo) ELSE fifo
             e == EntryOf(new, m)
  <2>1. rest \in Seq(Seq(Entry)) /\ Len(rest) = f - s /\ \A k \in 1 .. f - s : rest[k] = fifo[k + s]
    <3>1. CASE s = 0
      BY <1>2, <1>s, <1>f, <3>1
    <3>2. CASE s = 1
      <4>1. fifo # <<>> /\ rest = Tail(fifo)
        BY <1>s, <1>f, <1>5, <3>2
      <4> QED
        BY <1>2, <1>f, <3>2, <4>1
    <3> QED
      BY <3>1, <3>2
  <2>2. e \in Seq(Entry)
    BY EntryType
  <2>3. fifo' = rest \o <<e>>
    BY <1>0, <1>3
  <2> HIDE DEF rest, e
  <2>4. fifo' = Append(rest, e)
    BY <2>1, <2>2, <2>3
  <2>5. /\ fifo' \in Seq(Seq(Entry)) /\ Len(fifo') = Len(rest) + 1
        /\ \A k \in 1 .. Len(rest) : fifo'[k] = rest[k]
        /\ fifo'[Len(rest) + 1] = e
    BY <2>1, <2>2, <2>4
  <2>6. Len(rest) = f - s /\ Len(rest) + 1 = f + 1 - s
    BY <1>5, <2>1
  <2> QED
    BY <2>1, <2>5, <2>6 DEF e
<1>14. TakenOut' = TakenOut /\ handed' = handed /\ Len(handed') = Len(handed) /\ Len(handed) \in Nat /\ handed \in Seq([1 .. 3 -> Int])
  BY <1>u DEF TakenOut, AdxlTypeOK
<1>15. Numbered(M, q)'
  <2>1. Len(M) = Len(handed') + q + Len(fifo') /\ Len(TakenOut') = 3 * q
    BY <1>4, <1>5, <1>8, <1>p, <1>13, <1>14
  <2>2. \A k \in 1 .. Len(handed) : handed'[k] = measured'[M[k]]
    <3> SUFFICES ASSUME NEW k \in 1 .. Len(handed) PROVE handed[k] = measured'[M[k]]
      BY <1>14
    <3>1. k \in 1 .. P /\ k \in 1 .. Len(N)
      <4>1. k \in Nat /\ 1 <= k /\ k <= Len(handed)
        BY <1>l
      <4> QED
        BY <1>l, <1>p, <1>5, <4>1
    <3>2. M[k] = N[k] /\ N[k] \in DOMAIN measured
      BY <1>6, <1>8, <3>1
    <3> QED
      BY <1>3, <1>4, <3>2
  <2>3. ASSUME NEW k \in 1 .. q, NEW a \in 1 .. 3
        PROVE  TakenOut'[3 * (k - 1) + a] = EntryOf(M[Len(handed) + k], measured'[M[Len(handed) + k]])[a]
    <3>1. Len(handed) + k \in 1 .. P /\ Len(handed) + k \in 1 .. Len(N)
      BY <1>p, <1>5, <1>14
    <3>2. M[Len(handed) + k] = N[Len(handed) + k] /\ N[Len(handed) + k] \in DOMAIN measured
      BY <1>6, <1>8, <3>1
    <3>3. measured'[M[Len(handed) + k]] = measured[N[Len(handed) + k]]
      BY <1>3, <3>2
    <3> QED
      BY <1>4, <1>14, <3>2, <3>3
  <2>4. ASSUME NEW k \in 1 .. Len(fifo') PROVE fifo'[k] = EntryOf(M[P + k], measured'[M[P + k]])
    <3>1. CASE k \in 1 .. f - s
      <4>1. P + k \in P + 1 .. Len(N) - s /\ k + s \in 1 .. f /\ P + k + s \in 1 .. Len(N) /\ P + (k + s) = P + k + s
        BY <1>4, <1>5, <3>1
      <4>2. M[P + k] = N[P + k + s] /\ N[P + k + s] \in DOMAIN measured
        BY <1>6, <1>8, <4>1
      <4>3. fifo'[k] = fifo[k + s] /\ fifo[k + s] = EntryOf(N[P + k + s], measured[N[P + k + s]])
        BY <1>4, <1>13, <3>1, <4>1
      <4>4. measured'[M[P + k]] = measured[N[P + k + s]]
        BY <1>3, <4>2
      <4> QED
        BY <4>2, <4>3, <4>4
    <3>2. CASE k = f + 1 - s
      <4>1. P + k = Len(N) + 1 - s
        BY <1>4, <1>5, <3>2
      <4>2. M[P + k] = new
        BY <1>8, <4>1
      <4> QED
        BY <1>3, <1>13, <3>2, <4>2
    <3>3. k \in 1 .. f - s \/ k = f + 1 - s
      BY <1>5, <1>13
    <3> QED
      BY <3>1, <3>2, <3>3
  <2>5. \A k \in 1 .. Len(fifo') : Len(handed') + q + k = P + k /\ Len(handed') = Len(handed)
    BY <1>p, <1>14
  <2> QED
    BY <1>9, <1>12, <1>14, <2>1, <2>2, <2>3, <2>4, <2>5 DEF Numbered
<1>16. NumbersInv'
  BY <1>8, <1>15 DEF NumbersInv
<1>17. dropped' \subseteq DOMAIN measured'
  <2>1. s = 1 => N[P + 1] \in DOMAIN measured
    <3>1. s = 1 => P + 1 \in 1 .. Len(N)
      BY <1>5
    <3> QED
      BY <1>6, <3>1
  <2> QED
    BY <1>2, <1>3, <1>11, <2>1
<1> QED
  BY <1>3, <1>13, <1>16, <1>17, <1>u DEF AdxlTypeOK

\* An entry taken off the front of a sequence and put behind another leaves the two together as they were.
LEMMA MovedOn ==
  ASSUME NEW S, NEW e \in Seq(S), NEW g \in Seq(S), g # <<>>
  PROVE  Append(e, g[1]) \o Tail(g) = e \o g
<1> DEFINE n == Len(e)
           l == Len(g)
           x == Append(e, g[1])
           y == Tail(g)
           c == x \o y
           d == e \o g
<1>1. n \in Nat /\ l \in Nat /\ l > 0 /\ g[1] \in S /\ x \in Seq(S) /\ y \in Seq(S)
  OBVIOUS
<1>2. Len(x) = n + 1 /\ Len(y) = l - 1
  BY <1>1
<1>3. /\ \A k \in 1 .. n : x[k] = e[k]
      /\ x[n + 1] = g[1]
      /\ \A k \in 1 .. l - 1 : y[k] = g[k + 1]
  BY <1>1
<1>4. c \in Seq(S) /\ d \in Seq(S)
  BY <1>1, ConcatProperties
<1>5. Len(c) = n + l
  <2>1. Len(c) = Len(x) + Len(y)
    BY <1>1, ConcatProperties
  <2> HIDE DEF c
  <2> QED
    BY <1>1, <1>2, <2>1
<1>6. Len(d) = n + l
  BY ConcatProperties
<1>7. \A k \in 1 .. n + l : c[k] = IF k <= n + 1 THEN x[k] ELSE y[k - (n + 1)]
  <2>1. \A k \in 1 .. Len(x) + Len(y) :
           c[k] = IF k <= Len(x) THEN x[k] ELSE y[k - Len(x)]
    BY <1>1, ConcatProperties
  <2>2. Len(x) + Len(y) = n + l
    BY <1>1, <1>2
  <2> HIDE DEF c
  <2> QED
    BY <1>2, <2>1, <2>2
<1>8. \A k \in 1 .. n + l : d[k] = IF k <= n THEN e[k] ELSE g[k - n]
  BY ConcatProperties
<1> HIDE DEF c, d, n, l, x, y
<1>9. \A k \in 1 .. n + l : c[k] = d[k]
  <2> SUFFICES ASSUME NEW k \in 1 .. n + l PROVE c[k] = d[k]
    OBVIOUS
  <2>1. CASE k <= n
    BY <1>1, <1>3, <1>7, <1>8, <2>1
  <2>2. CASE k = n + 1
    BY <1>1, <1>3, <1>7, <1>8, <2>2
  <2>3. CASE k > n + 1
    <3>1. k - (n + 1) \in 1 .. l - 1 /\ (k - (n + 1)) + 1 = k - n
      BY <1>1, <2>3
    <3>2. c[k] = y[k - (n + 1)] /\ d[k] = g[k - n]
      BY <1>1, <1>7, <1>8, <2>3
    <3> QED
      BY <1>3, <3>1, <3>2
  <2> QED
    BY <1>1, <2>1, <2>2, <2>3
<1>10. c = d
  <2>1. Len(c) = Len(d) /\ \A k \in 1 .. Len(c) : c[k] = d[k]
    BY <1>5, <1>6, <1>9
  <2> QED
    BY <1>4, <2>1, SeqEqual
<1> QED
  BY <1>10 DEF c, d, x, y

\* An entry is read: of the measurement under way, or of the next one the sensor gives out.
LEMMA ReadEntryOrder ==
  ASSUME AdxlTypeOK, NumbersInv, ReadEntry
  PROVE  AdxlTypeOK' /\ NumbersInv'
<1>1. PICK N \in Seq(Nat), q \in Nat : Numbered(N, q)
  BY DEF NumbersInv
<1>2. PICK given : given = IF latch = <<>> THEN fifo[1] ELSE latch
  OBVIOUS
<1>3. /\ fifodata.on /\ More /\ latch \o fifo # <<>>
      /\ fifodata' = [fifodata EXCEPT !.entries = Append(@, given[1])]
      /\ latch' = Tail(given)
      /\ fifo' = IF latch = <<>> THEN Tail(fifo) ELSE fifo
      /\ measured' = measured /\ dropped' = dropped /\ handed' = handed /\ offset' = offset
  BY <1>2 DEF ReadEntry
<1>4. PICK e \in Seq(Entry) : e = fifodata.entries /\ Len(e) < 3 * FIFO_SETS
  BY <1>3 DEF AdxlTypeOK, More
<1>5. fifodata = [on |-> TRUE, entries |-> e] /\ latch \in Seq(Entry) /\ Len(latch) <= 2 /\ fifo \in Seq(Seq(Entry))
  <2>1. fifodata = [on |-> fifodata.on, entries |-> fifodata.entries] /\ fifodata.on \in BOOLEAN
    BY DEF AdxlTypeOK
  <2> QED
    BY <1>3, <1>4, <2>1 DEF AdxlTypeOK
<1>6. fifodata' = [on |-> TRUE, entries |-> Append(e, given[1])]
  BY <1>3, <1>5
<1>7. TakenOut = e \o latch /\ TakenOut' = Append(e, given[1]) \o Tail(given)
  BY <1>3, <1>4, <1>6 DEF TakenOut
<1>8. /\ Len(N) = Len(handed) + q + Len(fifo) /\ Len(TakenOut) = 3 * q
      /\ InOrder(N) /\ Lists(N, DOMAIN measured \ dropped)
      /\ \A k \in 1 .. Len(handed) : handed[k] = measured[N[k]]
      /\ \A k \in 1 .. q, a \in 1 .. 3 : TakenOut[3 * (k - 1) + a] = EntryOf(N[Len(handed) + k], measured[N[Len(handed) + k]])[a]
      /\ \A k \in 1 .. Len(fifo) : fifo[k] = EntryOf(N[Len(handed) + q + k], measured[N[Len(handed) + q + k]])
  BY <1>1 DEF Numbered
<1>9. PICK r \in Nat, g \in Nat : r = Len(handed) /\ g = Len(fifo)
  <2>1. Len(handed) \in Nat /\ Len(fifo) \in Nat
    BY DEF AdxlTypeOK
  <2> QED
    BY <2>1
<1>10. ASSUME given \in Seq(Entry), given # <<>>, Len(given) <= 3, fifo' \in Seq(Seq(Entry)), NumbersInv'
       PROVE  AdxlTypeOK' /\ NumbersInv'
  <2>1. given[1] \in Entry /\ Tail(given) \in Seq(Entry) /\ Len(Tail(given)) <= 2
    BY <1>10
  <2>2. Append(e, given[1]) \in Seq(Entry) /\ Len(Append(e, given[1])) <= 3 * FIFO_SETS
    BY <1>4, <2>1, AdxlAssumption
  <2>3. fifodata'.on = TRUE /\ fifodata'.entries = Append(e, given[1])
    BY <1>6
  <2> QED
    BY <1>3, <1>6, <1>10, <2>1, <2>2, <2>3 DEF AdxlTypeOK
<1>11. CASE latch # <<>>
  <2>1. given = latch /\ fifo' = fifo
    BY <1>2, <1>3, <1>11
  <2>2. TakenOut' = TakenOut
    BY <1>5, <1>7, <1>11, <2>1, MovedOn
  <2>3. Numbered(N, q)'
    BY <1>3, <1>8, <2>1, <2>2 DEF Numbered
  <2>4. NumbersInv'
    BY <2>3 DEF NumbersInv
  <2> QED
    BY <1>5, <1>10, <1>11, <2>1, <2>4
<1>12. CASE latch = <<>>
  <2>1. given = fifo[1] /\ fifo' = Tail(fifo) /\ fifo # <<>>
    BY <1>2, <1>3, <1>5, <1>12
  <2>2. g > 0 /\ Len(N) = r + q + g /\ Len(N) \in Nat
    BY <1>5, <1>8, <1>9, <2>1
  <2>3. PICK n \in Nat : n = N[r + q + 1] /\ n \in DOMAIN measured
    <3>1. r + q + 1 \in 1 .. Len(N)
      BY <2>2
    <3> QED
      BY <1>8, <3>1 DEF Lists
  <2>4. PICK m \in Measurements : m = measured[n]
    <3>0. measured \in Seq(Measurements)
      BY DEF AdxlTypeOK
    <3>1. n \in 1 .. Len(measured)
      BY <2>3, <3>0
    <3> QED
      BY <3>0, <3>1, ElementOfSeq
  <2>5. given = EntryOf(n, m)
    <3>1. 1 \in 1 .. Len(fifo)
      BY <1>9, <2>2
    <3>2. fifo[1] = EntryOf(N[Len(handed) + q + 1], measured[N[Len(handed) + q + 1]])
      BY <1>8, <3>1
    <3> QED
      BY <1>9, <2>1, <2>3, <2>4, <3>2
  <2>6. given \in Seq(Entry) /\ Len(given) = 3
    BY <2>5, EntryType
  <2>7. given # <<>> /\ Len(given) <= 3
    <3>1. Len(<<>>) = 0
      OBVIOUS
    <3>2. Len(given) = 3
      BY <2>6
    <3>3. given # <<>>
      <4> SUFFICES ASSUME given = <<>> PROVE FALSE
        OBVIOUS
      <4>1. Len(given) = 0
        BY <3>1
      <4> QED
        BY <3>2, <4>1
    <3>4. Len(given) <= 3
      BY <3>2
    <3> QED
      BY <3>3, <3>4
  <2>8. TakenOut = e /\ Len(e) = 3 * q
    BY <1>5, <1>7, <1>8, <1>12
  <2>9. TakenOut' = e \o given
    BY <1>7, <2>6, <2>7, MovedOn
  <2>10. /\ Len(e \o given) = 3 * q + 3
         /\ \A k \in 1 .. 3 * q : (e \o given)[k] = e[k]
         /\ \A a \in 1 .. 3 : (e \o given)[3 * q + a] = given[a]
    <3>1. Len(e \o given) = Len(e) + Len(given)
      BY <2>6, ConcatProperties
    <3>2. \A k \in 1 .. Len(e) + Len(given) : (e \o given)[k] = IF k <= Len(e) THEN e[k] ELSE given[k - Len(e)]
      BY <2>6, ConcatProperties
    <3>3. Len(e) = 3 * q /\ Len(given) = 3
      BY <2>6, <2>8
    <3> DEFINE c == e \o given
    <3> HIDE DEF c
    <3>4. \A k \in 1 .. 3 * q : c[k] = e[k]
      BY <3>2, <3>3 DEF c
    <3>5. ASSUME NEW a \in 1 .. 3 PROVE c[3 * q + a] = given[a]
      <4>1. 3 * q + a \in 1 .. 3 * q + 3 /\ ~(3 * q + a <= 3 * q) /\ (3 * q + a) - 3 * q = a
        OBVIOUS
      <4> QED
        BY <3>2, <3>3, <4>1 DEF c
    <3> QED
      BY <3>1, <3>3, <3>4, <3>5 DEF c
  <2>11. /\ fifo' \in Seq(Seq(Entry)) /\ Len(fifo') = g - 1
         /\ \A k \in 1 .. g - 1 : fifo'[k] = fifo[k + 1]
    <3>1. g = Len(fifo) /\ fifo' = Tail(fifo) /\ fifo # <<>> /\ fifo \in Seq(Seq(Entry))
      BY <1>5, <1>9, <2>1
    <3> QED
      BY <3>1
  <2>12. Numbered(N, q + 1)'
    <3>1. Len(N) = Len(handed') + (q + 1) + Len(fifo') /\ Len(TakenOut') = 3 * (q + 1)
      <4>1. Len(handed') = r /\ Len(fifo') = g - 1 /\ Len(TakenOut') = 3 * q + 3
        BY <1>3, <1>9, <2>9, <2>10, <2>11
      <4>2. Len(N) = r + (q + 1) + (g - 1) /\ 3 * q + 3 = 3 * (q + 1)
        BY <2>2
      <4> QED
        BY <4>1, <4>2
    <3>2. ASSUME NEW k \in 1 .. q + 1, NEW a \in 1 .. 3
          PROVE  TakenOut'[3 * (k - 1) + a] = EntryOf(N[r + k], measured[N[r + k]])[a]
      <4>1. CASE k \in 1 .. q
        <5>1. 3 * (k - 1) + a \in 1 .. 3 * q
          BY <4>1
        <5>2. TakenOut'[3 * (k - 1) + a] = TakenOut[3 * (k - 1) + a]
          BY <2>8, <2>9, <2>10, <5>1
        <5> QED
          BY <1>8, <1>9, <4>1, <5>2
      <4>2. CASE k = q + 1
        <5>1. 3 * (k - 1) + a = 3 * q + a /\ r + k = r + q + 1
          BY <4>2
        <5>2. TakenOut'[3 * q + a] = EntryOf(n, m)[a]
          BY <2>5, <2>9, <2>10
        <5> QED
          BY <2>3, <2>4, <5>1, <5>2
      <4> QED
        BY <4>1, <4>2
    <3>3. ASSUME NEW k \in 1 .. g - 1
          PROVE  fifo'[k] = EntryOf(N[r + (q + 1) + k], measured[N[r + (q + 1) + k]])
      <4>1. k + 1 \in 1 .. g /\ r + (q + 1) + k = r + q + (k + 1)
        BY <1>9
      <4>2. fifo[k + 1] = EntryOf(N[r + q + (k + 1)], measured[N[r + q + (k + 1)]])
        BY <1>8, <1>9, <4>1
      <4> QED
        BY <2>11, <4>1, <4>2
    <3> QED
      BY <1>3, <1>8, <1>9, <2>11, <3>1, <3>2, <3>3 DEF Numbered
  <2>13. q + 1 \in Nat
    OBVIOUS
  <2>14. NumbersInv'
    BY <2>12, <2>13 DEF NumbersInv
  <2> QED
    BY <1>10, <2>6, <2>7, <2>11, <2>14
<1> QED
  BY <1>11, <1>12

\* A whole array of entries is the measurements it was read from.
LEMMA SortedIs ==
  ASSUME AdxlTypeOK, NEW N \in Seq(Nat), NEW q \in Nat, Numbered(N, q), latch = <<>>
  PROVE  /\ DOMAIN Sorted = 1 .. q /\ Len(Sorted) = q
         /\ \A k \in 1 .. q : /\ measured[N[Len(handed) + k]] \in Measurements
                              /\ DOMAIN Sorted[k] = 1 .. 3
                              /\ \A a \in 1 .. 3 : Sorted[k][a] = measured[N[Len(handed) + k]][a] - offset[a]
<1>1. PICK r \in Nat, e \in Seq(Entry) : r = Len(handed) /\ e = fifodata.entries
  <2>1. Len(handed) \in Nat /\ fifodata.entries \in Seq(Entry)
    BY DEF AdxlTypeOK
  <2> QED
    BY <2>1
<1>2. TakenOut = e
  BY <1>1 DEF TakenOut
<1>3. Len(e) = 3 * q
  <2>1. Len(TakenOut) = 3 * q
    BY DEF Numbered
  <2> QED
    BY <1>2, <2>1
<1>4. (Len(e) + 2) \div 3 = q
  BY <1>3
<1>5. Sorted = [k \in 1 .. q |-> [a \in 1 .. 3 |-> EntryAt(3 * (k - 1) + a) - offset[a]]]
  BY <1>1, <1>4 DEF Sorted
<1>6. DOMAIN Sorted = 1 .. q /\ Len(Sorted) = q
  BY <1>5
<1>7. \A k \in 1 .. q : measured[N[r + k]] \in Measurements /\ N[r + k] \in Nat
  <2> SUFFICES ASSUME NEW k \in 1 .. q PROVE measured[N[r + k]] \in Measurements /\ N[r + k] \in Nat
    OBVIOUS
  <2>1. r + k \in 1 .. Len(N)
    <3>1. Len(N) = r + q + Len(fifo)
      BY <1>1 DEF Numbered
    <3>2. Len(fifo) \in Nat
      BY DEF AdxlTypeOK
    <3> QED
      BY <3>1, <3>2
  <2>2. N[r + k] \in DOMAIN measured /\ N[r + k] \in Nat
    BY <2>1, ElementOfSeq DEF Numbered, Lists
  <2>3. measured \in Seq(Measurements)
    BY DEF AdxlTypeOK
  <2>4. N[r + k] \in 1 .. Len(measured)
    BY <2>2, <2>3
  <2> QED
    BY <2>2, <2>3, <2>4, ElementOfSeq
<1>8. ASSUME NEW k \in 1 .. q, NEW a \in 1 .. 3
      PROVE  EntryAt(3 * (k - 1) + a) = measured[N[r + k]][a]
  <2>1. PICK m \in Measurements, n \in Nat : n = N[r + k] /\ m = measured[n]
    BY <1>7
  <2>2. 3 * (k - 1) + a \in Int /\ 3 * (k - 1) + a <= Len(e)
    BY <1>3
  <2>3. e[3 * (k - 1) + a] = EntryOf(n, m)[a]
    BY <1>1, <1>2, <2>1 DEF Numbered
  <2>4. EntryOf(n, m)[a] = <<n, a, m[a] % (2 * HalfAxis)>>
    BY EntryType
  <2>5. e[3 * (k - 1) + a][3] = m[a] % (2 * HalfAxis)
    BY <2>3, <2>4
  <2>6. EntryAt(3 * (k - 1) + a) = Signed(m[a] % (2 * HalfAxis), HalfAxis)
    BY <1>1, <2>2, <2>5 DEF EntryAt, FifoToAxisdata
  <2>7. HalfAxis \in Nat \ {0} /\ m[a] \in -HalfAxis .. HalfAxis - 1
    BY AdxlAssumption
  <2>8. Signed(m[a] % (2 * HalfAxis), HalfAxis) = m[a]
    BY <2>7, SignBack
  <2> QED
    BY <2>1, <2>6, <2>8
<1>9. \A k \in 1 .. q : DOMAIN Sorted[k] = 1 .. 3 /\ \A a \in 1 .. 3 : Sorted[k][a] = measured[N[r + k]][a] - offset[a]
  BY <1>5, <1>8
<1> QED
  BY <1>1, <1>6, <1>7, <1>9

\* An array ends with a whole measurement: a full one holds as many, and the sensor gives out all of one.
LEMMA ReadsWhole ==
  ASSUME AdxlTypeOK, NEW N \in Seq(Nat), NEW q \in Nat, Numbered(N, q), ~More \/ latch \o fifo = <<>>
  PROVE  latch = <<>>
<1>1. latch \in Seq(Entry) /\ fifo \in Seq(Seq(Entry)) /\ fifodata.entries \in Seq(Entry) /\ Len(latch) <= 2
  BY DEF AdxlTypeOK
<1>2. CASE ~More
  <2>1. Len(fifodata.entries) = 3 * FIFO_SETS
    <3>1. Len(fifodata.entries) <= 3 * FIFO_SETS /\ Len(fifodata.entries) \in Nat
      BY <1>1 DEF AdxlTypeOK
    <3> QED
      BY <1>2, <3>1, AdxlAssumption DEF More
  <2>2. Len(TakenOut) = 3 * q
    BY DEF Numbered
  <2>3. Len(TakenOut) = Len(fifodata.entries) + Len(latch)
    BY <1>1, ConcatProperties DEF TakenOut
  <2>4. Len(latch) = 0
    BY <1>1, <2>1, <2>2, <2>3, AdxlAssumption
  <2> QED
    BY <1>1, <2>4, EmptySeq
<1>3. CASE latch \o fifo = <<>>
  BY <1>1, <1>3
<1> QED
  BY <1>2, <1>3

\* What the sketch is given at the end of an array, and which measurements it is.
Gains(N, q) ==
  /\ handed' \in Seq([1 .. 3 -> Int]) /\ Len(handed') = Len(handed) + q
  /\ \A k \in 1 .. Len(handed) : handed'[k] = handed[k]
  /\ \A k \in 1 .. q : handed'[Len(handed) + k] = measured[N[Len(handed) + k]]

LEMMA GainsIs ==
  ASSUME AdxlTypeOK, ReadEnds, NEW N \in Seq(Nat), NEW q \in Nat, Numbered(N, q)
  PROVE  latch = <<>> /\ Gains(N, q)
<1>1. latch = <<>>
  BY ReadsWhole DEF ReadEnds
<1> DEFINE T == [1 .. 3 -> Int]
           gained == [k \in DOMAIN Sorted |-> [a \in 1 .. 3 |-> Sorted[k][a] + offset[a]]]
<1>2. handed' = handed \o gained /\ handed \in Seq(T) /\ offset \in T
  BY DEF ReadEnds, AdxlTypeOK
<1>3. PICK r \in Nat : r = Len(handed)
  BY <1>2
<1>4. DOMAIN gained = 1 .. q
  BY <1>1, SortedIs
<1>5. ASSUME NEW k \in 1 .. q PROVE gained[k] = measured[N[r + k]] /\ gained[k] \in T
  <2>1. PICK m \in Measurements : m = measured[N[r + k]]
    BY <1>1, <1>3, SortedIs
  <2>2. m \in T /\ m = [a \in 1 .. 3 |-> m[a]] /\ \A a \in 1 .. 3 : m[a] \in Int
    BY AdxlAssumption
  <2>3. \A a \in 1 .. 3 : Sorted[k][a] = m[a] - offset[a]
    BY <1>1, <1>3, <2>1, SortedIs
  <2>4. \A a \in 1 .. 3 : Sorted[k][a] + offset[a] = m[a]
    BY <1>2, <2>2, <2>3
  <2>5. gained[k] = [a \in 1 .. 3 |-> Sorted[k][a] + offset[a]]
    BY <1>4
  <2>6. gained[k] = m
    BY <2>2, <2>4, <2>5
  <2> QED
    BY <2>1, <2>2, <2>6
<1>6. gained \in Seq(T) /\ Len(gained) = q
  <2>1. gained = [k \in 1 .. q |-> gained[k]]
    BY <1>4
  <2> HIDE DEF gained
  <2>2. gained \in [1 .. q -> T]
    BY <1>5, <2>1
  <2> QED
    BY <2>2, SeqOfFunction
<1> HIDE DEF gained, T
<1>7. handed' \in Seq(T) /\ Len(handed') = r + q
  <2>1. handed' \in Seq(T)
    BY <1>2, <1>6, ConcatProperties
  <2>2. Len(handed \o gained) = Len(handed) + Len(gained)
    BY <1>2, <1>6, ConcatProperties
  <2> QED
    BY <1>2, <1>3, <1>6, <2>1, <2>2
<1>8. \A k \in 1 .. r + q : handed'[k] = IF k <= r THEN handed[k] ELSE gained[k - r]
  <2>1. \A k \in 1 .. Len(handed) + Len(gained) : (handed \o gained)[k] = IF k <= Len(handed) THEN handed[k] ELSE gained[k - Len(handed)]
    BY <1>2, <1>6, ConcatProperties
  <2> QED
    BY <1>2, <1>3, <1>6, <2>1
<1>9. \A k \in 1 .. r : handed'[k] = handed[k]
  <2>1. \A k \in 1 .. r : k \in 1 .. r + q /\ k <= r
    OBVIOUS
  <2> QED
    BY <1>8, <2>1
<1>10. \A k \in 1 .. q : handed'[r + k] = gained[k]
  <2>1. \A k \in 1 .. q : r + k \in 1 .. r + q /\ ~(r + k <= r) /\ (r + k) - r = k
    OBVIOUS
  <2> QED
    BY <1>8, <2>1
<1> QED
  BY <1>1, <1>3, <1>5, <1>7, <1>9, <1>10 DEF Gains, T

LEMMA ReadEndsOrder ==
  ASSUME AdxlTypeOK, NumbersInv, ReadEnds, offset' \in [1 .. 3 -> Int]
  PROVE  AdxlTypeOK' /\ NumbersInv'
<1>1. PICK N \in Seq(Nat), q \in Nat : Numbered(N, q)
  BY DEF NumbersInv
<1>2. latch = <<>> /\ Gains(N, q)
  BY <1>1, GainsIs
<1>3. UNCHANGED <<measured, dropped, fifo, latch, clock>> /\ fifodata' = NoRead
  BY DEF ReadEnds
<1>4. PICK r \in Nat, f \in Nat : r = Len(handed) /\ f = Len(fifo)
  <2>1. Len(handed) \in Nat /\ Len(fifo) \in Nat
    BY DEF AdxlTypeOK
  <2> QED
    BY <2>1
<1>5. TakenOut' = <<>>
  BY <1>2, <1>3 DEF TakenOut, NoRead
<1>6. Len(N) = r + q + f /\ Len(handed') = r + q
  BY <1>1, <1>2, <1>4 DEF Numbered, Gains
<1>7. ASSUME NEW k \in 1 .. r + q PROVE handed'[k] = measured[N[k]]
  <2>1. CASE k \in 1 .. r
    BY <1>1, <1>2, <1>4, <2>1 DEF Numbered, Gains
  <2>2. CASE k \in r + 1 .. r + q
    <3>1. k - r \in 1 .. q /\ r + (k - r) = k
      BY <2>2
    <3>2. handed'[r + (k - r)] = measured[N[r + (k - r)]]
      BY <1>2, <1>4, <3>1 DEF Gains
    <3> QED
      BY <3>1, <3>2
  <2> QED
    BY <2>1, <2>2
<1>8. ASSUME NEW k \in 1 .. f PROVE fifo[k] = EntryOf(N[(r + q) + 0 + k], measured[N[(r + q) + 0 + k]])
  <2>1. fifo[k] = EntryOf(N[r + q + k], measured[N[r + q + k]])
    BY <1>1, <1>4 DEF Numbered
  <2>2. (r + q) + 0 + k = r + q + k
    OBVIOUS
  <2> QED
    BY <2>1, <2>2
<1>9. Numbered(N, 0)'
  <2>1. Len(N) = Len(handed') + 0 + Len(fifo')
    BY <1>3, <1>4, <1>6
  <2>2. Len(TakenOut') = 3 * 0
    BY <1>5
  <2>3. InOrder(N) /\ Lists(N, DOMAIN measured' \ dropped')
    BY <1>1, <1>3 DEF Numbered
  <2>4. \A k \in 1 .. Len(handed') : handed'[k] = measured'[N[k]]
    BY <1>3, <1>6, <1>7
  <2>5. \A k \in 1 .. 0, a \in 1 .. 3 : TakenOut'[3 * (k - 1) + a] = EntryOf(N[Len(handed') + k], measured'[N[Len(handed') + k]])[a]
    OBVIOUS
  <2>6. \A k \in 1 .. Len(fifo') : fifo'[k] = EntryOf(N[Len(handed') + 0 + k], measured'[N[Len(handed') + 0 + k]])
    BY <1>3, <1>4, <1>6, <1>8
  <2> QED
    BY <2>1, <2>2, <2>3, <2>4, <2>5, <2>6 DEF Numbered
<1>10. NumbersInv'
  BY <1>9 DEF NumbersInv
<1>11. handed' \in Seq([1 .. 3 -> Int])
  BY <1>2 DEF Gains
<1>12. fifodata' = [on |-> fifodata'.on, entries |-> fifodata'.entries] /\ fifodata'.on = FALSE /\ fifodata'.entries = <<>>
  BY <1>3 DEF NoRead
<1>13. fifodata'.entries \in Seq(Entry) /\ Len(fifodata'.entries) <= 3 * FIFO_SETS
  <2>1. <<>> \in Seq(Entry) /\ Len(<<>>) = 0 /\ 0 <= 3 * FIFO_SETS
    BY AdxlAssumption
  <2> QED
    BY <1>12, <2>1
<1> QED
  BY <1>2, <1>3, <1>10, <1>11, <1>12, <1>13 DEF AdxlTypeOK

\* Sums of an axis over part of what was handed over.
LEMMA TotalIsInt ==
  ASSUME NEW u \in Seq([1 .. 3 -> Int]), NEW a \in 1 .. 3, NEW m \in Nat, NEW n \in Nat, n <= Len(u)
  PROVE  /\ \A k \in m + 1 .. n : Column(u, a)[k] = u[k][a] /\ u[k][a] \in Int
         /\ SumOver(Column(u, a), m + 1 .. n) \in Int
<1>1. ASSUME NEW k \in m + 1 .. n PROVE Column(u, a)[k] = u[k][a] /\ u[k][a] \in Int
  <2>1. k \in 1 .. Len(u) /\ k \in DOMAIN u
    OBVIOUS
  <2>2. u[k] \in [1 .. 3 -> Int]
    BY <2>1, ElementOfSeq
  <2> QED
    BY <2>1, <2>2 DEF Column
<1>2. \A k \in m + 1 .. n : Column(u, a)[k] \in Int
  BY <1>1
<1>3. IsFiniteSet(m + 1 .. n)
  BY FS_Interval
<1> QED
  BY <1>1, <1>2, <1>3, SumTakes

LEMMA Difference ==
  ASSUME NEW m \in Nat, NEW n \in Nat, m <= n
  PROVE  \E l \in Nat : m + l = n /\ \A k \in 1 .. l : m + k \in m + 1 .. n /\ m + k \in 1 .. n
<1> DEFINE l == n - m
<1>1. l \in Nat /\ m + l = n
  OBVIOUS
<1>2. \A k \in 1 .. l : m + k \in m + 1 .. n /\ m + k \in 1 .. n
  OBVIOUS
<1> HIDE DEF l
<1> QED
  BY <1>1, <1>2

LEMMA TotalKept ==
  ASSUME NEW u \in Seq([1 .. 3 -> Int]), NEW v \in Seq([1 .. 3 -> Int]), NEW a \in 1 .. 3, NEW m \in Nat, NEW n \in Nat,
         m <= n, n <= Len(u), n <= Len(v), \A k \in 1 .. n : v[k] = u[k]
  PROVE  SumOver(Column(v, a), m + 1 .. n) = SumOver(Column(u, a), m + 1 .. n)
<1>0. \E l \in Nat : m + l = n /\ \A k \in 1 .. l : m + k \in m + 1 .. n /\ m + k \in 1 .. n
  BY Difference, ZenonT(20)
<1>4. PICK l \in Nat : m + l = n /\ \A k \in 1 .. l : m + k \in m + 1 .. n /\ m + k \in 1 .. n
  BY <1>0
<1> DEFINE w == [k \in 1 .. l |-> u[m + k][a]]
           x == Column(u, a)
           y == Column(v, a)
<1>1. \A k \in m + 1 .. n : x[k] = u[k][a] /\ u[k][a] \in Int
  BY TotalIsInt
<1>2. \A k \in m + 1 .. n : y[k] = v[k][a] /\ v[k][a] \in Int
  BY TotalIsInt
<1> HIDE DEF x, y
<1>3. ASSUME NEW k \in 1 .. l PROVE w[k] \in Int /\ x[m + k] = w[k] /\ y[m + k] = w[k]
  <2>1. m + k \in m + 1 .. n /\ m + k \in 1 .. n /\ w[k] = u[m + k][a]
    BY <1>4
  <2> HIDE DEF w
  <2> QED
    BY <1>1, <1>2, <2>1
<1> HIDE DEF w
<1>5. SumOver(w, 1 .. l) = SumOver(x, m + 1 .. m + l)
  <2>1. \A k \in 1 .. l : w[k] \in Int /\ x[m + k] = w[k]
    BY <1>3, <1>4
  <2>2. FurtherOn(w, x, m, l)
    BY <2>1 DEF FurtherOn
  <2> QED
    BY <2>2, SumShifted
<1>6. SumOver(w, 1 .. l) = SumOver(y, m + 1 .. m + l)
  <2>1. \A k \in 1 .. l : w[k] \in Int /\ y[m + k] = w[k]
    BY <1>3, <1>4
  <2>2. FurtherOn(w, y, m, l)
    BY <2>1 DEF FurtherOn
  <2> QED
    BY <2>2, SumShifted
<1> QED
  BY <1>4, <1>5, <1>6 DEF x, y

LEMMA TotalGrows ==
  ASSUME NEW v \in Seq([1 .. 3 -> Int]), NEW a \in 1 .. 3, NEW m \in Nat, NEW n \in Nat, NEW l \in Nat, m <= n, n <= l, l <= Len(v)
  PROVE  SumOver(Column(v, a), m + 1 .. l) = SumOver(Column(v, a), m + 1 .. n) + SumOver(Column(v, a), n + 1 .. l)
<1> DEFINE y == Column(v, a)
           I == m + 1 .. n
           J == n + 1 .. l
           K == m + 1 .. l
<1>2. \A k \in m + 1 .. l : y[k] \in Int
  <2>1. \A k \in m + 1 .. l : Column(v, a)[k] = v[k][a] /\ v[k][a] \in Int
    BY TotalIsInt
  <2> QED
    BY <2>1
<1>3. \A k : k \in K <=> k \in I \/ k \in J
  OBVIOUS
<1>4. \A k : ~(k \in I /\ k \in J)
  OBVIOUS
<1>5. IsFiniteSet(I) /\ IsFiniteSet(J)
  <2>1. m + 1 \in Int /\ n + 1 \in Int /\ l \in Int /\ n \in Int
    OBVIOUS
  <2> QED
    BY <2>1, FS_Interval
<1>6. \A k \in K : y[k] \in Int
  BY <1>2
<1> HIDE DEF y, I, J, K
<1>7. K = I \cup J /\ I \cap J = {}
  BY <1>3, <1>4
<1>8. \A k \in I \cup J : y[k] \in Int
  BY <1>6, <1>7
<1>9. SumOver(y, I \cup J) = SumOver(y, I) + SumOver(y, J)
  BY <1>5, <1>7, <1>8, SumSplit
<1> QED
  BY <1>7, <1>9 DEF y, I, J, K

LEMMA QuotientType == ASSUME NEW s \in Int, NEW n \in Nat \ {0} PROVE Quotient(s, n) \in Int
<1>1. s \div n \in Int /\ (-s) \div n \in Int
  OBVIOUS
<1> QED
  BY <1>1 DEF Quotient

\* The offset's part of the invariant stays when the mean and what it is taken of do.
LEMMA OffsetStays ==
  ASSUME OffsetInv, AdxlTypeOK, UNCHANGED <<offset, averaged, handed>>, mean'.on = mean.on, mean'.count = mean.count,
         mean'.sum = mean.sum, mean' = [on |-> mean'.on, count |-> mean'.count, sum |-> mean'.sum, st |-> mean'.st]
  PROVE  OffsetInv'
  BY DEF OffsetInv, Total

\* At the end of an array its measurements are added, or the mean is the offset.
LEMMA ReadEndsOffset ==
  ASSUME AdxlTypeOK, NumbersInv, OffsetInv, ReadEnds
  PROVE  offset' \in [1 .. 3 -> Int] /\ OffsetInv'
<1>1. PICK N \in Seq(Nat), q \in Nat : Numbered(N, q)
  BY DEF NumbersInv
<1>2. latch = <<>> /\ Gains(N, q)
  BY <1>1, GainsIs
<1> DEFINE T == [1 .. 3 -> Int]
<1>3. PICK u \in Seq(T), v \in Seq(T), r \in Nat : u = handed /\ v = handed' /\ r = Len(u)
  <2>1. handed \in Seq(T) /\ handed' \in Seq(T)
    BY <1>2 DEF AdxlTypeOK, Gains
  <2> QED
    BY <2>1
<1> HIDE DEF T
<1>4. /\ Len(v) = r + q
      /\ \A k \in 1 .. r : v[k] = u[k]
      /\ \A k \in 1 .. q : v[r + k] = measured[N[r + k]]
  BY <1>2, <1>3 DEF Gains
<1>5. PICK b \in Nat, e \in Nat : averaged = <<b, e>> /\ b <= e /\ e <= r
  <2>1. averaged \in Nat \X Nat /\ averaged[1] <= averaged[2] /\ averaged[2] <= r
    BY <1>3 DEF OffsetInv
  <2> QED
    BY <2>1
<1>6. /\ mean.on \in BOOLEAN /\ mean = [on |-> mean.on, count |-> mean.count, sum |-> mean.sum, st |-> mean.st]
      /\ offset \in [1 .. 3 -> Int]
  BY DEF OffsetInv, AdxlTypeOK
<1>7. CASE ~mean.on
  <2>1. mean' = mean /\ offset' = offset /\ averaged' = averaged
    BY <1>7 DEF ReadEnds
  <2>2. b # e => /\ e - b >= SAMPLES
                 /\ \A a \in 1 .. 3 : offset[a] = Quotient(SumOver(Column(u, a), b + 1 .. e), e - b)
    BY <1>3, <1>5 DEF OffsetInv, Total
  <2>3. \A a \in 1 .. 3 : SumOver(Column(v, a), b + 1 .. e) = SumOver(Column(u, a), b + 1 .. e)
    <3> SUFFICES ASSUME NEW a \in 1 .. 3 PROVE SumOver(Column(v, a), b + 1 .. e) = SumOver(Column(u, a), b + 1 .. e)
      OBVIOUS
    <3>1. e <= Len(u) /\ e <= Len(v) /\ \A k \in 1 .. e : v[k] = u[k]
      BY <1>3, <1>4, <1>5
    <3> QED
      BY <1>5, <3>1, TotalKept DEF T
  <2>4. e <= Len(v)
    BY <1>4, <1>5
  <2> QED
    BY <1>3, <1>5, <1>6, <1>7, <2>1, <2>2, <2>3, <2>4 DEF OffsetInv, Total
<1>8. CASE mean.on
  <2>1. /\ offset = NoOffset /\ b = e /\ mean.count = r - b /\ mean.sum \in [1 .. 3 -> Int]
        /\ \A a \in 1 .. 3 : mean.sum[a] = SumOver(Column(u, a), b + 1 .. r)
    BY <1>3, <1>5, <1>8 DEF OffsetInv, Total
  <2>2. PICK count \in Nat : count = mean.count + Len(Sorted) /\ count = (r + q) - b
    <3>1. Len(Sorted) = q
      BY <1>1, <1>2, SortedIs
    <3>2. mean.count + Len(Sorted) = (r + q) - b /\ (r + q) - b \in Nat
      BY <1>5, <2>1, <3>1
    <3> QED
      BY <3>2
  <2>9. PICK sum : sum = Added(mean.sum, Sorted)
    OBVIOUS
  <2>8. /\ b <= r /\ r <= Len(u) /\ r <= Len(v) /\ r + q <= Len(v)
        /\ u \in Seq([1 .. 3 -> Int]) /\ v \in Seq([1 .. 3 -> Int])
        /\ \A k \in 1 .. r : v[k] = u[k]
    BY <1>3, <1>4, <1>5 DEF T
  <2>10. ASSUME NEW a \in 1 .. 3
         PROVE  SumOver(Column(v, a), b + 1 .. r) = SumOver(Column(u, a), b + 1 .. r)
    BY <2>8, TotalKept
  <2>11. ASSUME NEW a \in 1 .. 3
         PROVE  SumOver(Column(v, a), b + 1 .. r + q) = SumOver(Column(v, a), b + 1 .. r) + SumOver(Column(v, a), r + 1 .. r + q)
    <3>1. PICK l \in Nat : l = r + q
      OBVIOUS
    <3>2. r <= l /\ l <= Len(v)
      BY <2>8, <3>1
    <3>3. SumOver(Column(v, a), b + 1 .. l) = SumOver(Column(v, a), b + 1 .. r) + SumOver(Column(v, a), r + 1 .. l)
      BY <2>8, <3>2, TotalGrows
    <3> QED
      BY <3>1, <3>3
  <2>3. ASSUME NEW a \in 1 .. 3
        PROVE  sum[a] = SumOver(Column(v, a), b + 1 .. r + q) /\ sum[a] \in Int
    <3> DEFINE x == Column(Sorted, a)
               y == Column(v, a)
    <3>1. sum[a] = mean.sum[a] + SumOver(x, 1 .. q)
      <4>1. DOMAIN Sorted = 1 .. q
        BY <1>1, <1>2, SortedIs
      <4> QED
        BY <2>9, <4>1, AddedIs
    <3>2. ASSUME NEW k \in 1 .. q PROVE x[k] \in Int /\ y[r + k] = x[k]
      <4>1. x[k] = Sorted[k][a]
        <5>1. DOMAIN Sorted = 1 .. q
          BY <1>1, <1>2, SortedIs
        <5> QED
          BY <5>1 DEF Column
      <4>2. Sorted[k][a] = measured[N[r + k]][a] - offset[a] /\ measured[N[r + k]] \in Measurements
        BY <1>1, <1>2, <1>3, SortedIs
      <4>3. offset[a] = 0
        BY <2>1 DEF NoOffset
      <4>4. measured[N[r + k]][a] \in Int
        <5>1. PICK d \in Measurements : d = measured[N[r + k]]
          BY <4>2
        <5>2. d[a] \in Int
          BY AdxlAssumption
        <5> QED
          BY <5>1, <5>2
      <4>5. x[k] = measured[N[r + k]][a] /\ x[k] \in Int
        <5> HIDE DEF x
        <5> QED
          BY <4>1, <4>2, <4>3, <4>4
      <4>6. y[r + k] = v[r + k][a]
        <5>1. r + k \in 1 .. Len(v) /\ r + k \in DOMAIN v
          BY <1>4
        <5> QED
          BY <5>1 DEF Column
      <4> QED
        BY <1>4, <4>5, <4>6
    <3> HIDE DEF x, y
    <3>3. SumOver(x, 1 .. q) = SumOver(y, r + 1 .. r + q)
      <4>1. FurtherOn(x, y, r, q)
        BY <3>2 DEF FurtherOn
      <4> QED
        BY <4>1, SumShifted
    <3>4. SumOver(y, b + 1 .. r) = SumOver(Column(u, a), b + 1 .. r)
      BY <2>10 DEF y
    <3>5. SumOver(y, b + 1 .. r + q) = SumOver(y, b + 1 .. r) + SumOver(y, r + 1 .. r + q)
      BY <2>11 DEF y
    <3>6. SumOver(y, b + 1 .. r + q) \in Int
      <4>1. PICK l \in Nat : l = r + q /\ l <= Len(v)
        BY <1>4
      <4> QED
        BY <4>1, TotalIsInt DEF T, y
    <3>7. sum[a] = SumOver(y, b + 1 .. r + q)
      BY <2>1, <3>1, <3>3, <3>4, <3>5
    <3> QED
      BY <3>6, <3>7 DEF y
  <2>4. sum = [a \in 1 .. 3 |-> sum[a]]
    BY <2>9 DEF Added
  <2>5. sum \in [1 .. 3 -> Int]
    BY <2>3, <2>4
  <2>6. CASE count < SAMPLES
    <3>1. mean' = [mean EXCEPT !.count = count, !.sum = sum] /\ offset' = offset /\ averaged' = averaged
      BY <1>8, <2>2, <2>6, <2>9 DEF ReadEnds
    <3>2. mean' = [on |-> TRUE, count |-> count, sum |-> sum, st |-> mean.st]
      BY <1>6, <1>8, <3>1
    <3>3. averaged'[1] = b /\ averaged'[2] = b /\ averaged' \in Nat \X Nat /\ b <= r + q /\ b <= b
      BY <1>5, <2>1, <3>1
    <3>4. mean'.on = TRUE /\ mean'.count = count /\ mean'.sum = sum
      BY <3>2
    <3>5. /\ mean'.on \in BOOLEAN /\ offset' = NoOffset /\ averaged'[1] = averaged'[2]
          /\ mean' = [on |-> mean'.on, count |-> mean'.count, sum |-> mean'.sum, st |-> mean'.st]
      BY <2>1, <3>1, <3>2, <3>3, <3>4
    <3>6. Len(handed') = r + q /\ mean'.count = Len(handed') - averaged'[1] /\ averaged'[2] <= Len(handed')
      BY <1>3, <1>4, <2>2, <3>3, <3>4
    <3>7. \A a \in 1 .. 3 : mean'.sum[a] = SumOver(Column(handed', a), averaged'[1] + 1 .. Len(handed'))
      BY <1>3, <2>3, <3>3, <3>4, <3>6
    <3>8. averaged'[1] <= averaged'[2]
      BY <3>3
    <3> QED
      BY <1>6, <2>1, <2>5, <3>1, <3>3, <3>4, <3>5, <3>6, <3>7, <3>8 DEF OffsetInv, Total
  <2>7. CASE ~(count < SAMPLES)
    <3>1. mean' = NoMean /\ offset' = [a \in 1 .. 3 |-> Quotient(sum[a], count)] /\ averaged' = <<b, r + q>>
      BY <1>3, <1>4, <1>5, <1>8, <2>2, <2>7, <2>9 DEF ReadEnds
    <3>2. count \in Nat \ {0} /\ count >= SAMPLES
      BY <2>7, AdxlAssumption
    <3>3. offset' \in [1 .. 3 -> Int]
      BY <2>3, <3>1, <3>2, QuotientType
    <3>4. mean'.on = FALSE /\ mean' = [on |-> mean'.on, count |-> mean'.count, sum |-> mean'.sum, st |-> mean'.st]
      BY <3>1 DEF NoMean
    <3>5. /\ averaged'[1] = b /\ averaged'[2] = r + q /\ averaged' \in Nat \X Nat /\ b <= r + q /\ r + q <= Len(v)
      BY <1>4, <1>5, <3>1
    <3>6. \A a \in 1 .. 3 : offset'[a] = Quotient(SumOver(Column(v, a), b + 1 .. r + q), (r + q) - b)
      BY <2>2, <2>3, <3>1
    <3> QED
      BY <1>3, <2>2, <3>2, <3>3, <3>4, <3>5, <3>6 DEF OffsetInv, Total
  <2> QED
    BY <2>6, <2>7
<1> QED
  BY <1>6, <1>7, <1>8

\* Steps that leave the measurements where they are, and that begin with an array.
LEMMA OrderStays ==
  ASSUME AdxlTypeOK, NumbersInv, UNCHANGED <<measured, dropped, fifo, latch, handed, fifodata>>, offset' \in [1 .. 3 -> Int]
  PROVE  AdxlTypeOK' /\ NumbersInv'
<1>1. PICK N \in Seq(Nat), q \in Nat : Numbered(N, q)
  BY DEF NumbersInv
<1>2. TakenOut' = TakenOut
  BY DEF TakenOut
<1>3. Numbered(N, q)'
  BY <1>1, <1>2 DEF Numbered
<1>4. NumbersInv'
  BY <1>3 DEF NumbersInv
<1> QED
  BY <1>4 DEF AdxlTypeOK

LEMMA BeginReadOrder ==
  ASSUME AdxlTypeOK, NumbersInv, ~fifodata.on, BeginRead, UNCHANGED <<measured, dropped, fifo, latch, handed, offset>>
  PROVE  AdxlTypeOK' /\ NumbersInv'
<1>1. PICK N \in Seq(Nat), q \in Nat : Numbered(N, q)
  BY DEF NumbersInv
<1>2. fifodata' = [on |-> TRUE, entries |-> <<>>] /\ fifodata.entries = <<>>
  BY DEF BeginRead, NoRead, AdxlTypeOK
<1>3. TakenOut' = TakenOut
  BY <1>2 DEF TakenOut
<1>4. Numbered(N, q)'
  BY <1>1, <1>3 DEF Numbered
<1>5. NumbersInv'
  BY <1>4 DEF NumbersInv
<1>6. /\ fifodata'.on = TRUE /\ fifodata'.entries = <<>>
      /\ fifodata' = [on |-> fifodata'.on, entries |-> fifodata'.entries]
  BY <1>2
<1>7. <<>> \in Seq(Entry) /\ Len(<<>>) <= 3 * FIFO_SETS
  BY AdxlAssumption
<1> QED
  BY <1>5, <1>6, <1>7 DEF AdxlTypeOK

\* measureOffset() begins with no offset, and with nothing to take the mean of.
LEMMA MeasureOffsetKeeps ==
  ASSUME AdxlInv, MeasureOffset
  PROVE  AdxlInv'
<1>1. /\ ~mean.on /\ ~fifodata.on /\ offset' = NoOffset /\ averaged' = <<Len(handed), Len(handed)>>
      /\ mean' = [NoMean EXCEPT !.on = TRUE, !.st = Signed(clock, HalfClock)]
      /\ UNCHANGED <<measured, dropped, fifo, latch, handed, fifodata>>
  BY DEF MeasureOffset
<1>2. NoOffset \in [1 .. 3 -> Int] /\ \A a \in 1 .. 3 : NoOffset[a] = 0
  BY DEF NoOffset
<1>3. AdxlTypeOK' /\ NumbersInv'
  BY <1>1, <1>2, OrderStays DEF AdxlInv
<1>4. mean' = [on |-> TRUE, count |-> 0, sum |-> NoOffset, st |-> Signed(clock, HalfClock)]
  BY <1>1 DEF NoMean, NoOffset
<1>5. /\ mean'.on = TRUE /\ mean'.count = 0 /\ mean'.sum = NoOffset
      /\ mean' = [on |-> mean'.on, count |-> mean'.count, sum |-> mean'.sum, st |-> mean'.st]
  BY <1>4
<1>6. PICK r \in Nat : r = Len(handed)
  <2>1. Len(handed) \in Nat
    BY DEF AdxlInv, AdxlTypeOK
  <2> QED
    BY <2>1
<1>7. averaged' \in Nat \X Nat /\ averaged'[1] = r /\ averaged'[2] = r /\ Len(handed') = r /\ r <= r
  BY <1>1, <1>6
<1>8. \A a \in 1 .. 3 : NoOffset[a] = Total(a, r, r)'
  <2>1. r + 1 .. r = {}
    OBVIOUS
  <2>2. \A a \in 1 .. 3 : SumOver(Column(handed', a), r + 1 .. r) = 0
    BY <2>1, SumEmpty
  <2> QED
    BY <1>2, <2>2 DEF Total
<1>9. 0 = r - r
  OBVIOUS
<1>10. OffsetInv'
  BY <1>1, <1>2, <1>5, <1>7, <1>8, <1>9 DEF OffsetInv, Total
<1> QED
  BY <1>3, <1>10 DEF AdxlInv

\* A poll begins with an array or does not.
LEMMA PollKeeps ==
  ASSUME AdxlInv, Poll
  PROVE  AdxlInv'
<1>1. /\ ~fifodata.on /\ UNCHANGED <<measured, dropped, fifo, latch, offset, handed, averaged>>
      /\ (mean' = [mean EXCEPT !.st = Signed(clock, HalfClock)] /\ BeginRead) \/ UNCHANGED <<mean, fifodata>>
  BY DEF Poll
<1>2. mean = [on |-> mean.on, count |-> mean.count, sum |-> mean.sum, st |-> mean.st] /\ offset \in [1 .. 3 -> Int]
  BY DEF AdxlInv, OffsetInv, AdxlTypeOK
<1>3. CASE mean' = [mean EXCEPT !.st = Signed(clock, HalfClock)] /\ BeginRead
  <2>1. AdxlTypeOK' /\ NumbersInv'
    BY <1>1, <1>3, BeginReadOrder DEF AdxlInv
  <2>2. mean' = [on |-> mean.on, count |-> mean.count, sum |-> mean.sum, st |-> Signed(clock, HalfClock)]
    BY <1>2, <1>3
  <2>3. /\ mean'.on = mean.on /\ mean'.count = mean.count /\ mean'.sum = mean.sum
        /\ mean' = [on |-> mean'.on, count |-> mean'.count, sum |-> mean'.sum, st |-> mean'.st]
    BY <2>2
  <2>4. OffsetInv'
    BY <1>1, <2>3, OffsetStays DEF AdxlInv
  <2> QED
    BY <2>1, <2>4 DEF AdxlInv
<1>4. CASE UNCHANGED <<mean, fifodata>>
  <2>1. AdxlTypeOK' /\ NumbersInv'
    BY <1>1, <1>2, <1>4, OrderStays DEF AdxlInv
  <2>2. OffsetInv'
    BY <1>1, <1>2, <1>4, OffsetStays DEF AdxlInv
  <2> QED
    BY <2>1, <2>2 DEF AdxlInv
<1> QED
  BY <1>1, <1>3, <1>4

LEMMA AdxlInitInv ==
  ASSUME AdxlInit
  PROVE  AdxlInv
<1>1. /\ measured = <<>> /\ dropped = {} /\ fifo = <<>> /\ latch = <<>>
      /\ offset = NoOffset /\ fifodata = NoRead /\ mean = NoMean /\ handed = <<>> /\ averaged = <<0, 0>>
  BY DEF AdxlInit
<1>2. fifodata = [on |-> FALSE, entries |-> <<>>] /\ fifodata.on = FALSE /\ fifodata.entries = <<>>
  BY <1>1 DEF NoRead
<1>3. NoOffset \in [1 .. 3 -> Int]
  BY DEF NoOffset
<1>4. AdxlTypeOK
  <2>1. <<>> \in Seq(Entry) /\ <<>> \in Seq(Seq(Entry)) /\ Len(<<>>) <= 3 * FIFO_SETS /\ Len(<<>>) <= 2
        /\ <<>> \in Seq(Measurements) /\ <<>> \in Seq([1 .. 3 -> Int])
    BY AdxlAssumption
  <2> QED
    BY <1>1, <1>2, <1>3, <2>1 DEF AdxlTypeOK
<1>5. NumbersInv
  <2> DEFINE e == <<>>
  <2>1. e \in Seq(Nat) /\ Len(e) = 0
    OBVIOUS
  <2>2. InOrder(e)
    BY DEF InOrder
  <2>3. DOMAIN measured \ dropped = {}
    BY <1>1
  <2>4. Lists(e, {})
    BY DEF Lists
  <2>5. TakenOut = <<>>
    BY <1>1, <1>2 DEF TakenOut
  <2>6. Numbered(e, 0)
    BY <1>1, <2>1, <2>2, <2>3, <2>4, <2>5 DEF Numbered
  <2>7. 0 \in Nat
    OBVIOUS
  <2> HIDE DEF e
  <2>8. \E N \in Seq(Nat), q \in Nat : Numbered(N, q)
    BY <2>1, <2>6, <2>7
  <2> QED
    BY <2>8 DEF NumbersInv
<1>6. OffsetInv
  <2>1. mean.on = FALSE /\ mean = [on |-> mean.on, count |-> mean.count, sum |-> mean.sum, st |-> mean.st]
    BY <1>1 DEF NoMean
  <2>2. averaged \in Nat \X Nat /\ averaged[1] = 0 /\ averaged[2] = 0 /\ Len(handed) = 0
    BY <1>1
  <2>3. averaged[1] <= averaged[2] /\ averaged[2] <= Len(handed)
    BY <2>2
  <2>5. mean.on \in BOOLEAN
    BY <2>1
  <2>4. ~mean.on /\ ~(averaged[1] # averaged[2])
    BY <2>1, <2>2
  <2> QED
    BY <2>1, <2>2, <2>3, <2>4, <2>5 DEF OffsetInv
<1> QED
  BY <1>4, <1>5, <1>6 DEF AdxlInv

LEMMA AdxlNextInv ==
  ASSUME AdxlInv, [AdxlNext]_adxlVars
  PROVE  AdxlInv'
<1>0. /\ mean.on \in BOOLEAN /\ mean = [on |-> mean.on, count |-> mean.count, sum |-> mean.sum, st |-> mean.st]
      /\ offset \in [1 .. 3 -> Int]
  BY DEF AdxlInv, OffsetInv, AdxlTypeOK
<1>1. CASE Measure
  <2>1. AdxlTypeOK' /\ NumbersInv'
    BY <1>1, MeasureOrder DEF AdxlInv
  <2>2. UNCHANGED <<offset, averaged, handed, mean>>
    BY <1>1 DEF Measure
  <2>3. OffsetInv'
    BY <1>0, <2>2, OffsetStays DEF AdxlInv
  <2> QED
    BY <2>1, <2>3 DEF AdxlInv
<1>2. CASE ReadAllFromFifo
  <2>1. /\ ~fifodata.on /\ BeginRead /\ UNCHANGED <<measured, dropped, fifo, latch, handed, offset>>
        /\ UNCHANGED <<averaged, mean>>
    BY <1>2 DEF ReadAllFromFifo
  <2>2. AdxlTypeOK' /\ NumbersInv'
    BY <2>1, BeginReadOrder DEF AdxlInv
  <2>3. OffsetInv'
    BY <1>0, <2>1, OffsetStays DEF AdxlInv
  <2> QED
    BY <2>2, <2>3 DEF AdxlInv
<1>3. CASE MeasureOffset
  BY <1>3, MeasureOffsetKeeps
<1>4. CASE ReadEntry
  <2>1. AdxlTypeOK' /\ NumbersInv'
    BY <1>4, ReadEntryOrder DEF AdxlInv
  <2>2. UNCHANGED <<offset, averaged, handed, mean>>
    BY <1>4 DEF ReadEntry
  <2>3. OffsetInv'
    BY <1>0, <2>2, OffsetStays DEF AdxlInv
  <2> QED
    BY <2>1, <2>3 DEF AdxlInv
<1>5. CASE ReadEnds
  <2>1. offset' \in [1 .. 3 -> Int] /\ OffsetInv'
    BY <1>5, ReadEndsOffset DEF AdxlInv
  <2>2. AdxlTypeOK' /\ NumbersInv'
    BY <1>5, <2>1, ReadEndsOrder DEF AdxlInv
  <2> QED
    BY <2>1, <2>2 DEF AdxlInv
<1>6. CASE Poll
  BY <1>6, PollKeeps
<1>7. CASE UNCHANGED adxlVars
  <2>1. UNCHANGED <<measured, dropped, fifo, latch, handed, fifodata>> /\ UNCHANGED <<offset, averaged, mean>>
    BY <1>7 DEF adxlVars
  <2>2. AdxlTypeOK' /\ NumbersInv'
    BY <1>0, <2>1, OrderStays DEF AdxlInv
  <2>3. OffsetInv'
    BY <1>0, <2>1, OffsetStays DEF AdxlInv
  <2> QED
    BY <2>2, <2>3 DEF AdxlInv
<1> QED
  BY <1>1, <1>2, <1>3, <1>4, <1>5, <1>6, <1>7 DEF AdxlNext, Driver

\* (cf_adxl357.cpp 96-106, 153-241) What the sketch gets are the sensor's measurements, whole, each once and
\* in their order, but for those a full FIFO has dropped, and the offset is the mean of those
\* measureOffset() has got: whatever the sensor's width, the FIFO's depth and the number of samples are.
THEOREM MeasurementsKeptHolds == AdxlInit /\ [][AdxlNext]_adxlVars => []MeasurementsKept
<1>1. AdxlInit => AdxlInv
  BY AdxlInitInv
<1>2. AdxlInv /\ [AdxlNext]_adxlVars => AdxlInv'
  BY AdxlNextInv
<1>3. AdxlInv => MeasurementsKept
  <2> SUFFICES ASSUME AdxlInv, ~fifodata.on
               PROVE  /\ handed \o InFifo = Kept
                      /\ Averaged # <<>> => /\ Len(Averaged) >= SAMPLES
                                            /\ \A a \in 1 .. 3 : offset[a] = Quotient(Added(NoOffset, Averaged)[a], Len(Averaged))
    BY DEF MeasurementsKept
  <2>1. handed \o InFifo = Kept
    BY KeptIs DEF AdxlInv, NumbersInv
  <2>2. Averaged # <<>> => /\ Len(Averaged) >= SAMPLES
                           /\ \A a \in 1 .. 3 : offset[a] = Quotient(Added(NoOffset, Averaged)[a], Len(Averaged))
    BY AveragedIs DEF AdxlInv
  <2> QED
    BY <2>1, <2>2
<1> QED
  BY <1>1, <1>2, <1>3, PTL

-----------------------------------------------------------------------------
(* The shapes of a display. *)

LEMMA MinTwo ==
  ASSUME NEW a \in Int, NEW b \in Int
  PROVE  Min({a, b}) = IF a <= b THEN a ELSE b
<1>1. \E x \in {a, b} : \A y \in {a, b} : x <= y
  OBVIOUS
<1> QED
  BY <1>1 DEF Min

LEMMA MaxTwo ==
  ASSUME NEW a \in Int, NEW b \in Int
  PROVE  Max({a, b}) = IF a <= b THEN b ELSE a
<1>1. \E x \in {a, b} : \A y \in {a, b} : x >= y
  OBVIOUS
<1> QED
  BY <1>1 DEF Max

\* A row of drawLine(), the function of all columns that Rows chooses, and what is known of it
LineRow == [y : Int, err : Int]
RowsAre(f, y0, dx, dy, ystep) ==
    f = [k \in 0 .. dx |-> IF k = 0 THEN [y |-> y0, err |-> dx \div 2] ELSE NextRow(f[k - 1], dx, dy, ystep)]

LEMMA RowsExist ==
  ASSUME NEW y0 \in Int, NEW dx \in Nat, NEW dy \in Int, NEW ystep \in Int
  PROVE  \E f \in [0 .. dx -> LineRow] : RowsAre(f, y0, dx, dy, ystep)
<1> DEFINE base == [y |-> y0, err |-> dx \div 2]
           step == [i \in 0 .. dx - 1 |-> [l \in LineRow |-> NextRow(l, dx, dy, ystep)]]
<1>1. base \in LineRow
  BY DEF LineRow
<1>2. step \in [0 .. dx - 1 -> [LineRow -> LineRow]]
  <2>1. ASSUME NEW l \in LineRow PROVE NextRow(l, dx, dy, ystep) \in LineRow
    BY DEF NextRow, LineRow
  <2> QED
    BY <2>1
<1>3. PICK f \in [0 .. dx -> LineRow] : f[0] = base /\ \A i \in 0 .. dx - 1 : f[i + 1] = step[i][f[i]]
  <2> HIDE DEF step, base
  <2>1. \E f : LoopRun(f, dx, LineRow, base, step)
    BY <1>1, <1>2, LoopExists
  <2> QED
    BY <2>1 DEF LoopRun
<1>4. ASSUME NEW n \in 0 .. dx, n # 0 PROVE f[n] = NextRow(f[n - 1], dx, dy, ystep)
  <2>1. n - 1 \in 0 .. dx - 1 /\ n - 1 \in 0 .. dx /\ (n - 1) + 1 = n
    BY <1>4
  <2>2. f[(n - 1) + 1] = step[n - 1][f[n - 1]] /\ f[n - 1] \in LineRow
    BY <1>3, <2>1
  <2> QED
    BY <2>1, <2>2
<1> QED
  BY <1>3, <1>4 DEF RowsAre

RowsRun(f, y0, dx, dy, ystep) == /\ f \in [0 .. dx -> LineRow]
                                 /\ f[0] = [y |-> y0, err |-> dx \div 2]
                                 /\ \A k \in 0 .. dx - 1 : f[k + 1] = NextRow(f[k], dx, dy, ystep)

LEMMA RowsStep ==
  ASSUME NEW y0 \in Int, NEW dx \in Nat, NEW dy \in Int, NEW ystep \in Int
  PROVE  RowsRun(Rows(y0, dx, dy, ystep), y0, dx, dy, ystep)
<1> DEFINE f == Rows(y0, dx, dy, ystep)
<1>1. RowsAre(f, y0, dx, dy, ystep)
  <2>1. f = CHOOSE g : RowsAre(g, y0, dx, dy, ystep)
    BY DEF Rows, RowsAre
  <2> QED
    BY <2>1, RowsExist
<1> HIDE DEF f
<1>3. f[0] = [y |-> y0, err |-> dx \div 2] /\ DOMAIN f = 0 .. dx
  BY <1>1 DEF RowsAre
<1>4. ASSUME NEW k \in 0 .. dx - 1 PROVE f[k + 1] = NextRow(f[k], dx, dy, ystep)
  <2>1. k + 1 \in 0 .. dx /\ k + 1 # 0 /\ (k + 1) - 1 = k
    OBVIOUS
  <2> QED
    BY <1>1, <2>1 DEF RowsAre
<1>5. f \in [0 .. dx -> LineRow]
  <2> DEFINE R == {n \in Nat : n <= dx => f[n] \in LineRow}
  <2>1. 0 \in R
    BY <1>3 DEF LineRow
  <2>2. ASSUME NEW n \in Nat, n \in R PROVE n + 1 \in R
    <3>1. CASE n + 1 <= dx
      <4>1. n \in 0 .. dx - 1 /\ f[n] \in LineRow
        BY <2>2, <3>1
      <4>2. f[n + 1] = NextRow(f[n], dx, dy, ystep)
        BY <1>4, <4>1
      <4>3. NextRow(f[n], dx, dy, ystep) \in LineRow
        BY <4>1 DEF NextRow, LineRow
      <4> QED
        BY <4>2, <4>3
    <3> QED
      BY <3>1
  <2>3. Nat \subseteq R
    <3> HIDE DEF R
    <3> QED
      BY <2>1, <2>2, SetInduction
  <2>4. \A k \in 0 .. dx : f[k] \in LineRow
    BY <2>3
  <2>5. f = [k \in 0 .. dx |-> f[k]]
    BY <1>1 DEF RowsAre
  <2> QED
    BY <2>4, <2>5
<1>6. RowsRun(f, y0, dx, dy, ystep)
  BY <1>3, <1>4, <1>5 DEF RowsRun
<1> QED
  BY <1>6 DEF f

\* The error term is what the row is off by.
RowTrue(l, y0, dx, dy, ystep, k) ==
    \E j \in Nat : l.y = y0 + ystep * j /\ l.err = (dx \div 2) - k * dy + j * dx /\ 0 <= l.err /\ l.err < dx

LEMMA RowKeepsTrue ==
  ASSUME NEW y0 \in Int, NEW dx \in Nat \ {0}, NEW dy \in 0 .. dx, NEW ystep \in {-1, 1},
         NEW k \in Nat, NEW l \in LineRow, RowTrue(l, y0, dx, dy, ystep, k)
  PROVE  RowTrue(NextRow(l, dx, dy, ystep), y0, dx, dy, ystep, k + 1)
<1> DEFINE tall == dx \div 2
           m == NextRow(l, dx, dy, ystep)
<1>1. PICK j \in Nat : l.y = y0 + ystep * j /\ l.err = tall - k * dy + j * dx /\ 0 <= l.err /\ l.err < dx
  BY DEF RowTrue
<1>2. l.y \in Int /\ l.err \in Int /\ tall \in Int
  BY DEF LineRow
<1>3. (k + 1) * dy = k * dy + dy /\ (j + 1) * dx = j * dx + dx /\ k * dy \in Int /\ j * dx \in Int
      /\ ystep * (j + 1) = ystep * j + ystep /\ ystep * j \in Int
  OBVIOUS
<1>4. CASE l.err >= dy
  <2>1. m.y = l.y /\ m.err = l.err - dy
    BY <1>4 DEF NextRow, LineRow
  <2>2. m.y = y0 + ystep * j /\ m.err = tall - (k + 1) * dy + j * dx /\ 0 <= m.err /\ m.err < dx
    <3> HIDE DEF m, tall
    <3> QED
      BY <1>1, <1>2, <1>3, <1>4, <2>1
  <2> QED
    BY <2>2 DEF RowTrue
<1>5. CASE l.err < dy
  <2>1. m.y = l.y + ystep /\ m.err = l.err - dy + dx
    BY <1>5, <1>2 DEF NextRow
  <2>2. m.y = y0 + ystep * (j + 1) /\ m.err = tall - (k + 1) * dy + (j + 1) * dx /\ 0 <= m.err /\ m.err < dx
    <3> HIDE DEF m, tall
    <3> QED
      BY <1>1, <1>2, <1>3, <1>5, <2>1
  <2>3. j + 1 \in Nat
    OBVIOUS
  <2> QED
    BY <2>2, <2>3 DEF RowTrue
<1> QED
  BY <1>2, <1>4, <1>5

LEMMA RowsTrue ==
  ASSUME NEW y0 \in Int, NEW dx \in Nat \ {0}, NEW dy \in 0 .. dx, NEW ystep \in {-1, 1},
         NEW f, f = Rows(y0, dx, dy, ystep), NEW k \in 0 .. dx
  PROVE  RowTrue(f[k], y0, dx, dy, ystep, k)
<1> DEFINE R == {n \in Nat : n <= dx => RowTrue(f[n], y0, dx, dy, ystep, n)}
<1>0. dy \in Int /\ ystep \in Int /\ dx \in Nat
  OBVIOUS
<1>1. /\ f \in [0 .. dx -> LineRow] /\ f[0] = [y |-> y0, err |-> dx \div 2]
      /\ \A i \in 0 .. dx - 1 : f[i + 1] = NextRow(f[i], dx, dy, ystep)
  <2>1. RowsRun(f, y0, dx, dy, ystep)
    BY <1>0, RowsStep
  <2> QED
    BY <2>1 DEF RowsRun
<1>2. 0 \in R
  <2>1. f[0].y = y0 + ystep * 0 /\ f[0].err = (dx \div 2) - 0 * dy + 0 * dx /\ 0 <= f[0].err /\ f[0].err < dx
    BY <1>1
  <2> QED
    BY <2>1 DEF RowTrue
<1>3. ASSUME NEW n \in Nat, n \in R PROVE n + 1 \in R
  <2>1. CASE n + 1 <= dx
    <3>1. n \in 0 .. dx - 1 /\ n \in 0 .. dx /\ RowTrue(f[n], y0, dx, dy, ystep, n)
      BY <1>3, <2>1
    <3>2. f[n] \in LineRow /\ f[n + 1] = NextRow(f[n], dx, dy, ystep)
      BY <1>1, <3>1
    <3> QED
      BY <3>1, <3>2, RowKeepsTrue
  <2> QED
    BY <2>1
<1>4. Nat \subseteq R
  <2> HIDE DEF R
  <2> QED
    BY <1>2, <1>3, SetInduction
<1> QED
  BY <1>4

\* A row that is off by less than half a step is between the two ends, and at its ends on them.
LEMMA RowBetween ==
  ASSUME NEW dx \in Nat \ {0}, NEW dy \in 0 .. dx, NEW k \in 0 .. dx, NEW j \in Nat, NEW e \in 0 .. dx - 1,
         e = (dx \div 2) - k * dy + j * dx
  PROVE  /\ 2 * (j * dx - k * dy) <= dx /\ -dx <= 2 * (j * dx - k * dy)
         /\ j <= dy /\ (k = 0 => j = 0) /\ (k = dx => j = dy)
<1> DEFINE tall == dx \div 2
           a == j * dx
           b == k * dy
<1>1. tall \in Nat /\ 2 * tall <= dx /\ dx <= 2 * tall + 1
  OBVIOUS
<1>2. a \in Nat /\ b \in Nat /\ e = tall - b + a
  OBVIOUS
<1>3. b <= dx * dy
  OBVIOUS
<1>4. 2 * (a - b) <= dx /\ -dx <= 2 * (a - b)
  <2> HIDE DEF a, b, tall
  <2> QED
    BY <1>1, <1>2
<1>5. j <= dy
  <2> SUFFICES ASSUME j >= dy + 1 PROVE FALSE
    OBVIOUS
  <2>1. a >= (dy + 1) * dx /\ (dy + 1) * dx = dx * dy + dx /\ dx * dy \in Int
    OBVIOUS
  <2> HIDE DEF a, b, tall
  <2> QED
    BY <1>2, <1>3, <1>4, <2>1
<1>6. ASSUME k = 0 PROVE j = 0
  <2> SUFFICES ASSUME j >= 1 PROVE FALSE
    OBVIOUS
  <2>1. a >= dx /\ b = 0
    BY <1>6
  <2> HIDE DEF a, b, tall
  <2> QED
    BY <1>1, <1>2, <2>1
<1>7. ASSUME k = dx PROVE j = dy
  <2> SUFFICES ASSUME j <= dy - 1 PROVE FALSE
    BY <1>5
  <2>1. a <= (dy - 1) * dx /\ (dy - 1) * dx = dx * dy - dx /\ b = dx * dy /\ dx * dy \in Int
    BY <1>7
  <2> HIDE DEF a, b, tall
  <2> QED
    BY <1>1, <1>2, <2>1
<1> QED
  BY <1>4, <1>5, <1>6, <1>7

\* The line from a to b, which is at least as wide as high: one point for every column.
OnTurned(a, b, t) == /\ t \in Int \X Int /\ t[1] \in a[1] .. b[1]
                     /\ (a[2] <= t[2] /\ t[2] <= b[2]) \/ (b[2] <= t[2] /\ t[2] <= a[2])
                     /\ 2 * Cross(a, b, t) <= b[1] - a[1] /\ -(b[1] - a[1]) <= 2 * Cross(a, b, t)

TurnedRows(a, b) == Rows(a[2], b[1] - a[1], Magnitude(b[2] - a[2]), IF a[2] < b[2] THEN 1 ELSE -1)

LEMMA TurnedLine ==
  ASSUME NEW a \in Int \X Int, NEW b \in Int \X Int, a[1] < b[1], Magnitude(b[2] - a[2]) <= b[1] - a[1],
         NEW k \in 0 .. b[1] - a[1], NEW t, t = <<a[1] + k, TurnedRows(a, b)[k].y>>
  PROVE  OnTurned(a, b, t) /\ (k = 0 => t = a) /\ (k = b[1] - a[1] => t = b)
<1> DEFINE dx == b[1] - a[1]
           dy == Magnitude(b[2] - a[2])
           step == IF a[2] < b[2] THEN 1 ELSE -1
           f == TurnedRows(a, b)
<1>0. a[1] \in Int /\ a[2] \in Int /\ b[1] \in Int /\ b[2] \in Int /\ a = <<a[1], a[2]>> /\ b = <<b[1], b[2]>>
  OBVIOUS
<1>1. /\ dx \in Nat \ {0} /\ dy \in 0 .. dx /\ step \in {-1, 1} /\ b[2] - a[2] = step * dy
      /\ k \in 0 .. dx
  BY <1>0 DEF Magnitude
<1>2. f = Rows(a[2], dx, dy, step)
  BY DEF TurnedRows
<1> HIDE DEF f, dy, step
<1>3. RowTrue(f[k], a[2], dx, dy, step, k)
  <2> HIDE DEF dx
  <2> QED
    BY <1>0, <1>1, <1>2, RowsTrue
<1>4. PICK j \in Nat : f[k].y = a[2] + step * j /\ f[k].err = (dx \div 2) - k * dy + j * dx /\ 0 <= f[k].err /\ f[k].err < dx
  BY <1>3 DEF RowTrue
<1>5. f[k].err \in 0 .. dx - 1
  <2>1. (dx \div 2) - k * dy + j * dx \in Int
    BY <1>1
  <2> QED
    BY <1>1, <1>4, <2>1
<1>6. /\ 2 * (j * dx - k * dy) <= dx /\ -dx <= 2 * (j * dx - k * dy)
      /\ j <= dy /\ (k = 0 => j = 0) /\ (k = dx => j = dy)
  <2> HIDE DEF dx
  <2> QED
    BY <1>1, <1>4, <1>5, RowBetween
<1>7. t[1] = a[1] + k /\ t[2] = a[2] + step * j /\ t \in Int \X Int
  BY <1>0, <1>1, <1>4 DEF f
<1>8. Cross(a, b, t) = step * (j * dx - k * dy)
  <2>1. Cross(a, b, t) = dx * (step * j) - (step * dy) * k
    BY <1>0, <1>1, <1>7 DEF Cross
  <2>2. dx * (step * j) - (step * dy) * k = step * (j * dx - k * dy)
    <3> HIDE DEF dx
    <3>1. CASE step = 1
      BY <1>1, <3>1
    <3>2. CASE step = -1
      BY <1>1, <3>2
    <3> QED
      BY <1>1, <3>1, <3>2
  <2> QED
    BY <2>1, <2>2
<1>9. OnTurned(a, b, t)
  <2>1. t[1] \in a[1] .. b[1]
    BY <1>0, <1>1, <1>7
  <2>2. (a[2] <= t[2] /\ t[2] <= b[2]) \/ (b[2] <= t[2] /\ t[2] <= a[2])
    <3>1. CASE step = 1
      BY <1>0, <1>1, <1>6, <1>7, <3>1
    <3>2. CASE step = -1
      BY <1>0, <1>1, <1>6, <1>7, <3>2
    <3> QED
      BY <1>1, <3>1, <3>2
  <2>3. 2 * Cross(a, b, t) <= dx /\ -dx <= 2 * Cross(a, b, t)
    <3> DEFINE n == j * dx - k * dy
    <3>1. n \in Int
      BY <1>1
    <3> HIDE DEF n, dx
    <3>2. Cross(a, b, t) = n \/ Cross(a, b, t) = -n
      BY <1>1, <1>8, <3>1 DEF n
    <3>3. 2 * n <= dx /\ -dx <= 2 * n
      BY <1>6 DEF n
    <3> QED
      BY <1>1, <3>1, <3>2, <3>3
  <2> QED
    BY <1>7, <2>1, <2>2, <2>3 DEF OnTurned
<1>10. k = 0 => t = a
  BY <1>0, <1>1, <1>6, <1>7
<1>11. k = dx => t = b
  BY <1>0, <1>1, <1>6, <1>7
<1> QED
  BY <1>9, <1>10, <1>11

\* A number between two others, in either order
Among(n, u, v) == (u <= n /\ n <= v) \/ (v <= n /\ n <= u)

\* Exchanging the ends, or the axes, changes no more than the sign of the distance from the line.
LEMMA CrossSwapped ==
  ASSUME NEW p \in Int \X Int, NEW q \in Int \X Int, NEW s \in Int \X Int
  PROVE  /\ Cross(p, q, s) \in Int
         /\ Cross(q, p, s) = -Cross(p, q, s)
         /\ Cross(<<p[2], p[1]>>, <<q[2], q[1]>>, <<s[2], s[1]>>) = -Cross(p, q, s)
         /\ Cross(<<q[2], q[1]>>, <<p[2], p[1]>>, <<s[2], s[1]>>) = Cross(p, q, s)
<1> DEFINE P1 == p[1]
           P2 == p[2]
           Q1 == q[1]
           Q2 == q[2]
           S1 == s[1]
           S2 == s[2]
<1>1. P1 \in Int /\ P2 \in Int /\ Q1 \in Int /\ Q2 \in Int /\ S1 \in Int /\ S2 \in Int
  OBVIOUS
<1>2. /\ Cross(p, q, s) = (Q1 - P1) * (S2 - P2) - (Q2 - P2) * (S1 - P1)
      /\ Cross(q, p, s) = (P1 - Q1) * (S2 - Q2) - (P2 - Q2) * (S1 - Q1)
      /\ Cross(<<p[2], p[1]>>, <<q[2], q[1]>>, <<s[2], s[1]>>) = (Q2 - P2) * (S1 - P1) - (Q1 - P1) * (S2 - P2)
      /\ Cross(<<q[2], q[1]>>, <<p[2], p[1]>>, <<s[2], s[1]>>) = (P2 - Q2) * (S1 - Q1) - (P1 - Q1) * (S2 - Q2)
  BY DEF Cross
<1> HIDE DEF P1, P2, Q1, Q2, S1, S2
<1>3. (P1 - Q1) * (S2 - Q2) - (P2 - Q2) * (S1 - Q1) = -((Q1 - P1) * (S2 - P2) - (Q2 - P2) * (S1 - P1))
  BY <1>1
<1>4. (P2 - Q2) * (S1 - Q1) - (P1 - Q1) * (S2 - Q2) = (Q1 - P1) * (S2 - P2) - (Q2 - P2) * (S1 - P1)
  BY <1>1
<1>5. (Q2 - P2) * (S1 - P1) - (Q1 - P1) * (S2 - P2) = -((Q1 - P1) * (S2 - P2) - (Q2 - P2) * (S1 - P1))
  BY <1>1
<1>6. (Q1 - P1) * (S2 - P2) - (Q2 - P2) * (S1 - P1) \in Int
  BY <1>1
<1> QED
  BY <1>2, <1>3, <1>4, <1>5, <1>6

\* The points near a line, with its greatest extent resolved.
LEMMA NearIs ==
  ASSUME NEW p \in Int \X Int, NEW q \in Int \X Int, NEW s
  PROVE  s \in Near(p, q) <=> /\ s \in Int \X Int /\ Among(s[1], p[1], q[1]) /\ Among(s[2], p[2], q[2])
                              /\ \/ Magnitude(Cross(p, q, s)) * 2 <= Magnitude(q[1] - p[1])
                                 \/ Magnitude(Cross(p, q, s)) * 2 <= Magnitude(q[2] - p[2])
<1> DEFINE m == Magnitude(q[1] - p[1])
           n == Magnitude(q[2] - p[2])
<1>1. p[1] \in Int /\ p[2] \in Int /\ q[1] \in Int /\ q[2] \in Int /\ m \in Int /\ n \in Int
  BY DEF Magnitude
<1>2. s \in Box(p, q) <=> s \in Int \X Int /\ Among(s[1], p[1], q[1]) /\ Among(s[2], p[2], q[2])
  <2>1. /\ Min({p[1], q[1]}) = (IF p[1] <= q[1] THEN p[1] ELSE q[1])
        /\ Max({p[1], q[1]}) = (IF p[1] <= q[1] THEN q[1] ELSE p[1])
        /\ Min({p[2], q[2]}) = (IF p[2] <= q[2] THEN p[2] ELSE q[2])
        /\ Max({p[2], q[2]}) = (IF p[2] <= q[2] THEN q[2] ELSE p[2])
    BY <1>1, MinTwo, MaxTwo
  <2> QED
    BY <1>1, <2>1 DEF Box, Among
<1>3. Max({m, n}) = IF m <= n THEN n ELSE m
  <2> HIDE DEF m, n
  <2> QED
    BY <1>1, MaxTwo
<1>4. s \in Near(p, q) <=> s \in Box(p, q) /\ 2 * Magnitude(Cross(p, q, s)) <= Max({m, n})
  BY <1>1 DEF Near
<1>5. ASSUME s \in Int \X Int PROVE Magnitude(Cross(p, q, s)) \in Int
  <2>1. Cross(p, q, s) \in Int
    BY <1>5, CrossSwapped
  <2> QED
    BY <2>1 DEF Magnitude
<1> HIDE DEF m, n
<1>6. CASE s \in Int \X Int
  BY <1>1, <1>2, <1>3, <1>4, <1>5, <1>6 DEF m, n
<1>7. CASE s \notin Int \X Int
  BY <1>2, <1>4, <1>7
<1> QED
  BY <1>6, <1>7

\* Coordinates turned so that a line is wider than high and goes to the right
Steep(p, q) == Magnitude(q[2] - p[2]) > Magnitude(q[1] - p[1])
TurnedAs(steep, s) == IF steep THEN <<s[2], s[1]>> ELSE s
LeftEnd(p, q) == LET P == TurnedAs(Steep(p, q), p)
                     Q == TurnedAs(Steep(p, q), q)
                 IN IF P[1] > Q[1] THEN Q ELSE P
RightEnd(p, q) == LET P == TurnedAs(Steep(p, q), p)
                      Q == TurnedAs(Steep(p, q), q)
                  IN IF P[1] > Q[1] THEN P ELSE Q

\* Turning twice is turning back.
LEMMA TurnedBack ==
  ASSUME NEW steep \in BOOLEAN, NEW s \in Int \X Int
  PROVE  TurnedAs(steep, s) \in Int \X Int /\ TurnedAs(steep, TurnedAs(steep, s)) = s
BY DEF TurnedAs

\* drawLine() by its ends, and the points near a line as those near the turned one.
LEMMA LineIs ==
  ASSUME NEW p \in Int \X Int, NEW q \in Int \X Int
  PROVE  DrawLine(p, q) = {TurnedAs(Steep(p, q), <<LeftEnd(p, q)[1] + k, TurnedRows(LeftEnd(p, q), RightEnd(p, q))[k].y>>) :
                           k \in 0 .. RightEnd(p, q)[1] - LeftEnd(p, q)[1]}
BY DEF DrawLine, TurnedAs, Steep, LeftEnd, RightEnd, TurnedRows

LEMMA EndsTurned ==
  ASSUME NEW p \in Int \X Int, NEW q \in Int \X Int, p[1] # q[1], p[2] # q[2],
         NEW a, a = LeftEnd(p, q), NEW b, b = RightEnd(p, q)
  PROVE  /\ a \in Int \X Int /\ b \in Int \X Int /\ a[1] < b[1] /\ Magnitude(b[2] - a[2]) <= b[1] - a[1]
         /\ {TurnedAs(Steep(p, q), a), TurnedAs(Steep(p, q), b)} = {p, q}
         /\ \A s \in Int \X Int : s \in Near(p, q) <=> OnTurned(a, b, TurnedAs(Steep(p, q), s))
<1> DEFINE steep == Steep(p, q)
<1>0. p[1] \in Int /\ p[2] \in Int /\ q[1] \in Int /\ q[2] \in Int /\ p = <<p[1], p[2]>> /\ q = <<q[1], q[2]>>
  OBVIOUS
<1>1. /\ Magnitude(q[2] - p[2]) = (IF q[2] < p[2] THEN p[2] - q[2] ELSE q[2] - p[2])
      /\ Magnitude(q[1] - p[1]) = (IF q[1] < p[1] THEN p[1] - q[1] ELSE q[1] - p[1])
  BY <1>0 DEF Magnitude
<1>2. ASSUME NEW s \in Int \X Int
      PROVE  s \in Near(p, q) <=> /\ Among(s[1], p[1], q[1]) /\ Among(s[2], p[2], q[2])
                                  /\ \/ Magnitude(Cross(p, q, s)) * 2 <= Magnitude(q[1] - p[1])
                                     \/ Magnitude(Cross(p, q, s)) * 2 <= Magnitude(q[2] - p[2])
  BY NearIs
<1>3. CASE ~steep /\ p[1] < q[1]
  <2>1. a = p /\ b = q
    BY <1>0, <1>3 DEF LeftEnd, RightEnd, TurnedAs
  <2>2. Magnitude(q[2] - p[2]) <= q[1] - p[1]
    BY <1>0, <1>1, <1>3 DEF Steep
  <2>3. ASSUME NEW s \in Int \X Int PROVE s \in Near(p, q) <=> OnTurned(a, b, TurnedAs(steep, s))
    <3>1. Cross(p, q, s) \in Int
      BY CrossSwapped
    <3>2. TurnedAs(steep, s) = s
      BY <1>3 DEF TurnedAs
    <3> QED
      BY <1>0, <1>1, <1>2, <1>3, <2>1, <2>2, <3>1, <3>2 DEF OnTurned, Among, Magnitude
  <2> QED
    BY <1>0, <1>3, <2>1, <2>2, <2>3 DEF TurnedAs
<1>4. CASE ~steep /\ p[1] > q[1]
  <2>1. a = q /\ b = p
    BY <1>0, <1>4 DEF LeftEnd, RightEnd, TurnedAs
  <2>2. Magnitude(p[2] - q[2]) <= p[1] - q[1] /\ Magnitude(q[2] - p[2]) <= p[1] - q[1]
    BY <1>0, <1>1, <1>4 DEF Steep, Magnitude
  <2>3. ASSUME NEW s \in Int \X Int PROVE s \in Near(p, q) <=> OnTurned(a, b, TurnedAs(steep, s))
    <3>1. Cross(p, q, s) \in Int /\ Cross(q, p, s) = -Cross(p, q, s)
      BY CrossSwapped
    <3>2. TurnedAs(steep, s) = s
      BY <1>4 DEF TurnedAs
    <3> QED
      BY <1>0, <1>1, <1>2, <1>4, <2>1, <2>2, <3>1, <3>2 DEF OnTurned, Among, Magnitude
  <2> QED
    BY <1>0, <1>4, <2>1, <2>2, <2>3 DEF TurnedAs
<1>5. CASE steep /\ p[2] < q[2]
  <2>1. a = <<p[2], p[1]>> /\ b = <<q[2], q[1]>>
    BY <1>0, <1>5 DEF LeftEnd, RightEnd, TurnedAs
  <2>2. Magnitude(q[1] - p[1]) <= q[2] - p[2]
    BY <1>0, <1>1, <1>5 DEF Steep
  <2>3. ASSUME NEW s \in Int \X Int PROVE s \in Near(p, q) <=> OnTurned(a, b, TurnedAs(steep, s))
    <3>1. Cross(p, q, s) \in Int /\ Cross(a, b, <<s[2], s[1]>>) = -Cross(p, q, s)
      BY CrossSwapped, <2>1
    <3> DEFINE t == <<s[2], s[1]>>
    <3>2. TurnedAs(steep, s) = t /\ t[1] = s[2] /\ t[2] = s[1] /\ t \in Int \X Int /\ s[1] \in Int /\ s[2] \in Int
      BY <1>5 DEF TurnedAs
    <3>3. a[1] = p[2] /\ a[2] = p[1] /\ b[1] = q[2] /\ b[2] = q[1]
      BY <2>1
    <3> HIDE DEF t
    <3>4. Cross(a, b, t) \in Int /\ Magnitude(Cross(p, q, s)) = Magnitude(Cross(a, b, t)) /\ Magnitude(Cross(a, b, t)) \in Nat
      BY <3>1 DEF Magnitude, t
    <3>5. OnTurned(a, b, t) <=> /\ Among(s[2], p[2], q[2]) /\ Among(s[1], p[1], q[1])
                                /\ 2 * Magnitude(Cross(a, b, t)) <= b[1] - a[1]
      <4>1. 2 * Magnitude(Cross(a, b, t)) <= b[1] - a[1] <=>
               2 * Cross(a, b, t) <= b[1] - a[1] /\ -(b[1] - a[1]) <= 2 * Cross(a, b, t)
        BY <1>0, <3>3, <3>4 DEF Magnitude
      <4> QED
        BY <1>0, <1>5, <3>2, <3>3, <4>1 DEF OnTurned, Among
    <3>6. /\ Magnitude(q[2] - p[2]) = b[1] - a[1] /\ Magnitude(q[1] - p[1]) <= b[1] - a[1]
          /\ Magnitude(q[1] - p[1]) \in Int /\ b[1] - a[1] \in Int
      BY <1>0, <1>1, <1>5, <2>2, <3>3
    <3>7. s \in Near(p, q) <=> Among(s[1], p[1], q[1]) /\ Among(s[2], p[2], q[2])
                              /\ 2 * Magnitude(Cross(a, b, t)) <= b[1] - a[1]
      BY <1>2, <3>4, <3>6
    <3> QED
      BY <3>2, <3>5, <3>7, Zenon
  <2>4. TurnedAs(steep, a) = p /\ TurnedAs(steep, b) = q
    BY <1>0, <1>5, <2>1 DEF TurnedAs
  <2>5. a \in Int \X Int /\ b \in Int \X Int /\ a[1] < b[1] /\ Magnitude(b[2] - a[2]) <= b[1] - a[1]
    BY <1>0, <1>5, <2>1, <2>2
  <2> QED
    BY <2>3, <2>4, <2>5, Zenon
<1>6. CASE steep /\ p[2] > q[2]
  <2>1. a = <<q[2], q[1]>> /\ b = <<p[2], p[1]>>
    BY <1>0, <1>6 DEF LeftEnd, RightEnd, TurnedAs
  <2>2. Magnitude(p[1] - q[1]) <= p[2] - q[2] /\ Magnitude(q[1] - p[1]) <= p[2] - q[2]
    BY <1>0, <1>1, <1>6 DEF Steep, Magnitude
  <2>3. ASSUME NEW s \in Int \X Int PROVE s \in Near(p, q) <=> OnTurned(a, b, TurnedAs(steep, s))
    <3>1. Cross(p, q, s) \in Int /\ Cross(a, b, <<s[2], s[1]>>) = Cross(p, q, s)
      BY CrossSwapped, <2>1
    <3> DEFINE t == <<s[2], s[1]>>
    <3>2. TurnedAs(steep, s) = t /\ t[1] = s[2] /\ t[2] = s[1] /\ t \in Int \X Int /\ s[1] \in Int /\ s[2] \in Int
      BY <1>6 DEF TurnedAs
    <3>3. a[1] = q[2] /\ a[2] = q[1] /\ b[1] = p[2] /\ b[2] = p[1]
      BY <2>1
    <3> HIDE DEF t
    <3>4. Cross(a, b, t) \in Int /\ Magnitude(Cross(p, q, s)) = Magnitude(Cross(a, b, t)) /\ Magnitude(Cross(a, b, t)) \in Nat
      BY <3>1 DEF Magnitude, t
    <3>5. OnTurned(a, b, t) <=> /\ Among(s[2], p[2], q[2]) /\ Among(s[1], p[1], q[1])
                                /\ 2 * Magnitude(Cross(a, b, t)) <= b[1] - a[1]
      <4>1. 2 * Magnitude(Cross(a, b, t)) <= b[1] - a[1] <=>
               2 * Cross(a, b, t) <= b[1] - a[1] /\ -(b[1] - a[1]) <= 2 * Cross(a, b, t)
        BY <1>0, <3>3, <3>4 DEF Magnitude
      <4> QED
        BY <1>0, <1>6, <3>2, <3>3, <4>1 DEF OnTurned, Among
    <3>6. /\ Magnitude(q[2] - p[2]) = b[1] - a[1] /\ Magnitude(q[1] - p[1]) <= b[1] - a[1]
          /\ Magnitude(q[1] - p[1]) \in Int /\ b[1] - a[1] \in Int
      BY <1>0, <1>1, <1>6, <2>2, <3>3
    <3>7. s \in Near(p, q) <=> Among(s[1], p[1], q[1]) /\ Among(s[2], p[2], q[2])
                              /\ 2 * Magnitude(Cross(a, b, t)) <= b[1] - a[1]
      BY <1>2, <3>4, <3>6
    <3> QED
      BY <3>2, <3>5, <3>7, Zenon
  <2>4. TurnedAs(steep, a) = q /\ TurnedAs(steep, b) = p
    BY <1>0, <1>6, <2>1 DEF TurnedAs
  <2>5. a \in Int \X Int /\ b \in Int \X Int /\ a[1] < b[1] /\ Magnitude(b[2] - a[2]) <= b[1] - a[1]
    BY <1>0, <1>6, <2>1, <2>2
  <2>6. {TurnedAs(steep, a), TurnedAs(steep, b)} = {p, q}
    BY <2>4
  <2> QED
    BY <2>3, <2>5, <2>6, Zenon
<1> QED
  BY <1>0, <1>3, <1>4, <1>5, <1>6

\* All pixels of a line are near it, both ends are drawn, and a column has one pixel.
LEMMA LineNear ==
  ASSUME NEW p \in Int \X Int, NEW q \in Int \X Int, p[1] # q[1], p[2] # q[2],
         NEW along, along = IF Steep(p, q) THEN 2 ELSE 1
  PROVE  /\ DrawLine(p, q) \subseteq Near(p, q) /\ {p, q} \subseteq DrawLine(p, q)
         /\ \A s \in Near(p, q) : \E t \in DrawLine(p, q) : t[along] = s[along]
         /\ \A t, u \in DrawLine(p, q) : t[along] = u[along] => t = u
<1> DEFINE a == LeftEnd(p, q)
           b == RightEnd(p, q)
           steep == Steep(p, q)
           Facing(s) == TurnedAs(steep, s)
           dx == b[1] - a[1]
           point(k) == <<a[1] + k, TurnedRows(a, b)[k].y>>
<1>1. /\ a \in Int \X Int /\ b \in Int \X Int /\ a[1] < b[1] /\ Magnitude(b[2] - a[2]) <= b[1] - a[1]
      /\ {Facing(a), Facing(b)} = {p, q}
      /\ \A s \in Int \X Int : s \in Near(p, q) <=> OnTurned(a, b, Facing(s))
  BY EndsTurned
<1>2. DrawLine(p, q) = {Facing(point(k)) : k \in 0 .. dx}
  BY LineIs
<1>3. steep \in BOOLEAN
  BY DEF Steep
<1> HIDE DEF a, b, steep
<1>4. ASSUME NEW k \in 0 .. dx PROVE OnTurned(a, b, point(k)) /\ (k = 0 => point(k) = a) /\ (k = dx => point(k) = b)
  BY <1>1, TurnedLine
<1> HIDE DEF point
<1>5. ASSUME NEW k \in 0 .. dx PROVE point(k) \in Int \X Int /\ Facing(point(k)) \in Int \X Int /\ Facing(Facing(point(k))) = point(k)
  <2>1. point(k) \in Int \X Int
    BY <1>4 DEF OnTurned
  <2> QED
    BY <2>1, <1>3, TurnedBack
<1>6. \A s \in Int \X Int : Facing(s)[1] = s[along]
  BY <1>3 DEF TurnedAs, steep
<1>7. ASSUME NEW k \in 0 .. dx PROVE Facing(point(k))[along] = a[1] + k
  <2>1. Facing(point(k))[along] = Facing(Facing(point(k)))[1]
    BY <1>5, <1>6
  <2> QED
    BY <1>5, <2>1 DEF point
<1>8. ASSUME NEW k \in 0 .. dx PROVE Facing(point(k)) \in Near(p, q)
  <2>1. OnTurned(a, b, Facing(Facing(point(k))))
    BY <1>4, <1>5
  <2> QED
    BY <1>1, <1>5, <2>1
<1>9. DrawLine(p, q) \subseteq Near(p, q)
  BY <1>2, <1>8
<1>10. {p, q} \subseteq DrawLine(p, q)
  <2>1. 0 \in 0 .. dx /\ dx \in 0 .. dx
    BY <1>1
  <2>2. Facing(a) \in DrawLine(p, q) /\ Facing(b) \in DrawLine(p, q)
    BY <1>2, <1>4, <2>1
  <2> QED
    BY <1>1, <2>2
<1>11. ASSUME NEW s \in Near(p, q) PROVE \E t \in DrawLine(p, q) : t[along] = s[along]
  <2>1. s \in Int \X Int
    BY NearIs
  <2>2. Facing(s)[1] \in a[1] .. b[1]
    BY <1>1, <2>1 DEF OnTurned
  <2>3. s[along] \in a[1] .. b[1]
    BY <1>6, <2>1, <2>2
  <2>4. s[along] - a[1] \in 0 .. dx /\ a[1] + (s[along] - a[1]) = s[along]
    BY <1>1, <2>3
  <2>5. PICK k \in 0 .. dx : a[1] + k = s[along]
    BY <2>4
  <2> QED
    BY <1>2, <1>7, <2>5
<1>12. ASSUME NEW t \in DrawLine(p, q), NEW u \in DrawLine(p, q), t[along] = u[along] PROVE t = u
  <2>1. PICK k \in 0 .. dx : t = Facing(point(k))
    BY <1>2
  <2>2. PICK n \in 0 .. dx : u = Facing(point(n))
    BY <1>2
  <2>3. k = n
    BY <1>1, <1>7, <1>12, <2>1, <2>2
  <2> QED
    BY <2>1, <2>2, <2>3
<1> QED
  BY <1>9, <1>10, <1>11, <1>12

\* So a line is what it should be, also where the screen cuts it.
LEMMA LineHolds ==
  ASSUME NEW p \in Int \X Int, NEW q \in Int \X Int, p[1] # q[1], p[2] # q[2]
  PROVE  IsLine(LinePixels(p, q) \cap Screen, p, q)
<1> DEFINE along == IF Steep(p, q) THEN 2 ELSE 1
           drawn == DrawLine(p, q)
           shown == drawn \cap Screen
<1>1. LinePixels(p, q) = drawn
  BY DEF LinePixels
<1>2. /\ drawn \subseteq Near(p, q) /\ {p, q} \subseteq drawn
      /\ \A s \in Near(p, q) : \E t \in drawn : t[along] = s[along]
      /\ \A t, u \in drawn : t[along] = u[along] => t = u
  BY LineNear
<1> HIDE DEF along, drawn
<1>3. ASSUME NEW s \in Near(p, q), {t \in Near(p, q) : t[along] = s[along]} \subseteq Screen
      PROVE  Cardinality({t \in shown : t[along] = s[along]}) = 1
  <2>1. PICK t \in drawn : t[along] = s[along]
    BY <1>2
  <2>2. t \in Screen
    BY <1>2, <1>3, <2>1
  <2>3. {u \in shown : u[along] = s[along]} = {t}
    BY <1>2, <2>1, <2>2
  <2> QED
    BY <2>3, FS_Singleton
<1>4. shown \subseteq Near(p, q) /\ {p, q} \cap Screen \subseteq shown
  BY <1>2
<1> QED
  BY <1>1, <1>3, <1>4 DEF IsLine, Steep, along

-----------------------------------------------------------------------------
\* A division that truncates is, of the integers on one side of the quotient, the one beside it.
LEMMA TruncIs ==
  ASSUME NEW a \in Int, NEW b \in Nat \ {0}
  PROVE  /\ Trunc(a, b) \in Int /\ a - b < Trunc(a, b) * b /\ Trunc(a, b) * b < a + b
         /\ \A n \in Int : (n * b >= a => n >= Trunc(a, b)) /\ (n * b <= a => n <= Trunc(a, b))
<1> DEFINE m == Magnitude(a)
           q == m \div b
<1>1. m \in Nat /\ Magnitude(b) = b /\ (b >= 0) = TRUE
  BY DEF Magnitude
<1>2. q \in Nat /\ m % b \in 0 .. b - 1 /\ m = q * b + (m % b)
  <2> HIDE DEF m
  <2> QED
    BY <1>1, DivMod
<1> DEFINE e == m % b
<1>3. CASE a >= 0
  <2>1. Trunc(a, b) = q /\ m = a
    BY <1>1, <1>3 DEF Trunc, Magnitude
  <2> HIDE DEF q, e, m
  <2>2. q \in Nat /\ e \in 0 .. b - 1 /\ a = q * b + e
    BY <1>2, <2>1 DEF q, e
  <2>3. ASSUME NEW n \in Int, n * b >= a PROVE n >= q
    <3> SUFFICES ASSUME n <= q - 1 PROVE FALSE
      BY <2>2, <2>3
    <3>1. n * b <= (q - 1) * b /\ (q - 1) * b = q * b - b /\ q * b \in Int /\ n * b \in Int
      BY <2>2
    <3> QED
      BY <2>2, <2>3, <3>1
  <2>4. ASSUME NEW n \in Int, n * b <= a PROVE n <= q
    <3> SUFFICES ASSUME n >= q + 1 PROVE FALSE
      BY <2>2, <2>4
    <3>1. n * b >= (q + 1) * b /\ (q + 1) * b = q * b + b /\ q * b \in Int /\ n * b \in Int
      BY <2>2
    <3> QED
      BY <2>2, <2>4, <3>1
  <2>5. q * b \in Int
    BY <2>2
  <2>6. a - b < q * b /\ q * b < a + b
    BY <2>2, <2>5
  <2> QED
    BY <2>1, <2>2, <2>3, <2>4, <2>6
<1>4. CASE a < 0
  <2>1. Trunc(a, b) = -q /\ m = -a
    BY <1>1, <1>4 DEF Trunc, Magnitude
  <2> HIDE DEF q, e, m
  <2>2. q \in Nat /\ e \in 0 .. b - 1 /\ -a = q * b + e
    BY <1>2, <2>1 DEF q, e
  <2>3. ASSUME NEW n \in Int, n * b >= a PROVE n >= -q
    <3> SUFFICES ASSUME n <= -q - 1 PROVE FALSE
      BY <2>2, <2>3
    <3>1. n * b <= (-q - 1) * b /\ (-q - 1) * b = -(q * b) - b /\ q * b \in Int /\ n * b \in Int
      BY <2>2
    <3> QED
      BY <2>2, <2>3, <3>1
  <2>4. ASSUME NEW n \in Int, n * b <= a PROVE n <= -q
    <3> SUFFICES ASSUME n >= -q + 1 PROVE FALSE
      BY <2>2, <2>4
    <3>1. n * b >= (-q + 1) * b /\ (-q + 1) * b = -(q * b) + b /\ q * b \in Int /\ n * b \in Int
      BY <2>2
    <3> QED
      BY <2>2, <2>4, <3>1
  <2>5. q * b \in Int /\ (-q) * b = -(q * b)
    BY <2>2
  <2>6. a - b < (-q) * b /\ (-q) * b < a + b /\ -q \in Int
    BY <2>2, <2>5
  <2> QED
    BY <2>1, <2>2, <2>3, <2>4, <2>6
<1> QED
  BY <1>3, <1>4

\* The crossing of a row with an edge, against the side of the edge a point is on
Side(u, v, s, step) == (s[1] - u[1] + step) * (v[2] - u[2]) - (v[1] - u[1]) * (s[2] - u[2])

LEMMA CrossingIs ==
  ASSUME NEW u \in Int \X Int, NEW v \in Int \X Int, u[2] < v[2], NEW s \in Int \X Int, NEW c, c = Crossing(u, v, s[2])
  PROVE  /\ c \in Int
         /\ Side(u, v, s, 0) >= 0 => s[1] >= c
         /\ Side(u, v, s, 0) <= 0 => s[1] <= c
         /\ s[1] >= c => Side(u, v, s, 1) > 0
         /\ s[1] <= c => Side(u, v, s, -1) < 0
<1> DEFINE b == v[2] - u[2]
           a == (v[1] - u[1]) * (s[2] - u[2])
           t == Trunc(a, b)
           n == s[1] - u[1]
<1>1. u[1] \in Int /\ u[2] \in Int /\ v[1] \in Int /\ v[2] \in Int /\ s[1] \in Int /\ s[2] \in Int
  OBVIOUS
<1>2. b \in Nat \ {0} /\ a \in Int /\ n \in Int
  BY <1>1
<1>3. c = u[1] + t
  BY DEF Crossing
<1>4. Side(u, v, s, 0) = n * b - a /\ Side(u, v, s, 1) = (n + 1) * b - a /\ Side(u, v, s, -1) = (n - 1) * b - a
  BY <1>1 DEF Side
<1> HIDE DEF a, b
<1>5. /\ t \in Int /\ a - b < t * b /\ t * b < a + b
      /\ \A i \in Int : (i * b >= a => i >= t) /\ (i * b <= a => i <= t)
  BY <1>2, TruncIs
<1> HIDE DEF t
<1>6. (n + 1) * b = n * b + b /\ (n - 1) * b = n * b - b /\ n * b \in Int /\ t * b \in Int
  BY <1>2, <1>5
<1>7. (n >= t => n * b >= t * b) /\ (n <= t => n * b <= t * b)
  BY <1>2, <1>5
<1>8. (n * b >= a => n >= t) /\ (n * b <= a => n <= t)
  BY <1>2, <1>5
<1> QED
  BY <1>1, <1>2, <1>3, <1>4, <1>5, <1>6, <1>7, <1>8

\* At its lower end an edge is crossed in its corner.
LEMMA CrossingEnds ==
  ASSUME NEW u \in Int \X Int, NEW v \in Int \X Int, u[2] < v[2]
  PROVE  Crossing(u, v, v[2]) = v[1] /\ Crossing(u, v, u[2]) = u[1]
<1>1. u[1] \in Int /\ u[2] \in Int /\ v[1] \in Int /\ v[2] \in Int
  OBVIOUS
<1>2. Side(u, v, v, 0) = 0 /\ Side(u, v, u, 0) = 0
  <2>1. Side(u, v, v, 0) = (v[1] - u[1]) * (v[2] - u[2]) - (v[1] - u[1]) * (v[2] - u[2])
    BY <1>1 DEF Side
  <2>2. Side(u, v, u, 0) = 0 * (v[2] - u[2]) - (v[1] - u[1]) * 0
    BY <1>1 DEF Side
  <2>3. (v[1] - u[1]) * (v[2] - u[2]) \in Int
    BY <1>1
  <2> QED
    BY <1>1, <2>1, <2>2, <2>3
<1>3. /\ Crossing(u, v, v[2]) \in Int /\ Crossing(u, v, u[2]) \in Int
      /\ v[1] >= Crossing(u, v, v[2]) /\ v[1] <= Crossing(u, v, v[2])
      /\ u[1] >= Crossing(u, v, u[2]) /\ u[1] <= Crossing(u, v, u[2])
  BY <1>2, CrossingIs
<1> QED
  BY <1>1, <1>3

\* Three corners after the swaps
Top(p, q, r) == Upper(Upper(p, q), Upper(Lower(p, q), r))
Middle(p, q, r) == Lower(Upper(p, q), Upper(Lower(p, q), r))
Bottom(p, q, r) == Lower(Lower(p, q), r)

\* They are the three corners, in the order of their rows.
LEMMA Swapped ==
  ASSUME NEW p \in Int \X Int, NEW q \in Int \X Int, NEW r \in Int \X Int,
         NEW t, t = Top(p, q, r), NEW m, m = Middle(p, q, r), NEW b, b = Bottom(p, q, r)
  PROVE  /\ {p, q, r} = {t, m, b} /\ t \in Int \X Int /\ m \in Int \X Int /\ b \in Int \X Int
         /\ t[2] <= m[2] /\ m[2] <= b[2]
<1>1. p[2] \in Int /\ q[2] \in Int /\ r[2] \in Int
  OBVIOUS
<1>2. CASE p[2] > q[2] /\ p[2] > r[2] /\ q[2] > r[2]
  <2>1. t = r /\ m = q /\ b = p
    BY <1>1, <1>2 DEF Top, Middle, Bottom, Upper, Lower
  <2> QED
    BY <1>1, <1>2, <2>1
<1>3. CASE p[2] > q[2] /\ p[2] > r[2] /\ ~(q[2] > r[2])
  <2>1. t = q /\ m = r /\ b = p
    BY <1>1, <1>3 DEF Top, Middle, Bottom, Upper, Lower
  <2> QED
    BY <1>1, <1>3, <2>1
<1>4. CASE p[2] > q[2] /\ ~(p[2] > r[2])
  <2>1. t = q /\ m = p /\ b = r
    BY <1>1, <1>4 DEF Top, Middle, Bottom, Upper, Lower
  <2> QED
    BY <1>1, <1>4, <2>1
<1>5. CASE ~(p[2] > q[2]) /\ q[2] > r[2] /\ p[2] > r[2]
  <2>1. t = r /\ m = p /\ b = q
    BY <1>1, <1>5 DEF Top, Middle, Bottom, Upper, Lower
  <2> QED
    BY <1>1, <1>5, <2>1
<1>6. CASE ~(p[2] > q[2]) /\ q[2] > r[2] /\ ~(p[2] > r[2])
  <2>1. t = p /\ m = r /\ b = q
    BY <1>1, <1>6 DEF Top, Middle, Bottom, Upper, Lower
  <2> QED
    BY <1>1, <1>6, <2>1
<1>7. CASE ~(p[2] > q[2]) /\ ~(q[2] > r[2])
  <2>1. t = p /\ m = q /\ b = r
    BY <1>1, <1>7 DEF Top, Middle, Bottom, Upper, Lower
  <2> QED
    BY <1>1, <1>7, <2>1
<1> QED
  BY <1>2, <1>3, <1>4, <1>5, <1>6, <1>7

\* The short side that fillTriangle() takes in a row
ShortSide(t, m, b, y) == IF y <= (IF m[2] = b[2] THEN m[2] ELSE m[2] - 1) THEN Crossing(t, m, y) ELSE Crossing(m, b, y)
Edges(c) == {e \in c \X c : e[1][2] < e[2][2]}
Crossed(c, s) == {e \in Edges(c) : e[1][2] <= s[2] /\ s[2] <= e[2][2]}
CrossedAt(c, s, n) == \E e \in Crossed(c, s) : Crossing(e[1], e[2], s[2]) = n

\* Every edge that crosses a row does so where the algorithm has one of its two ends, and each end is one.
LEMMA EndsAreCrossings ==
  ASSUME NEW t \in Int \X Int, NEW m \in Int \X Int, NEW b \in Int \X Int, t[2] <= m[2], m[2] <= b[2], t[2] < b[2],
         NEW s \in Int \X Int
  PROVE  /\ \A e \in Crossed({t, m, b}, s) :
               /\ e[1] \in Int \X Int /\ e[2] \in Int \X Int /\ e[1][2] < e[2][2]
               /\ t[2] <= s[2] /\ s[2] <= b[2]
               /\ Crossing(e[1], e[2], s[2]) \in {ShortSide(t, m, b, s[2]), Crossing(t, b, s[2])}
         /\ t[2] <= s[2] /\ s[2] <= b[2] =>
               CrossedAt({t, m, b}, s, ShortSide(t, m, b, s[2])) /\ CrossedAt({t, m, b}, s, Crossing(t, b, s[2]))
<1> DEFINE y == s[2]
           a == ShortSide(t, m, b, y)
           C == Crossed({t, m, b}, s)
<1>1. t[2] \in Int /\ m[2] \in Int /\ b[2] \in Int /\ y \in Int
  OBVIOUS
<1>2. \A u, v \in {t, m, b} : u[2] < v[2] /\ u[2] <= y /\ y <= v[2] => <<u, v>> \in C
  BY DEF Crossed, Edges
<1>3. ASSUME m[2] = b[2], y <= b[2] PROVE a = Crossing(t, m, y)
  BY <1>3 DEF ShortSide
<1>4. ASSUME m[2] < b[2], y < m[2] PROVE a = Crossing(t, m, y)
  BY <1>1, <1>4 DEF ShortSide
<1>5. ASSUME m[2] < b[2], y >= m[2] PROVE a = Crossing(m, b, y)
  BY <1>1, <1>5 DEF ShortSide
<1>6. ASSUME NEW e \in C
      PROVE  /\ e[1] \in Int \X Int /\ e[2] \in Int \X Int /\ e[1][2] < e[2][2] /\ t[2] <= y /\ y <= b[2]
             /\ Crossing(e[1], e[2], y) \in {a, Crossing(t, b, y)}
  <2>1. e[1] \in {t, m, b} /\ e[2] \in {t, m, b} /\ e[1][2] < e[2][2] /\ e[1][2] <= y /\ y <= e[2][2]
    BY <1>6 DEF Crossed, Edges
  <2>2. t[2] <= y /\ y <= b[2]
    BY <1>1, <2>1
  <2>3. CASE e[1] = t /\ e[2] = b
    BY <2>1, <2>2, <2>3
  <2>4. CASE e[1] = t /\ e[2] = m
    <3>1. t[2] < m[2] /\ y <= m[2]
      BY <2>1, <2>4
    <3>2. CASE m[2] = b[2] \/ y < m[2]
      BY <1>1, <1>3, <1>4, <2>1, <2>2, <2>4, <3>2
    <3>3. CASE m[2] < b[2] /\ y = m[2]
      <4>1. a = Crossing(m, b, m[2]) /\ Crossing(e[1], e[2], y) = Crossing(t, m, m[2])
        BY <1>1, <1>5, <2>4, <3>3
      <4>2. a = m[1] /\ Crossing(e[1], e[2], y) = m[1]
        BY <3>1, <3>3, <4>1, CrossingEnds
      <4> QED
        BY <2>1, <2>2, <4>2
    <3> QED
      BY <1>1, <3>1, <3>2, <3>3
  <2>5. CASE e[1] = m /\ e[2] = b
    BY <1>1, <1>5, <2>1, <2>2, <2>5
  <2> QED
    BY <1>1, <2>1, <2>3, <2>4, <2>5
<1>7. ASSUME t[2] <= y, y <= b[2]
      PROVE  /\ \E e \in C : Crossing(e[1], e[2], y) = a
             /\ \E e \in C : Crossing(e[1], e[2], y) = Crossing(t, b, y)
  <2>1. <<t, b>> \in C
    BY <1>2, <1>7
  <2>2. CASE m[2] = b[2]
    <3>1. <<t, m>> \in C /\ a = Crossing(t, m, y)
      BY <1>2, <1>3, <1>7, <2>2
    <3> QED
      BY <2>1, <3>1
  <2>3. CASE m[2] < b[2] /\ y < m[2]
    <3>1. <<t, m>> \in C /\ a = Crossing(t, m, y)
      BY <1>1, <1>2, <1>4, <1>7, <2>3
    <3> QED
      BY <2>1, <3>1
  <2>4. CASE m[2] < b[2] /\ y >= m[2]
    <3>1. <<m, b>> \in C /\ a = Crossing(m, b, y)
      BY <1>1, <1>2, <1>5, <1>7, <2>4
    <3> QED
      BY <2>1, <3>1
  <2>5. m[2] = b[2] \/ (m[2] < b[2] /\ y < m[2]) \/ (m[2] < b[2] /\ y >= m[2])
    BY <1>1
  <2> QED
    BY <2>2, <2>3, <2>4, <2>5, Zenon
<1> QED
  BY <1>6, <1>7 DEF CrossedAt

\* A row of a filled triangle reaches from one crossing to the other, whichever is on the left.
LEMMA RowIs ==
  ASSUME NEW a \in Int, NEW b \in Int, NEW y \in Int, NEW s
  PROVE  s \in HLine(Min({a, b}), y, Magnitude(b - a) + 1) <=> s \in Int \X Int /\ s[2] = y /\ Among(s[1], a, b)
<1>1. Min({a, b}) = IF a <= b THEN a ELSE b
  BY MinTwo
<1>2. Magnitude(b - a) = IF b < a THEN a - b ELSE b - a
  BY DEF Magnitude
<1>3. CASE a <= b
  <2>1. HLine(Min({a, b}), y, Magnitude(b - a) + 1) = (a .. b) \X {y}
    BY <1>1, <1>2, <1>3 DEF HLine
  <2>2. s \in (a .. b) \X {y} <=> s \in Int \X Int /\ s[1] \in a .. b /\ s[2] = y
    OBVIOUS
  <2>3. ASSUME s \in Int \X Int PROVE s[1] \in a .. b <=> Among(s[1], a, b)
    BY <1>3, <2>3 DEF Among
  <2> QED
    BY <2>1, <2>2, <2>3, Zenon
<1>4. CASE b < a
  <2>1. HLine(Min({a, b}), y, Magnitude(b - a) + 1) = (b .. a) \X {y}
    BY <1>1, <1>2, <1>4 DEF HLine
  <2>2. s \in (b .. a) \X {y} <=> s \in Int \X Int /\ s[1] \in b .. a /\ s[2] = y
    OBVIOUS
  <2>3. ASSUME s \in Int \X Int PROVE s[1] \in b .. a <=> Among(s[1], a, b)
    BY <1>4, <2>3 DEF Among
  <2> QED
    BY <2>1, <2>2, <2>3, Zenon
<1> QED
  BY <1>3, <1>4

\* The rows together.
LEMMA FilledIs ==
  ASSUME NEW p \in Int \X Int, NEW q \in Int \X Int, NEW r \in Int \X Int,
         NEW t, t = Top(p, q, r), NEW m, m = Middle(p, q, r), NEW b, b = Bottom(p, q, r), t[2] < b[2],
         NEW s \in Int \X Int
  PROVE  s \in FillTriangle(p, q, r) <=>
            t[2] <= s[2] /\ s[2] <= b[2] /\ Among(s[1], ShortSide(t, m, b, s[2]), Crossing(t, b, s[2]))
<1>1. t \in Int \X Int /\ m \in Int \X Int /\ b \in Int \X Int /\ t[2] <= m[2] /\ m[2] <= b[2]
  BY Swapped
<1>2. t[2] \in Int /\ b[2] \in Int /\ m[2] \in Int /\ t[2] # b[2]
  BY <1>1
<1> DEFINE final == IF m[2] = b[2] THEN m[2] ELSE m[2] - 1
           Short(y) == IF y <= final THEN Crossing(t, m, y) ELSE Crossing(m, b, y)
           Row(y) == HLine(Min({Short(y), Crossing(t, b, y)}), y, Magnitude(Crossing(t, b, y) - Short(y)) + 1)
<1>3. FillTriangle(p, q, r) = UNION {Row(y) : y \in t[2] .. b[2]}
  BY <1>2 DEF FillTriangle, Top, Middle, Bottom
<1>4. ASSUME NEW y \in t[2] .. b[2] PROVE Short(y) = ShortSide(t, m, b, y) /\ Short(y) \in Int /\ Crossing(t, b, y) \in Int
  <2>1. y \in Int
    BY <1>2
  <2>2. Short(y) = ShortSide(t, m, b, y)
    BY DEF ShortSide
  <2>3. <<0, y>> \in Int \X Int /\ <<0, y>>[2] = y
    BY <2>1
  <2>4. Crossing(t, b, y) \in Int
    BY <1>1, <2>3, CrossingIs
  <2>5. CASE y <= final
    <3>1. t[2] < m[2]
      BY <1>1, <1>2, <1>4, <2>5
    <3>2. Crossing(t, m, y) \in Int
      BY <1>1, <2>3, <3>1, CrossingIs
    <3> QED
      BY <2>2, <2>4, <2>5, <3>2
  <2>6. CASE ~(y <= final)
    <3>1. m[2] < b[2]
      BY <1>1, <1>2, <1>4, <2>6
    <3>2. Crossing(m, b, y) \in Int
      BY <1>1, <2>3, <3>1, CrossingIs
    <3> QED
      BY <2>2, <2>4, <2>6, <3>2
  <2> QED
    BY <2>5, <2>6
<1>5. ASSUME NEW y \in t[2] .. b[2]
      PROVE  s \in Row(y) <=> s[2] = y /\ Among(s[1], ShortSide(t, m, b, y), Crossing(t, b, y))
  <2> HIDE DEF Short
  <2>1. y \in Int /\ Short(y) \in Int /\ Crossing(t, b, y) \in Int /\ Short(y) = ShortSide(t, m, b, y)
    BY <1>2, <1>4
  <2>2. s \in Row(y) <=> s \in Int \X Int /\ s[2] = y /\ Among(s[1], Short(y), Crossing(t, b, y))
    BY <2>1, RowIs
  <2> QED
    BY <2>1, <2>2, Zenon
<1> HIDE DEF Row
<1>6. s[2] \in Int
  OBVIOUS
<1> QED
  BY <1>2, <1>3, <1>5, <1>6

\* A point between two edges is between the crossings, and one between the crossings less than a
\* step beside two edges.
LEMMA TriangleHolds ==
  ASSUME NEW p \in Int \X Int, NEW q \in Int \X Int, NEW r \in Int \X Int
  PROVE  IsTriangle(FillTriangle(p, q, r) \cap Screen, p, q, r)
<1> DEFINE t == Top(p, q, r)
           m == Middle(p, q, r)
           b == Bottom(p, q, r)
           c == {p, q, r}
           pixels == FillTriangle(p, q, r) \cap Screen
           edges == {e \in {p, q, r} \X {p, q, r} : e[1][2] < e[2][2]}
           Sideways(e) == (e[2][1] - e[1][1])
           Over(s) == {e \in edges : e[1][2] <= s[2] /\ s[2] <= e[2][2]}
           Beside(e, s, step) == (s[1] - e[1][1] + step) * (e[2][2] - e[1][2]) - Sideways(e) * (s[2] - e[1][2])
<1>1. /\ c = {t, m, b} /\ t \in Int \X Int /\ m \in Int \X Int /\ b \in Int \X Int
      /\ t[2] <= m[2] /\ m[2] <= b[2]
  BY Swapped
<1>2. edges = Edges(c) /\ \A s : Over(s) = Crossed(c, s)
  BY DEF Edges, Crossed
<1>3. \A e, s, step : Beside(e, s, step) = Side(e[1], e[2], s, step)
  BY DEF Side
<1>4. Screen \subseteq Int \X Int
  BY TftAssumption DEF Screen
<1> HIDE DEF t, m, b, c
<1>5. CASE t[2] < b[2]
  <2>1. ASSUME NEW s \in Screen
        PROVE  /\ (\E e, f \in Crossed(c, s) : Side(e[1], e[2], s, 0) >= 0 /\ Side(f[1], f[2], s, 0) <= 0) => s \in pixels
               /\ s \in pixels => \E e, f \in Crossed(c, s) : Side(e[1], e[2], s, 1) > 0 /\ Side(f[1], f[2], s, -1) < 0
    <3> DEFINE short == ShortSide(t, m, b, s[2])
               long == Crossing(t, b, s[2])
    <3>1. s \in Int \X Int /\ s[1] \in Int
      BY <1>4
    <3>2. s \in pixels <=> t[2] <= s[2] /\ s[2] <= b[2] /\ Among(s[1], short, long)
      BY <1>5, <3>1, FilledIs DEF t, m, b
    <3>3. ASSUME NEW e \in Crossed(c, s)
          PROVE  /\ t[2] <= s[2] /\ s[2] <= b[2]
                 /\ Crossing(e[1], e[2], s[2]) \in {short, long} /\ Crossing(e[1], e[2], s[2]) \in Int
                 /\ Side(e[1], e[2], s, 0) >= 0 => s[1] >= Crossing(e[1], e[2], s[2])
                 /\ Side(e[1], e[2], s, 0) <= 0 => s[1] <= Crossing(e[1], e[2], s[2])
                 /\ s[1] >= Crossing(e[1], e[2], s[2]) => Side(e[1], e[2], s, 1) > 0
                 /\ s[1] <= Crossing(e[1], e[2], s[2]) => Side(e[1], e[2], s, -1) < 0
      <4>1. /\ e[1] \in Int \X Int /\ e[2] \in Int \X Int /\ e[1][2] < e[2][2]
            /\ t[2] <= s[2] /\ s[2] <= b[2] /\ Crossing(e[1], e[2], s[2]) \in {short, long}
        BY <1>1, <1>5, <3>1, <3>3, EndsAreCrossings
      <4> QED
        BY <3>1, <4>1, CrossingIs
    <3>4. ASSUME NEW e \in Crossed(c, s), NEW f \in Crossed(c, s), Side(e[1], e[2], s, 0) >= 0, Side(f[1], f[2], s, 0) <= 0
          PROVE  s \in pixels
      <4>1. /\ s[1] >= Crossing(e[1], e[2], s[2]) /\ s[1] <= Crossing(f[1], f[2], s[2])
            /\ Crossing(e[1], e[2], s[2]) \in {short, long} /\ Crossing(f[1], f[2], s[2]) \in {short, long}
            /\ Crossing(e[1], e[2], s[2]) \in Int /\ Crossing(f[1], f[2], s[2]) \in Int
            /\ t[2] <= s[2] /\ s[2] <= b[2]
        BY <3>3, <3>4
      <4>2. (s[1] >= short \/ s[1] >= long) /\ (s[1] <= short \/ s[1] <= long)
        BY <4>1
      <4>3. CrossedAt(c, s, short) /\ CrossedAt(c, s, long)
        BY <1>1, <1>5, <3>1, <4>1, EndsAreCrossings
      <4>5. short \in Int /\ long \in Int
        BY <3>3, <4>3 DEF CrossedAt
      <4>6. Among(s[1], short, long)
        BY <3>1, <4>2, <4>5 DEF Among
      <4> QED
        BY <3>2, <4>1, <4>6
    <3>5. ASSUME s \in pixels
          PROVE  \E e, f \in Crossed(c, s) : Side(e[1], e[2], s, 1) > 0 /\ Side(f[1], f[2], s, -1) < 0
      <4>1. t[2] <= s[2] /\ s[2] <= b[2] /\ Among(s[1], short, long)
        BY <3>2, <3>5
      <4>6. CrossedAt(c, s, short) /\ CrossedAt(c, s, long)
        BY <1>1, <1>5, <3>1, <4>1, EndsAreCrossings
      <4>2. PICK e \in Crossed(c, s) : Crossing(e[1], e[2], s[2]) = short
        BY <4>6 DEF CrossedAt
      <4>3. PICK f \in Crossed(c, s) : Crossing(f[1], f[2], s[2]) = long
        BY <4>6 DEF CrossedAt
      <4>4. CASE short <= s[1] /\ s[1] <= long
        BY <3>1, <3>3, <4>2, <4>3, <4>4
      <4>5. CASE long <= s[1] /\ s[1] <= short
        BY <3>1, <3>3, <4>2, <4>3, <4>5
      <4> QED
        BY <4>1, <4>4, <4>5 DEF Among
    <3> QED
      BY <3>4, <3>5
  <2> HIDE DEF pixels, Over, Beside, edges
  <2>2. ASSUME NEW s \in Screen
        PROVE  /\ (\E e, f \in Over(s) : Beside(e, s, 0) >= 0 /\ Beside(f, s, 0) <= 0) => s \in pixels
               /\ s \in pixels => \E e, f \in Over(s) : Beside(e, s, 1) > 0 /\ Beside(f, s, -1) < 0
    BY <1>2, <1>3, <2>1
  <2>3. \A s \in Screen :
           /\ (\E e, f \in Over(s) : Beside(e, s, 0) >= 0 /\ Beside(f, s, 0) <= 0) => s \in pixels
           /\ s \in pixels /\ edges # {} => \E e, f \in Over(s) : Beside(e, s, 1) > 0 /\ Beside(f, s, -1) < 0
    BY <2>2
  <2> QED
    BY <2>3, Zenon DEF IsTriangle, pixels, Over, Beside, edges
<1>6. CASE ~(t[2] < b[2])
  <2>1. edges = {}
    <3>1. Edges(c) = {}
      BY <1>1, <1>6 DEF Edges
    <3> QED
      BY <1>2, <3>1
  <2>2. \A s : Over(s) = {}
    BY <2>1
  <2> HIDE DEF pixels
  <2> QED
    BY <2>1, <2>2 DEF IsTriangle
<1> QED
  BY <1>5, <1>6

-----------------------------------------------------------------------------
\* An eighth of a circle, step by step
StepState == [x : Int, y : Int, f : Int]
StepsAre(f, r) == f = [k \in 0 .. r |-> IF k = 0 THEN [x |-> 0, y |-> r, f |-> 1 - r] ELSE NextStep(f[k - 1])]
StepsRun(f, r) == /\ f[0] = [x |-> 0, y |-> r, f |-> 1 - r]
                  /\ \A k \in 0 .. r - 1 : f[k + 1] = NextStep(f[k])

\* The next point by the sign of f.
LEMMA NextStepIs ==
  ASSUME NEW l \in StepState
  PROVE  /\ NextStep(l) \in StepState /\ NextStep(l).x = l.x + 1
         /\ l.f >= 0 => NextStep(l).y = l.y - 1 /\ NextStep(l).f = l.f - 2 * (l.y - 1) + 2 * l.x + 3
         /\ l.f < 0 => NextStep(l).y = l.y /\ NextStep(l).f = l.f + 2 * l.x + 3
<1>1. l.x \in Int /\ l.y \in Int /\ l.f \in Int
  BY DEF StepState
<1> QED
  BY <1>1 DEF NextStep, StepState

LEMMA StepsExist ==
  ASSUME NEW r \in Nat
  PROVE  \E f : StepsAre(f, r)
<1> DEFINE base == [x |-> 0, y |-> r, f |-> 1 - r]
           step == [i \in 0 .. r - 1 |-> [l \in StepState |-> NextStep(l)]]
<1>1. base \in StepState
  BY DEF StepState
<1>2. step \in [0 .. r - 1 -> [StepState -> StepState]]
  BY NextStepIs
<1>3. PICK f \in [0 .. r -> StepState] : f[0] = base /\ \A i \in 0 .. r - 1 : f[i + 1] = step[i][f[i]]
  <2> HIDE DEF step, base
  <2>1. \E f : LoopRun(f, r, StepState, base, step)
    BY <1>1, <1>2, LoopExists
  <2> QED
    BY <2>1 DEF LoopRun
<1>4. ASSUME NEW n \in 0 .. r, n # 0 PROVE f[n] = NextStep(f[n - 1])
  <2>1. n - 1 \in 0 .. r - 1 /\ n - 1 \in 0 .. r /\ (n - 1) + 1 = n
    BY <1>4
  <2>2. f[(n - 1) + 1] = step[n - 1][f[n - 1]] /\ f[n - 1] \in StepState
    BY <1>3, <2>1
  <2> QED
    BY <2>1, <2>2
<1> QED
  BY <1>3, <1>4 DEF StepsAre

LEMMA StepsStep ==
  ASSUME NEW r \in Nat
  PROVE  StepsRun(Steps(r), r)
<1> DEFINE f == Steps(r)
<1>1. StepsAre(f, r)
  <2>1. f = CHOOSE g : StepsAre(g, r)
    BY DEF Steps, StepsAre
  <2> QED
    BY <2>1, StepsExist
<1> HIDE DEF f
<1>2. f[0] = [x |-> 0, y |-> r, f |-> 1 - r]
  BY <1>1 DEF StepsAre
<1>3. ASSUME NEW k \in 0 .. r - 1 PROVE f[k + 1] = NextStep(f[k])
  <2>1. k + 1 \in 0 .. r /\ k + 1 # 0 /\ (k + 1) - 1 = k
    OBVIOUS
  <2> QED
    BY <1>1, <2>1 DEF StepsAre
<1> QED
  BY <1>2, <1>3 DEF StepsRun, f

\* The term f is what decides which of the two next points is nearer to the circle.
OnRing(x, y, r) == r * r - r < x * x + y * y /\ x * x + y * y <= r * r + r
StepTrue(l, k, r) == /\ l \in StepState /\ l.x = k /\ l.y <= r
                     /\ l.f = (k + 1) * (k + 1) + l.y * l.y - l.y - r * r
                     /\ l.y >= k - 1 => OnRing(k, l.y, r)

LEMMA StepKeepsTrue ==
  ASSUME NEW r \in Nat \ {0}, NEW k \in Nat, NEW l, StepTrue(l, k, r)
  PROVE  StepTrue(NextStep(l), k + 1, r)
<1> DEFINE m == NextStep(l)
           y == l.y
           f == l.f
           kk == k * k
           yy == y * y
           rr == r * r
<1>1. y \in Int /\ f \in Int /\ l \in StepState /\ l.x = k /\ y <= r
  BY DEF StepTrue, StepState
<1>2. kk \in Int /\ yy \in Int /\ rr \in Int
  BY <1>1
<1>3. (k + 1) * (k + 1) = kk + 2 * k + 1 /\ (k + 2) * (k + 2) = kk + 4 * k + 4 /\ (y - 1) * (y - 1) = yy - 2 * y + 1
  BY <1>1
<1>4. f = kk + 2 * k + 1 + yy - y - rr /\ (y >= k - 1 => rr - r < kk + yy /\ kk + yy <= rr + r)
  BY <1>3 DEF StepTrue, OnRing
<1>5. m \in StepState /\ m.x = k + 1 /\ k + 1 + 1 = k + 2
  BY <1>1, NextStepIs
<1> HIDE DEF kk, yy, rr, y, f
<1>6. CASE f >= 0
  <2>1. m.y = y - 1 /\ m.f = f - 2 * (y - 1) + 2 * k + 3
    BY <1>1, <1>6, NextStepIs DEF y, f
  <2>2. m.f = (kk + 4 * k + 4) + (yy - 2 * y + 1) - (y - 1) - rr
    BY <1>1, <1>2, <1>4, <2>1
  <2>3. m.y >= (k + 1) - 1 => rr - r < (kk + 2 * k + 1) + (yy - 2 * y + 1) /\ (kk + 2 * k + 1) + (yy - 2 * y + 1) <= rr + r
    BY <1>1, <1>2, <1>4, <1>6, <2>1
  <2>4. m.y <= r
    BY <1>1, <2>1
  <2> HIDE DEF m
  <2>5. m.f = (k + 1 + 1) * (k + 1 + 1) + m.y * m.y - m.y - r * r
    BY <1>3, <1>5, <2>1, <2>2 DEF rr
  <2>6. m.y >= (k + 1) - 1 => OnRing(k + 1, m.y, r)
    BY <1>3, <2>1, <2>3 DEF OnRing, rr
  <2>7. StepTrue(m, k + 1, r)
    BY <1>5, <2>4, <2>5, <2>6 DEF StepTrue
  <2> QED
    BY <2>7 DEF m
<1>7. CASE f < 0
  <2>1. m.y = y /\ m.f = f + 2 * k + 3
    BY <1>1, <1>7, NextStepIs DEF y, f
  <2>2. m.f = (kk + 4 * k + 4) + yy - y - rr
    BY <1>1, <1>2, <1>4, <2>1
  <2>3. m.y >= (k + 1) - 1 => rr - r < (kk + 2 * k + 1) + yy /\ (kk + 2 * k + 1) + yy <= rr + r
    BY <1>1, <1>2, <1>4, <1>7, <2>1
  <2>4. m.y <= r
    BY <1>1, <2>1
  <2> HIDE DEF m
  <2>5. m.f = (k + 1 + 1) * (k + 1 + 1) + m.y * m.y - m.y - r * r
    BY <1>3, <1>5, <2>1, <2>2 DEF rr, yy
  <2>6. m.y >= (k + 1) - 1 => OnRing(k + 1, m.y, r)
    BY <1>3, <2>1, <2>3 DEF OnRing, rr, yy
  <2>7. StepTrue(m, k + 1, r)
    BY <1>5, <2>4, <2>5, <2>6 DEF StepTrue
  <2> QED
    BY <2>7 DEF m
<1> QED
  BY <1>1, <1>6, <1>7

LEMMA StepsTrue ==
  ASSUME NEW r \in Nat \ {0}, NEW k \in 0 .. r
  PROVE  StepTrue(Steps(r)[k], k, r)
<1> DEFINE f == Steps(r)
           R == {n \in Nat : n <= r => StepTrue(f[n], n, r)}
<1>1. StepsRun(f, r)
  BY StepsStep
<1> HIDE DEF f
<1>2. 0 \in R
  <2>1. f[0] = [x |-> 0, y |-> r, f |-> 1 - r]
    BY <1>1 DEF StepsRun
  <2>2. OnRing(0, r, r) /\ 1 - r = (0 + 1) * (0 + 1) + r * r - r - r * r
    <3>1. r * r \in Int
      OBVIOUS
    <3> QED
      BY <3>1 DEF OnRing
  <2> QED
    BY <2>1, <2>2 DEF StepTrue, StepState
<1>3. ASSUME NEW n \in Nat, n \in R PROVE n + 1 \in R
  <2>1. CASE n + 1 <= r
    <3>1. n \in 0 .. r - 1 /\ StepTrue(f[n], n, r)
      BY <1>3, <2>1
    <3>2. f[n + 1] = NextStep(f[n])
      BY <1>1, <3>1 DEF StepsRun
    <3> QED
      BY <3>1, <3>2, StepKeepsTrue
  <2> QED
    BY <2>1
<1>4. Nat \subseteq R
  <2> HIDE DEF R
  <2> QED
    BY <1>2, <1>3, SetInduction
<1> QED
  BY <1>4 DEF f

\* The offsets of a quarter: within the radius, on the ring, and as far out as the radius.
LEMMA QuarterIs ==
  ASSUME NEW r \in Nat \ {0}
  PROVE  /\ \A d \in Quarter(r) : d \in (0 .. r) \X (0 .. r) /\ OnRing(d[1], d[2], r) /\ (r > 1 => d[2] > 0)
         /\ \E d \in Quarter(r) : d[1] = r
<1> DEFINE at == Steps(r)
<1>1. Eighth(r) = {at[k] : k \in {k \in 1 .. r : at[k - 1].x < at[k - 1].y}}
  BY DEF Eighth
<1>2. ASSUME NEW e \in Eighth(r)
      PROVE  /\ e.x \in 1 .. r /\ e.y \in 0 .. r /\ OnRing(e.x, e.y, r) /\ OnRing(e.y, e.x, r)
             /\ r > 1 => e.y > 0
  <2>1. PICK k \in 1 .. r : e = at[k] /\ at[k - 1].x < at[k - 1].y
    BY <1>1
  <2>2. k \in 0 .. r /\ k - 1 \in 0 .. r /\ k - 1 \in 0 .. r - 1 /\ (k - 1) + 1 = k /\ k - 1 \in Nat
    OBVIOUS
  <2>3. StepTrue(at[k], k, r) /\ StepTrue(at[k - 1], k - 1, r)
    BY <2>2, StepsTrue
  <2>4. at[k] = NextStep(at[k - 1])
    <3>1. StepsRun(at, r)
      BY StepsStep
    <3> HIDE DEF at
    <3>2. at[(k - 1) + 1] = NextStep(at[k - 1])
      BY <2>2, <3>1 DEF StepsRun
    <3> QED
      BY <2>2, <3>2
  <2> HIDE DEF at
  <2>5. at[k - 1] \in StepState /\ at[k - 1].y \in Int /\ at[k - 1].x = k - 1 /\ at[k - 1].f \in Int
    BY <2>3 DEF StepTrue, StepState
  <2>6. e.y \in Int /\ e.x = k /\ e.y <= r
    BY <2>1, <2>3 DEF StepTrue, StepState
  <2>7. e.y >= k - 1
    <3>1. e.y >= at[k - 1].y - 1
      BY <2>1, <2>4, <2>5, NextStepIs
    <3> QED
      BY <2>1, <2>5, <2>6, <3>1
  <2>8. OnRing(k, e.y, r)
    BY <2>1, <2>3, <2>7 DEF StepTrue
  <2>9. OnRing(e.y, k, r)
    BY <2>6, <2>8 DEF OnRing
  <2>10. ASSUME r > 1, e.y = 0 PROVE FALSE
    <3>1. k = 1
      BY <2>7, <2>10
    <3>2. r * r - r < 1 /\ r * r >= 2 * r /\ r * r \in Int
      BY <2>8, <2>10, <3>1 DEF OnRing
    <3> QED
      BY <2>10, <3>2
  <2> QED
    BY <2>2, <2>6, <2>7, <2>8, <2>9, <2>10
<1>3. ASSUME NEW d \in Quarter(r)
      PROVE  d \in (0 .. r) \X (0 .. r) /\ OnRing(d[1], d[2], r) /\ (r > 1 => d[2] > 0)
  <2>1. PICK e \in Eighth(r) : d = <<e.x, e.y>> \/ d = <<e.y, e.x>>
    BY <1>3 DEF Quarter
  <2> QED
    BY <1>2, <2>1
<1>4. \E d \in Quarter(r) : d[1] = r
  <2>1. 0 \in 0 .. r - 1 /\ 1 \in 1 .. r /\ 0 + 1 = 1 /\ 1 - 1 = 0
    OBVIOUS
  <2>2. at[0] = [x |-> 0, y |-> r, f |-> 1 - r] /\ at[1] = NextStep(at[0])
    <3>1. StepsRun(at, r)
      BY StepsStep
    <3> HIDE DEF at
    <3>2. at[0 + 1] = NextStep(at[0])
      BY <2>1, <3>1 DEF StepsRun
    <3> QED
      BY <2>1, <3>1, <3>2 DEF StepsRun
  <2> HIDE DEF at
  <2>3. at[0] \in StepState /\ at[0].x = 0 /\ at[0].y = r /\ at[0].f = 1 - r
    BY <2>2 DEF StepState
  <2>4. at[1].x = 1 /\ (r > 1 => at[1].y = r)
    BY <2>2, <2>3, NextStepIs
  <2>5. at[1] \in Eighth(r)
    BY <1>1, <2>1, <2>3
  <2>6. <<at[1].x, at[1].y>> \in Quarter(r) /\ <<at[1].y, at[1].x>> \in Quarter(r)
    BY <2>5 DEF Quarter
  <2> QED
    BY <2>4, <2>6
<1> QED
  BY <1>3, <1>4

-----------------------------------------------------------------------------
\* Pixels of columns, rows and blocks, and the lines between pixels of one column.
LEMMA VLineIs ==
  ASSUME NEW x \in Int, NEW y \in Int, NEW tall \in Int, NEW s
  PROVE  s \in VLine(x, y, tall) <=> s \in Int \X Int /\ s[1] = x /\ y <= s[2] /\ s[2] <= y + tall - 1
<1>1. s \in {x} \X (y .. y + tall - 1) <=> s \in Int \X Int /\ s[1] = x /\ s[2] \in y .. y + tall - 1
  OBVIOUS
<1>2. ASSUME s \in Int \X Int PROVE s[2] \in y .. y + tall - 1 <=> y <= s[2] /\ s[2] <= y + tall - 1
  BY <1>2
<1> QED
  BY <1>1, <1>2, Zenon DEF VLine

LEMMA HLineIs ==
  ASSUME NEW x \in Int, NEW y \in Int, NEW w \in Int, NEW s
  PROVE  s \in HLine(x, y, w) <=> s \in Int \X Int /\ s[2] = y /\ x <= s[1] /\ s[1] <= x + w - 1
<1>1. s \in (x .. x + w - 1) \X {y} <=> s \in Int \X Int /\ s[2] = y /\ s[1] \in x .. x + w - 1
  OBVIOUS
<1>2. ASSUME s \in Int \X Int PROVE s[1] \in x .. x + w - 1 <=> x <= s[1] /\ s[1] <= x + w - 1
  BY <1>2
<1> QED
  BY <1>1, <1>2, Zenon DEF HLine

LEMMA BlockIs ==
  ASSUME NEW x \in Int, NEW y \in Int, NEW w \in Int, NEW tall \in Int, NEW s
  PROVE  s \in Block(x, y, w, tall) <=> /\ s \in Int \X Int /\ x <= s[1] /\ s[1] <= x + w - 1
                                        /\ y <= s[2] /\ s[2] <= y + tall - 1
<1>1. s \in (x .. x + w - 1) \X (y .. y + tall - 1) <=>
         s \in Int \X Int /\ s[1] \in x .. x + w - 1 /\ s[2] \in y .. y + tall - 1
  OBVIOUS
<1>2. ASSUME s \in Int \X Int
      PROVE  /\ s[1] \in x .. x + w - 1 <=> x <= s[1] /\ s[1] <= x + w - 1
             /\ s[2] \in y .. y + tall - 1 <=> y <= s[2] /\ s[2] <= y + tall - 1
  BY <1>2
<1> QED
  BY <1>1, <1>2, Zenon DEF Block

\* The hull of pixels that lie the same above a middle row as below it
Spanned(pixels, c, s) == \E o \in pixels : o[1] = s[1] /\ o[2] <= s[2] /\ s[2] <= c - o[2]

LEMMA MirroredHull ==
  ASSUME NEW pixels \in SUBSET (Int \X Int), NEW c \in Int, \A o \in pixels : <<o[1], c - o[2]>> \in pixels, NEW s
  PROVE  s \in Hull(pixels) <=> s \in Int \X Int /\ Spanned(pixels, c, s)
<1>1. ASSUME s \in Hull(pixels) PROVE s \in Int \X Int /\ Spanned(pixels, c, s)
  <2>1. PICK a \in pixels, b \in pixels : a[1] = b[1] /\ s \in VLine(a[1], a[2], b[2] - a[2] + 1)
    BY <1>1 DEF Hull
  <2>2. a[1] \in Int /\ a[2] \in Int /\ b[1] \in Int /\ b[2] \in Int /\ b[2] - a[2] + 1 \in Int
    OBVIOUS
  <2>3. s \in Int \X Int /\ s[1] = a[1] /\ a[2] <= s[2] /\ s[2] <= b[2] /\ s[2] \in Int
    BY <2>1, <2>2, VLineIs
  <2>4. CASE b[2] <= c - a[2]
    BY <2>2, <2>3, <2>4 DEF Spanned
  <2>5. CASE b[2] > c - a[2]
    <3>1. <<b[1], c - b[2]>> \in pixels
      OBVIOUS
    <3>2. c - b[2] <= s[2] /\ s[2] <= c - (c - b[2])
      BY <2>2, <2>3, <2>5
    <3> QED
      BY <2>1, <2>3, <3>1, <3>2 DEF Spanned
  <2> QED
    BY <2>2, <2>4, <2>5
<1>2. ASSUME s \in Int \X Int, Spanned(pixels, c, s) PROVE s \in Hull(pixels)
  <2>1. PICK o \in pixels : o[1] = s[1] /\ o[2] <= s[2] /\ s[2] <= c - o[2]
    BY <1>2 DEF Spanned
  <2> DEFINE m == <<o[1], c - o[2]>>
             e == <<o, m>>
  <2>2. m \in pixels /\ e \in pixels \X pixels /\ e[1][1] = e[2][1] /\ e[1] = o /\ e[2] = m
    OBVIOUS
  <2>3. o[1] \in Int /\ o[2] \in Int /\ s[2] \in Int /\ m[2] = c - o[2]
    BY <1>2
  <2>4. m[2] - o[2] + 1 \in Int /\ o[2] + (m[2] - o[2] + 1) - 1 = m[2]
    BY <2>3
  <2>5. s \in VLine(o[1], o[2], m[2] - o[2] + 1)
    <3> HIDE DEF m, e
    <3> QED
      BY <1>2, <2>1, <2>3, <2>4, VLineIs
  <2> HIDE DEF m, e
  <2>6. VLine(e[1][1], e[1][2], e[2][2] - e[1][2] + 1) \subseteq Hull(pixels)
    BY <2>2 DEF Hull
  <2> QED
    BY <2>2, <2>5, <2>6
<1> QED
  BY <1>1, <1>2

\* The pixels of a circle by their offsets
Offsets(r) == Quarter(r) \cup {<<0, r>>, <<r, 0>>}

LEMMA OffsetsAre ==
  ASSUME NEW r \in Nat \ {0}
  PROVE  \A d \in Offsets(r) : d \in (0 .. r) \X (0 .. r) /\ OnRing(d[1], d[2], r)
<1>1. r * r \in Int
  OBVIOUS
<1>2. OnRing(0, r, r) /\ OnRing(r, 0, r)
  BY <1>1 DEF OnRing
<1> QED
  BY <1>2, QuarterIs DEF Offsets

LEMMA CircleIs ==
  ASSUME NEW x0 \in Int, NEW y0 \in Int, NEW r \in Nat \ {0}, NEW s
  PROVE  s \in DrawCircle(x0, y0, r) <=>
            \E d \in Offsets(r), sx \in {-1, 1}, sy \in {-1, 1} : s = <<x0 + sx * d[1], y0 + sy * d[2]>>
<1>1. ASSUME s \in DrawCircle(x0, y0, r)
      PROVE  \E d \in Offsets(r), sx \in {-1, 1}, sy \in {-1, 1} : s = <<x0 + sx * d[1], y0 + sy * d[2]>>
  <2>1. <<0, r>> \in Offsets(r) /\ <<r, 0>> \in Offsets(r)
    BY DEF Offsets
  <2>2. CASE s = <<x0, y0 + r>>
    <3>1. s = <<x0 + 1 * <<0, r>>[1], y0 + 1 * <<0, r>>[2]>>
      BY <2>2
    <3> QED
      BY <2>1, <3>1
  <2>3. CASE s = <<x0, y0 - r>>
    <3>1. s = <<x0 + 1 * <<0, r>>[1], y0 + (-1) * <<0, r>>[2]>>
      BY <2>3
    <3> QED
      BY <2>1, <3>1
  <2>4. CASE s = <<x0 + r, y0>>
    <3>1. s = <<x0 + 1 * <<r, 0>>[1], y0 + 1 * <<r, 0>>[2]>>
      BY <2>4
    <3> QED
      BY <2>1, <3>1
  <2>5. CASE s = <<x0 - r, y0>>
    <3>1. s = <<x0 + (-1) * <<r, 0>>[1], y0 + 1 * <<r, 0>>[2]>>
      BY <2>5
    <3> QED
      BY <2>1, <3>1
  <2>6. CASE \E d \in Quarter(r), sx \in {-1, 1}, sy \in {-1, 1} : s = <<x0 + sx * d[1], y0 + sy * d[2]>>
    BY <2>6 DEF Offsets
  <2> QED
    BY <1>1, <2>2, <2>3, <2>4, <2>5, <2>6 DEF DrawCircle
<1>2. ASSUME NEW d \in Offsets(r), NEW sx \in {-1, 1}, NEW sy \in {-1, 1}, s = <<x0 + sx * d[1], y0 + sy * d[2]>>
      PROVE  s \in DrawCircle(x0, y0, r)
  <2>1. CASE d \in Quarter(r)
    BY <1>2, <2>1 DEF DrawCircle
  <2>2. CASE d = <<0, r>>
    <3>1. s = <<x0, y0 + r>> \/ s = <<x0, y0 - r>>
      BY <1>2, <2>2
    <3> QED
      BY <3>1 DEF DrawCircle
  <2>3. CASE d = <<r, 0>>
    <3>1. s = <<x0 + r, y0>> \/ s = <<x0 - r, y0>>
      BY <1>2, <2>3
    <3> QED
      BY <3>1 DEF DrawCircle
  <2> QED
    BY <1>2, <2>1, <2>2, <2>3 DEF Offsets
<1> QED
  BY <1>1, <1>2

\* So a circle keeps within half a pixel of its radius, and its area is that of its outline: every
\* column of it is mirrored in the row of its centre.
LEMMA CirclePixel ==
  ASSUME NEW x0 \in Int, NEW y0 \in Int, NEW r \in Nat \ {0}, NEW s \in DrawCircle(x0, y0, r)
  PROVE  \E d \in Offsets(r) : /\ d[1] \in 0 .. r /\ d[2] \in 0 .. r /\ OnRing(d[1], d[2], r) /\ s \in Int \X Int
                               /\ s[1] = x0 + d[1] \/ s[1] = x0 - d[1]
                               /\ s[2] = y0 + d[2] \/ s[2] = y0 - d[2]
<1>1. PICK d \in Offsets(r), sx \in {-1, 1}, sy \in {-1, 1} : s = <<x0 + sx * d[1], y0 + sy * d[2]>>
  BY CircleIs
<1>2. d \in (0 .. r) \X (0 .. r) /\ OnRing(d[1], d[2], r)
  BY OffsetsAre
<1>3. d[1] \in 0 .. r /\ d[2] \in 0 .. r
  BY <1>2
<1> QED
  BY <1>1, <1>2, <1>3

LEMMA CircleHolds ==
  ASSUME NEW x0 \in Int, NEW y0 \in Int, NEW r \in Nat \ {0}
  PROVE  IsCircle(DrawCircle(x0, y0, r) \cap Screen, <<x0, y0>>, r)
<1>1. ASSUME NEW s \in DrawCircle(x0, y0, r)
      PROVE  /\ Square(2 * r - 1) <= 4 * (Square(s[1] - x0) + Square(s[2] - y0))
             /\ 4 * (Square(s[1] - x0) + Square(s[2] - y0)) <= Square(2 * r + 1)
  <2>1. PICK d \in Offsets(r) : /\ d[1] \in 0 .. r /\ d[2] \in 0 .. r /\ OnRing(d[1], d[2], r) /\ s \in Int \X Int
                                /\ s[1] = x0 + d[1] \/ s[1] = x0 - d[1]
                                /\ s[2] = y0 + d[2] \/ s[2] = y0 - d[2]
    BY CirclePixel
  <2> DEFINE a == d[1] * d[1]
             b == d[2] * d[2]
             rr == r * r
  <2>2. a \in Int /\ b \in Int /\ rr \in Int
    BY <2>1
  <2>3. Square(s[1] - x0) = a /\ Square(s[2] - y0) = b
    <3>1. s[1] - x0 = d[1] \/ s[1] - x0 = -d[1]
      BY <2>1
    <3>2. s[2] - y0 = d[2] \/ s[2] - y0 = -d[2]
      BY <2>1
    <3>3. (-d[1]) * (-d[1]) = a /\ (-d[2]) * (-d[2]) = b
      BY <2>1
    <3> QED
      BY <3>1, <3>2, <3>3 DEF Square
  <2>4. Square(2 * r - 1) = 4 * rr - 4 * r + 1 /\ Square(2 * r + 1) = 4 * rr + 4 * r + 1
    BY DEF Square
  <2>5. rr - r < a + b /\ a + b <= rr + r
    BY <2>1 DEF OnRing
  <2> HIDE DEF a, b, rr
  <2> QED
    BY <2>2, <2>3, <2>4, <2>5
<1> QED
  BY <1>1 DEF IsCircle

LEMMA CircleFilled ==
  ASSUME NEW x0 \in Int, NEW y0 \in Int, NEW r \in Nat \ {0}
  PROVE  FillCircle(x0, y0, r) = Hull(DrawCircle(x0, y0, r))
<1> DEFINE drawn == DrawCircle(x0, y0, r)
           c == 2 * y0
<1>1. drawn \in SUBSET (Int \X Int)
  BY CirclePixel
<1>2. ASSUME NEW o \in drawn PROVE <<o[1], c - o[2]>> \in drawn
  <2>1. PICK d \in Offsets(r), sx \in {-1, 1}, sy \in {-1, 1} : o = <<x0 + sx * d[1], y0 + sy * d[2]>>
    BY CircleIs
  <2>2. d[1] \in Int /\ d[2] \in Int
    BY OffsetsAre
  <2>3. <<o[1], c - o[2]>> = <<x0 + sx * d[1], y0 + (-sy) * d[2]>> /\ -sy \in {-1, 1}
    BY <2>1, <2>2
  <2> QED
    BY <2>3, CircleIs
<1>3. c \in Int
  OBVIOUS
<1>4. ASSUME NEW s PROVE s \in Hull(drawn) <=> s \in Int \X Int /\ Spanned(drawn, c, s)
  <2> HIDE DEF drawn, c
  <2> QED
    BY <1>1, <1>2, <1>3, MirroredHull
<1>5. ASSUME NEW d \in Quarter(r), NEW g \in {-1, 1}, NEW s
      PROVE  /\ s \in VLine(x0 + g * d[1], y0 - d[2], 2 * d[2] + 1 + 0) <=>
                   s \in Int \X Int /\ s[1] = x0 + g * d[1] /\ y0 - d[2] <= s[2] /\ s[2] <= y0 + d[2]
             /\ d \in Offsets(r) /\ d[1] \in 0 .. r /\ d[2] \in 0 .. r
  <2>1. d \in Offsets(r) /\ d[1] \in 0 .. r /\ d[2] \in 0 .. r
    BY QuarterIs DEF Offsets
  <2>2. x0 + g * d[1] \in Int /\ y0 - d[2] \in Int /\ 2 * d[2] + 1 + 0 \in Int /\ (y0 - d[2]) + (2 * d[2] + 1 + 0) - 1 = y0 + d[2]
    BY <2>1
  <2> QED
    BY <2>1, <2>2, VLineIs
<1>6. ASSUME NEW s
      PROVE  s \in VLine(x0, y0 - r, 2 * r + 1) <=> s \in Int \X Int /\ s[1] = x0 /\ y0 - r <= s[2] /\ s[2] <= y0 + r
  <2>1. y0 - r \in Int /\ 2 * r + 1 \in Int /\ (y0 - r) + (2 * r + 1) - 1 = y0 + r
    OBVIOUS
  <2> QED
    BY <2>1, VLineIs
<1>7. FillCircle(x0, y0, r) = VLine(x0, y0 - r, 2 * r + 1)
                                 \cup UNION {VLine(x0 + g * d[1], y0 - d[2], 2 * d[2] + 1 + 0) : g \in {-1, 1}, d \in Quarter(r)}
  BY DEF FillCircle, FillCircleHelper
<1>8. ASSUME NEW s \in FillCircle(x0, y0, r) PROVE s \in Int \X Int /\ Spanned(drawn, c, s)
  <2>1. CASE s \in VLine(x0, y0 - r, 2 * r + 1)
    <3>1. s \in Int \X Int /\ s[1] = x0 /\ y0 - r <= s[2] /\ s[2] <= c - (y0 - r)
      BY <1>6, <2>1
    <3>2. <<x0, y0 - r>> \in drawn
      BY DEF DrawCircle
    <3> QED
      BY <3>1, <3>2 DEF Spanned
  <2>2. ASSUME NEW d \in Quarter(r), NEW g \in {-1, 1}, s \in VLine(x0 + g * d[1], y0 - d[2], 2 * d[2] + 1 + 0)
        PROVE  s \in Int \X Int /\ Spanned(drawn, c, s)
    <3>1. s \in Int \X Int /\ s[1] = x0 + g * d[1] /\ y0 - d[2] <= s[2] /\ s[2] <= y0 + d[2] /\ d[2] \in 0 .. r
      BY <1>5, <2>2
    <3>2. <<x0 + g * d[1], y0 + (-1) * d[2]>> \in drawn
      BY <1>5, CircleIs
    <3>3. y0 + (-1) * d[2] <= s[2] /\ s[2] <= c - (y0 + (-1) * d[2])
      BY <3>1
    <3> QED
      BY <3>1, <3>2, <3>3 DEF Spanned
  <2> QED
    BY <1>7, <2>1, <2>2
<1>9. ASSUME NEW s \in Int \X Int, Spanned(drawn, c, s) PROVE s \in FillCircle(x0, y0, r)
  <2>1. PICK o \in drawn : o[1] = s[1] /\ o[2] <= s[2] /\ s[2] <= c - o[2]
    BY <1>9 DEF Spanned
  <2>2. PICK d \in Offsets(r), sx \in {-1, 1}, sy \in {-1, 1} : o = <<x0 + sx * d[1], y0 + sy * d[2]>>
    BY CircleIs
  <2>3. d[1] \in 0 .. r /\ d[2] \in 0 .. r /\ s[1] = x0 + sx * d[1] /\ s[2] \in Int /\ (o[2] = y0 + d[2] \/ o[2] = y0 - d[2])
    BY <2>1, <2>2, OffsetsAre
  <2>4. y0 - d[2] <= s[2] /\ s[2] <= y0 + d[2]
    BY <2>1, <2>3
  <2>5. CASE d \in Quarter(r)
    <3>1. s \in VLine(x0 + sx * d[1], y0 - d[2], 2 * d[2] + 1 + 0)
      BY <1>5, <1>9, <2>3, <2>4, <2>5
    <3> QED
      BY <1>7, <2>5, <3>1
  <2>6. CASE d = <<0, r>>
    <3>1. d[1] = 0 /\ d[2] = r
      BY <2>6
    <3>2. s[1] = x0 /\ y0 - r <= s[2] /\ s[2] <= y0 + r
      BY <2>3, <2>4, <3>1
    <3> QED
      BY <1>6, <1>7, <1>9, <3>2
  <2>7. CASE d = <<r, 0>>
    <3>1. d[1] = r /\ d[2] = 0
      BY <2>7
    <3>2. PICK e \in Quarter(r) : e[1] = r
      BY QuarterIs
    <3>3. e[2] \in 0 .. r
      BY <1>5
    <3>4. s[1] = x0 + sx * e[1] /\ y0 - e[2] <= s[2] /\ s[2] <= y0 + e[2]
      BY <2>3, <2>4, <3>1, <3>2, <3>3
    <3>5. s \in VLine(x0 + sx * e[1], y0 - e[2], 2 * e[2] + 1 + 0)
      BY <1>5, <1>9, <3>4
    <3> QED
      BY <1>7, <3>5
  <2> QED
    BY <2>2, <2>5, <2>6, <2>7 DEF Offsets
<1> QED
  BY <1>4, <1>8, <1>9

\* The outline and the area of a rounded rectangle by their rows and columns
Frame(x, y, w, tall, r) == [left |-> x + r, right |-> x + w - r - 1, top |-> y + r, bottom |-> y + tall - r - 1]
AtSide(f, d, s) == s[1] = f.left - d[1] \/ s[1] = f.right + d[1]
OnRound(x, y, w, tall, r, s) ==
    LET f == Frame(x, y, w, tall, r)
    IN \/ f.left <= s[1] /\ s[1] <= f.right /\ (s[2] = y \/ s[2] = y + tall - 1)
       \/ (s[1] = x \/ s[1] = x + w - 1) /\ f.top <= s[2] /\ s[2] <= f.bottom
       \/ \E d \in Quarter(r) : AtSide(f, d, s) /\ (s[2] = f.top - d[2] \/ s[2] = f.bottom + d[2])
InRound(x, y, w, tall, r, s) ==
    LET f == Frame(x, y, w, tall, r)
    IN \/ f.left <= s[1] /\ s[1] <= f.right /\ y <= s[2] /\ s[2] <= y + tall - 1
       \/ \E d \in Quarter(r) : AtSide(f, d, s) /\ f.top - d[2] <= s[2] /\ s[2] <= f.bottom + d[2]

LEMMA RoundIs ==
  ASSUME NEW x \in Int, NEW y \in Int, NEW w \in Nat, NEW tall \in Nat, NEW r \in Nat \ {0}, NEW s
  PROVE  s \in DrawRoundRect(x, y, w, tall, r) <=> s \in Int \X Int /\ OnRound(x, y, w, tall, r, s)
<1> DEFINE f == Frame(x, y, w, tall, r)
           L == x + r
           R == x + w - r - 1
           T == y + r
           B == y + tall - r - 1
           Corner(cx, cy, sx, sy) == DrawCircleHelper(cx, cy, r, sx, sy)
<1>1. L \in Int /\ R \in Int /\ T \in Int /\ B \in Int /\ f.left = L /\ f.right = R /\ f.top = T /\ f.bottom = B
  BY DEF Frame
<1>2. ASSUME NEW v \in Int PROVE s \in HLine(L, v, w - 2 * r) <=> s \in Int \X Int /\ s[2] = v /\ L <= s[1] /\ s[1] <= R
  <2>1. w - 2 * r \in Int /\ L + (w - 2 * r) - 1 = R
    OBVIOUS
  <2> HIDE DEF L, R
  <2> QED
    BY <1>1, <2>1, HLineIs
<1>3. ASSUME NEW v \in Int PROVE s \in VLine(v, T, tall - 2 * r) <=> s \in Int \X Int /\ s[1] = v /\ T <= s[2] /\ s[2] <= B
  <2>1. tall - 2 * r \in Int /\ T + (tall - 2 * r) - 1 = B
    OBVIOUS
  <2> HIDE DEF T, B
  <2> QED
    BY <1>1, <2>1, VLineIs
<1>4. ASSUME NEW cx \in Int, NEW cy \in Int, NEW sx \in {-1, 1}, NEW sy \in {-1, 1}
      PROVE  s \in Corner(cx, cy, sx, sy) <=> s \in Int \X Int /\ \E d \in Quarter(r) : s[1] = cx + sx * d[1] /\ s[2] = cy + sy * d[2]
  <2>1. \A d \in Quarter(r) : d[1] \in Int /\ d[2] \in Int
    BY QuarterIs
  <2>2. \A d \in Quarter(r) : cx + sx * d[1] \in Int /\ cy + sy * d[2] \in Int
    BY <2>1
  <2>3. s \in Corner(cx, cy, sx, sy) <=> \E d \in Quarter(r) : s = <<cx + sx * d[1], cy + sy * d[2]>>
    BY DEF DrawCircleHelper
  <2> QED
    BY <2>2, <2>3
<1>5. DrawRoundRect(x, y, w, tall, r) =
         UNION {HLine(L, y, w - 2 * r), HLine(L, y + tall - 1, w - 2 * r), VLine(x, T, tall - 2 * r), VLine(x + w - 1, T, tall - 2 * r),
                Corner(L, T, -1, -1), Corner(R, T, 1, -1), Corner(R, B, 1, 1), Corner(L, B, -1, 1)}
  BY DEF DrawRoundRect
<1>6. s \in DrawRoundRect(x, y, w, tall, r) <=>
         \/ s \in HLine(L, y, w - 2 * r) \/ s \in HLine(L, y + tall - 1, w - 2 * r)
         \/ s \in VLine(x, T, tall - 2 * r) \/ s \in VLine(x + w - 1, T, tall - 2 * r)
         \/ s \in Corner(L, T, -1, -1) \/ s \in Corner(R, T, 1, -1) \/ s \in Corner(R, B, 1, 1) \/ s \in Corner(L, B, -1, 1)
  <2> HIDE DEF L, R, T, B, Corner
  <2> QED
    BY <1>5
<1>7. y + tall - 1 \in Int /\ x + w - 1 \in Int /\ -1 \in {-1, 1} /\ 1 \in {-1, 1}
  OBVIOUS
<1>8. \A d \in Quarter(r) : d[1] \in Int /\ d[2] \in Int
  BY QuarterIs
<1> HIDE DEF L, R, T, B, Corner, f
<1>9. (s \in Corner(L, T, -1, -1) \/ s \in Corner(R, T, 1, -1) \/ s \in Corner(R, B, 1, 1) \/ s \in Corner(L, B, -1, 1)) <=>
      s \in Int \X Int /\ \E d \in Quarter(r) : AtSide(f, d, s) /\ (s[2] = f.top - d[2] \/ s[2] = f.bottom + d[2])
  <2>1. \A d \in Quarter(r) : /\ L + (-1) * d[1] = L - d[1] /\ R + 1 * d[1] = R + d[1]
                              /\ T + (-1) * d[2] = T - d[2] /\ B + 1 * d[2] = B + d[2]
    BY <1>1, <1>8
  <2>2. /\ s \in Corner(L, T, -1, -1) <=> s \in Int \X Int /\ \E d \in Quarter(r) : s[1] = L + (-1) * d[1] /\ s[2] = T + (-1) * d[2]
        /\ s \in Corner(R, T, 1, -1) <=> s \in Int \X Int /\ \E d \in Quarter(r) : s[1] = R + 1 * d[1] /\ s[2] = T + (-1) * d[2]
        /\ s \in Corner(R, B, 1, 1) <=> s \in Int \X Int /\ \E d \in Quarter(r) : s[1] = R + 1 * d[1] /\ s[2] = B + 1 * d[2]
        /\ s \in Corner(L, B, -1, 1) <=> s \in Int \X Int /\ \E d \in Quarter(r) : s[1] = L + (-1) * d[1] /\ s[2] = B + 1 * d[2]
    BY <1>1, <1>4, <1>7
  <2> QED
    BY <1>1, <2>1, <2>2 DEF AtSide
<1>10. OnRound(x, y, w, tall, r, s) <=>
          \/ f.left <= s[1] /\ s[1] <= f.right /\ (s[2] = y \/ s[2] = y + tall - 1)
          \/ (s[1] = x \/ s[1] = x + w - 1) /\ f.top <= s[2] /\ s[2] <= f.bottom
          \/ \E d \in Quarter(r) : AtSide(f, d, s) /\ (s[2] = f.top - d[2] \/ s[2] = f.bottom + d[2])
  BY DEF OnRound, f
<1> QED
  BY <1>1, <1>2, <1>3, <1>6, <1>7, <1>9, <1>10

LEMMA RoundFillIs ==
  ASSUME NEW x \in Int, NEW y \in Int, NEW w \in Nat, NEW tall \in Nat, NEW r \in Nat \ {0}, NEW s
  PROVE  s \in FillRoundRect(x, y, w, tall, r) <=> s \in Int \X Int /\ InRound(x, y, w, tall, r, s)
<1> DEFINE f == Frame(x, y, w, tall, r)
           L == x + r
           R == x + w - r - 1
           T == y + r
           B == y + tall - r - 1
           Sides(cx, g) == FillCircleHelper(cx, T, r, {g}, tall - 2 * r - 1)
<1>1. L \in Int /\ R \in Int /\ T \in Int /\ B \in Int /\ f.left = L /\ f.right = R /\ f.top = T /\ f.bottom = B
  BY DEF Frame
<1>2. s \in Block(L, y, w - 2 * r, tall) <=> s \in Int \X Int /\ L <= s[1] /\ s[1] <= R /\ y <= s[2] /\ s[2] <= y + tall - 1
  <2>1. w - 2 * r \in Int /\ L + (w - 2 * r) - 1 = R
    OBVIOUS
  <2> HIDE DEF L, R
  <2> QED
    BY <1>1, <2>1, BlockIs
<1>3. ASSUME NEW cx \in Int, NEW g \in {-1, 1}
      PROVE  s \in Sides(cx, g) <=> s \in Int \X Int /\ \E d \in Quarter(r) : s[1] = cx + g * d[1] /\ T - d[2] <= s[2] /\ s[2] <= B + d[2]
  <2>1. \A d \in Quarter(r) : d[1] \in Int /\ d[2] \in Int
    BY QuarterIs
  <2>2. s \in Sides(cx, g) <=> \E d \in Quarter(r) : s \in VLine(cx + g * d[1], T - d[2], 2 * d[2] + 1 + (tall - 2 * r - 1))
    BY DEF FillCircleHelper
  <2>3. ASSUME NEW d \in Quarter(r)
        PROVE  s \in VLine(cx + g * d[1], T - d[2], 2 * d[2] + 1 + (tall - 2 * r - 1)) <=>
                  s \in Int \X Int /\ s[1] = cx + g * d[1] /\ T - d[2] <= s[2] /\ s[2] <= B + d[2]
    <3>1. /\ cx + g * d[1] \in Int /\ T - d[2] \in Int /\ 2 * d[2] + 1 + (tall - 2 * r - 1) \in Int
          /\ (T - d[2]) + (2 * d[2] + 1 + (tall - 2 * r - 1)) - 1 = B + d[2]
      BY <2>1
    <3> HIDE DEF T, B
    <3> QED
      BY <3>1, VLineIs
  <2> HIDE DEF T, B, Sides
  <2> QED
    BY <2>2, <2>3
<1>4. FillRoundRect(x, y, w, tall, r) = UNION {Block(L, y, w - 2 * r, tall), Sides(R, 1), Sides(L, -1)}
  BY DEF FillRoundRect
<1>5. \A d \in Quarter(r) : d[1] \in Int /\ d[2] \in Int
  BY QuarterIs
<1> HIDE DEF L, R, T, B, Sides, f
<1>6. s \in FillRoundRect(x, y, w, tall, r) <=> s \in Block(L, y, w - 2 * r, tall) \/ s \in Sides(R, 1) \/ s \in Sides(L, -1)
  BY <1>4
<1>7. s \in Sides(R, 1) \/ s \in Sides(L, -1) <=>
         s \in Int \X Int /\ \E d \in Quarter(r) : AtSide(f, d, s) /\ f.top - d[2] <= s[2] /\ s[2] <= f.bottom + d[2]
  <2>1. \A d \in Quarter(r) : L + (-1) * d[1] = L - d[1] /\ R + 1 * d[1] = R + d[1]
    BY <1>1, <1>5
  <2>2. /\ s \in Sides(R, 1) <=> s \in Int \X Int /\ \E d \in Quarter(r) : s[1] = R + 1 * d[1] /\ T - d[2] <= s[2] /\ s[2] <= B + d[2]
        /\ s \in Sides(L, -1) <=> s \in Int \X Int /\ \E d \in Quarter(r) : s[1] = L + (-1) * d[1] /\ T - d[2] <= s[2] /\ s[2] <= B + d[2]
    BY <1>1, <1>3
  <2> QED
    BY <1>1, <2>1, <2>2 DEF AtSide
<1>8. InRound(x, y, w, tall, r, s) <=>
         \/ f.left <= s[1] /\ s[1] <= f.right /\ y <= s[2] /\ s[2] <= y + tall - 1
         \/ \E d \in Quarter(r) : AtSide(f, d, s) /\ f.top - d[2] <= s[2] /\ s[2] <= f.bottom + d[2]
  BY DEF InRound, f
<1> QED
  BY <1>1, <1>2, <1>6, <1>7, <1>8

\* A rounded rectangle reaches as far as one with corners, and its area is that of its outline: but
\* for radius 1 and height 2, where a corner's column has no length, in the middle row between them.
LEMMA RoundWithin ==
  ASSUME NEW x \in Int, NEW y \in Int, NEW w \in Nat, NEW tall \in Nat, NEW r \in Nat \ {0}, 2 * r <= w, 2 * r <= tall
  PROVE  DrawRoundRect(x, y, w, tall, r) \subseteq Block(x, y, w, tall)
<1> DEFINE f == Frame(x, y, w, tall, r)
<1>1. f.left = x + r /\ f.right = x + w - r - 1 /\ f.top = y + r /\ f.bottom = y + tall - r - 1
  BY DEF Frame
<1> HIDE DEF f
<1> SUFFICES ASSUME NEW s \in DrawRoundRect(x, y, w, tall, r) PROVE s \in Block(x, y, w, tall)
  OBVIOUS
<1>2. /\ s \in Int \X Int
      /\ \/ f.left <= s[1] /\ s[1] <= f.right /\ (s[2] = y \/ s[2] = y + tall - 1)
         \/ (s[1] = x \/ s[1] = x + w - 1) /\ f.top <= s[2] /\ s[2] <= f.bottom
         \/ \E d \in Quarter(r) : AtSide(f, d, s) /\ (s[2] = f.top - d[2] \/ s[2] = f.bottom + d[2])
  <2>1. s \in Int \X Int /\ OnRound(x, y, w, tall, r, s)
    BY RoundIs
  <2> QED
    BY <2>1 DEF OnRound, f
<1>3. x <= s[1] /\ s[1] <= x + w - 1 /\ y <= s[2] /\ s[2] <= y + tall - 1
  <2>1. s[1] \in Int /\ s[2] \in Int
    BY <1>2
  <2>2. CASE f.left <= s[1] /\ s[1] <= f.right /\ (s[2] = y \/ s[2] = y + tall - 1)
    BY <1>1, <2>1, <2>2
  <2>3. CASE (s[1] = x \/ s[1] = x + w - 1) /\ f.top <= s[2] /\ s[2] <= f.bottom
    BY <1>1, <2>1, <2>3
  <2>4. ASSUME NEW d \in Quarter(r), AtSide(f, d, s) /\ (s[2] = f.top - d[2] \/ s[2] = f.bottom + d[2])
        PROVE  x <= s[1] /\ s[1] <= x + w - 1 /\ y <= s[2] /\ s[2] <= y + tall - 1
    <3>1. d[1] \in 0 .. r /\ d[2] \in 0 .. r
      BY QuarterIs
    <3> QED
      BY <1>1, <2>1, <2>4, <3>1 DEF AtSide
  <2> QED
    BY <1>2, <2>2, <2>3, <2>4
<1> QED
  BY <1>2, <1>3, BlockIs

LEMMA RoundFilled ==
  ASSUME NEW x \in Int, NEW y \in Int, NEW w \in Nat, NEW tall \in Nat, NEW r \in Nat \ {0}, 2 * r <= w, 2 * r <= tall, tall > 2
  PROVE  FillRoundRect(x, y, w, tall, r) = Hull(DrawRoundRect(x, y, w, tall, r))
<1> DEFINE f == Frame(x, y, w, tall, r)
           drawn == DrawRoundRect(x, y, w, tall, r)
           c == 2 * y + tall - 1
           OnOutline(s) == \/ f.left <= s[1] /\ s[1] <= f.right /\ (s[2] = y \/ s[2] = y + tall - 1)
                           \/ (s[1] = x \/ s[1] = x + w - 1) /\ f.top <= s[2] /\ s[2] <= f.bottom
                           \/ \E d \in Quarter(r) : AtSide(f, d, s) /\ (s[2] = f.top - d[2] \/ s[2] = f.bottom + d[2])
           Inside(s) == \/ f.left <= s[1] /\ s[1] <= f.right /\ y <= s[2] /\ s[2] <= y + tall - 1
                        \/ \E d \in Quarter(r) : AtSide(f, d, s) /\ f.top - d[2] <= s[2] /\ s[2] <= f.bottom + d[2]
<1>1. f.left = x + r /\ f.right = x + w - r - 1 /\ f.top = y + r /\ f.bottom = y + tall - r - 1 /\ c \in Int
  BY DEF Frame
<1>2. \A s : s \in drawn <=> s \in Int \X Int /\ OnOutline(s)
  <2> SUFFICES ASSUME NEW s PROVE s \in drawn <=> s \in Int \X Int /\ OnOutline(s)
    OBVIOUS
  <2>1. OnRound(x, y, w, tall, r, s) <=> OnOutline(s)
    BY DEF OnRound
  <2> HIDE DEF OnOutline
  <2> QED
    BY <2>1, RoundIs
<1>3. \A s : s \in FillRoundRect(x, y, w, tall, r) <=> s \in Int \X Int /\ Inside(s)
  <2> SUFFICES ASSUME NEW s PROVE s \in FillRoundRect(x, y, w, tall, r) <=> s \in Int \X Int /\ Inside(s)
    OBVIOUS
  <2>1. InRound(x, y, w, tall, r, s) <=> Inside(s)
    BY DEF InRound
  <2> HIDE DEF Inside
  <2> QED
    BY <2>1, RoundFillIs
<1>4. \A d \in Quarter(r) : d[1] \in 0 .. r /\ d[2] \in 0 .. r /\ (r > 1 => d[2] > 0)
  BY QuarterIs
<1> HIDE DEF f, drawn
<1>5. ASSUME NEW o \in drawn PROVE <<o[1], c - o[2]>> \in drawn
  <2> DEFINE m == <<o[1], c - o[2]>>
  <2>1. o \in Int \X Int /\ OnOutline(o)
    BY <1>2
  <2>2. m \in Int \X Int /\ m[1] = o[1] /\ m[2] = c - o[2] /\ o[2] \in Int
    BY <1>1, <2>1
  <2> HIDE DEF m
  <2>5. ASSUME NEW d \in Quarter(r), AtSide(f, d, o) /\ (o[2] = f.top - d[2] \/ o[2] = f.bottom + d[2])
        PROVE  m \in drawn
    <3>1. AtSide(f, d, m)
      BY <2>2, <2>5 DEF AtSide
    <3>2. m[2] = f.top - d[2] \/ m[2] = f.bottom + d[2]
      BY <1>1, <1>4, <2>2, <2>5
    <3> QED
      BY <1>2, <2>2, <3>1, <3>2
  <2>6. m \in drawn
    <3>1. ASSUME f.left <= o[1] /\ o[1] <= f.right /\ (o[2] = y \/ o[2] = y + tall - 1) PROVE m \in drawn
      <4>1. m[2] = y \/ m[2] = y + tall - 1
        BY <1>1, <2>2, <3>1
      <4> QED
        BY <1>2, <2>2, <3>1, <4>1
    <3>2. ASSUME (o[1] = x \/ o[1] = x + w - 1) /\ f.top <= o[2] /\ o[2] <= f.bottom PROVE m \in drawn
      <4>1. f.top <= m[2] /\ m[2] <= f.bottom
        BY <1>1, <2>2, <3>2
      <4> QED
        BY <1>2, <2>2, <3>2, <4>1
    <3> QED
      BY <2>1, <2>5, <3>1, <3>2
  <2> QED
    BY <2>6 DEF m
<1>6. ASSUME NEW s PROVE s \in Hull(drawn) <=> s \in Int \X Int /\ Spanned(drawn, c, s)
  <2>1. drawn \in SUBSET (Int \X Int)
    BY <1>2
  <2> HIDE DEF c
  <2> QED
    BY <1>1, <1>5, <2>1, MirroredHull
<1>7. ASSUME NEW s \in Int \X Int, Inside(s) PROVE Spanned(drawn, c, s)
  <2>1. s[1] \in Int /\ s[2] \in Int
    OBVIOUS
  <2>2. ASSUME f.left <= s[1] /\ s[1] <= f.right /\ y <= s[2] /\ s[2] <= y + tall - 1 PROVE Spanned(drawn, c, s)
    <3>1. <<s[1], y>> \in drawn
      BY <1>2, <2>1, <2>2
    <3>2. s[2] <= c - y
      BY <2>1, <2>2
    <3> QED
      BY <2>2, <3>1, <3>2 DEF Spanned
  <2>3. ASSUME NEW d \in Quarter(r), AtSide(f, d, s) /\ f.top - d[2] <= s[2] /\ s[2] <= f.bottom + d[2] PROVE Spanned(drawn, c, s)
    <3> DEFINE o == <<s[1], f.top - d[2]>>
    <3>1. o \in Int \X Int /\ o[1] = s[1] /\ o[2] = f.top - d[2]
      BY <1>1, <1>4, <2>1
    <3> HIDE DEF o
    <3>2. AtSide(f, d, o)
      BY <2>3, <3>1 DEF AtSide
    <3>3. o \in drawn
      BY <1>2, <3>1, <3>2
    <3>4. s[2] <= c - o[2]
      BY <1>1, <1>4, <2>1, <2>3, <3>1
    <3> QED
      BY <2>3, <3>1, <3>3, <3>4 DEF Spanned
  <2> QED
    BY <1>7, <2>2, <2>3
<1>8. ASSUME NEW s \in Int \X Int, Spanned(drawn, c, s) PROVE Inside(s)
  <2>1. PICK o \in drawn : o[1] = s[1] /\ o[2] <= s[2] /\ s[2] <= c - o[2]
    BY <1>8 DEF Spanned
  <2>2. o[1] \in Int /\ o[2] \in Int /\ s[2] \in Int /\ OnOutline(o)
    BY <1>2
  <2>3. ASSUME f.left <= o[1] /\ o[1] <= f.right /\ (o[2] = y \/ o[2] = y + tall - 1) PROVE Inside(s)
    <3>1. y <= s[2] /\ s[2] <= y + tall - 1
      BY <2>1, <2>2, <2>3
    <3> QED
      BY <2>1, <2>3, <3>1
  <2>4. ASSUME (o[1] = x \/ o[1] = x + w - 1) /\ f.top <= o[2] /\ o[2] <= f.bottom PROVE Inside(s)
    <3>1. PICK d \in Quarter(r) : d[1] = r
      BY QuarterIs
    <3>2. AtSide(f, d, s)
      BY <1>1, <2>1, <2>4, <3>1 DEF AtSide
    <3>3. f.top - d[2] <= s[2] /\ s[2] <= f.bottom + d[2]
      BY <1>1, <1>4, <2>1, <2>2, <2>4
    <3> QED
      BY <3>2, <3>3
  <2>5. ASSUME NEW d \in Quarter(r), AtSide(f, d, o) /\ (o[2] = f.top - d[2] \/ o[2] = f.bottom + d[2]) PROVE Inside(s)
    <3>1. AtSide(f, d, s)
      BY <2>1, <2>5 DEF AtSide
    <3>2. d[2] \in 0 .. r /\ (r > 1 => d[2] > 0)
      BY <1>4
    <3>3. f.top - d[2] <= f.bottom + d[2]
      <4>1. CASE r > 1
        BY <1>1, <3>2, <4>1
      <4>2. CASE r = 1
        BY <1>1, <3>2, <4>2
      <4> QED
        BY <4>1, <4>2
    <3>4. f.top - d[2] <= s[2] /\ s[2] <= f.bottom + d[2]
      BY <1>1, <2>1, <2>2, <2>5, <3>2, <3>3
    <3> QED
      BY <3>1, <3>4
  <2> QED
    BY <2>2, <2>3, <2>4, <2>5
<1> HIDE DEF Inside
<1>9. \A s : s \in FillRoundRect(x, y, w, tall, r) <=> s \in Hull(drawn)
  BY <1>3, <1>6, <1>7, <1>8
<1> QED
  BY <1>9, Zenon DEF drawn

-----------------------------------------------------------------------------
\* Every action draws one shape as it should be.
LEMMA PointsAre == Points \subseteq Int \X Int /\ Corners \subseteq Nat /\ Centres \subseteq Nat /\ Radii \subseteq Nat
BY TftAssumption DEF Points

LEMMA ShapeDrawn ==
  ASSUME TftNext
  PROVE  DrawsTheShape'
<1>1. CASE TftLine
  <2>1. PICK p \in Points, q \in Points : Shows(<<"line", p, q>>, LinePixels(p, q), {})
    BY <1>1 DEF TftLine
  <2>2. shape' = <<"line", p, q>> /\ outline' = LinePixels(p, q) \cap Screen
    BY <2>1 DEF Shows
  <2>3. p \in Int \X Int /\ q \in Int \X Int
    BY PointsAre
  <2>4. LineDrawn'
    BY <2>2, <2>3, LineHolds DEF LineDrawn
  <2> QED
    BY <2>2, <2>4 DEF DrawsTheShape
<1>2. CASE TftTriangle
  <2>1. PICK p \in Points, q \in Points, r \in Points :
           Shows(<<"triangle", p, q, r>>, DrawTriangle(p, q, r), FillTriangle(p, q, r))
    BY <1>2 DEF TftTriangle
  <2>2. shape' = <<"triangle", p, q, r>> /\ area' = FillTriangle(p, q, r) \cap Screen
    BY <2>1 DEF Shows
  <2>3. p \in Int \X Int /\ q \in Int \X Int /\ r \in Int \X Int
    BY PointsAre
  <2>4. IsTriangle(area', shape'[2], shape'[3], shape'[4])
    BY <2>2, <2>3, TriangleHolds
  <2> QED
    BY <2>2, <2>4 DEF DrawsTheShape
<1>3. CASE TftCircle
  <2>1. PICK x \in Centres, y \in Centres, r \in Radii \ {0} :
           Shows(<<"circle", <<x, y>>, r>>, DrawCircle(x, y, r), IF x >= r /\ y >= r THEN FillCircle(x, y, r) ELSE {})
    BY <1>3 DEF TftCircle
  <2>2. /\ shape' = <<"circle", <<x, y>>, r>> /\ outline' = DrawCircle(x, y, r) \cap Screen
        /\ x >= r /\ y >= r => area' = FillCircle(x, y, r) \cap Screen
    BY <2>1 DEF Shows
  <2>3. x \in Int /\ y \in Int /\ r \in Nat \ {0}
    BY PointsAre
  <2>4. CircleDrawn'
    BY <2>2, <2>3, CircleHolds, CircleFilled DEF CircleDrawn
  <2> QED
    BY <2>2, <2>4 DEF DrawsTheShape
<1>4. CASE TftRect
  <2>1. PICK p \in Points, w \in Corners \ {0}, tall \in Corners \ {0}, r \in Radii :
           /\ 2 * r <= w /\ 2 * r <= tall
           /\ Shows(<<"rect", p, w, tall, r>>,
                    IF r = 0 THEN DrawRect(p[1], p[2], w, tall) ELSE DrawRoundRect(p[1], p[2], w, tall, r),
                    IF r = 0 THEN Block(p[1], p[2], w, tall) ELSE FillRoundRect(p[1], p[2], w, tall, r))
    BY <1>4 DEF TftRect
  <2> DEFINE x == p[1]
             y == p[2]
  <2>2. x \in Int /\ y \in Int /\ w \in Nat \ {0} /\ tall \in Nat \ {0} /\ r \in Nat
    BY PointsAre
  <2>3. /\ shape' = <<"rect", p, w, tall, r>>
        /\ r = 0 => outline' = DrawRect(x, y, w, tall) \cap Screen /\ area' = Block(x, y, w, tall) \cap Screen
        /\ r # 0 => outline' = DrawRoundRect(x, y, w, tall, r) \cap Screen /\ area' = FillRoundRect(x, y, w, tall, r) \cap Screen
    BY <2>1 DEF Shows
  <2>4. shape'[2] = p /\ shape'[3] = w /\ shape'[4] = tall /\ shape'[5] = r
    BY <2>3
  <2>5. CASE r = 0
    <3>1. DrawRect(x, y, w, tall) \subseteq Block(x, y, w, tall)
      <4> HIDE DEF x, y
      <4> SUFFICES ASSUME NEW s \in DrawRect(x, y, w, tall) PROVE s \in Block(x, y, w, tall)
        OBVIOUS
      <4>1. s \in HLine(x, y, w) \/ s \in HLine(x, y + tall - 1, w) \/ s \in VLine(x, y, tall) \/ s \in VLine(x + w - 1, y, tall)
        BY DEF DrawRect
      <4>2. y + tall - 1 \in Int /\ x + w - 1 \in Int
        BY <2>2
      <4>3. s \in Int \X Int /\ x <= s[1] /\ s[1] <= x + w - 1 /\ y <= s[2] /\ s[2] <= y + tall - 1
        <5>1. CASE s \in HLine(x, y, w)
          BY <2>2, <5>1, HLineIs
        <5>2. CASE s \in HLine(x, y + tall - 1, w)
          BY <2>2, <4>2, <5>2, HLineIs
        <5>3. CASE s \in VLine(x, y, tall)
          BY <2>2, <5>3, VLineIs
        <5>4. CASE s \in VLine(x + w - 1, y, tall)
          BY <2>2, <4>2, <5>4, VLineIs
        <5> QED
          BY <4>1, <5>1, <5>2, <5>3, <5>4
      <4> QED
        BY <2>2, <4>3, BlockIs
    <3>2. RectDrawn'
      BY <2>3, <2>4, <2>5, <3>1 DEF RectDrawn
    <3> QED
      BY <2>3, <3>2 DEF DrawsTheShape
  <2>6. CASE r # 0
    <3>1. r \in Nat \ {0} /\ w \in Nat /\ tall \in Nat
      BY <2>2, <2>6
    <3>2. DrawRoundRect(x, y, w, tall, r) \subseteq Block(x, y, w, tall)
      BY <2>1, <2>2, <3>1, RoundWithin
    <3>3. tall > 2 => FillRoundRect(x, y, w, tall, r) = Hull(DrawRoundRect(x, y, w, tall, r))
      BY <2>1, <2>2, <3>1, RoundFilled
    <3>4. RectDrawn'
      BY <2>3, <2>4, <2>6, <3>2, <3>3 DEF RectDrawn
    <3> QED
      BY <2>3, <3>4 DEF DrawsTheShape
  <2> QED
    BY <2>5, <2>6
<1>5. CASE Background
  BY <1>5 DEF Background, DrawsTheShape
<1> QED
  BY <1>1, <1>2, <1>3, <1>4, <1>5 DEF TftNext

\* (Adafruit_GFX.cpp 55-359) Whatever its size and wherever it lies: a line keeps within half a pixel
\* of the true one without a gap, a triangle is filled without gaps and less than a pixel too wide, a
\* circle keeps within half a pixel of its radius, and circles and rounded rectangles are filled up to
\* their outlines, but for rounded ones of two rows.
THEOREM DrawsTheShapeHolds == TftInit /\ [][TftNext]_tftVars => []DrawsTheShape
<1>1. TftInit => DrawsTheShape
  BY DEF TftInit, DrawsTheShape
<1>2. ASSUME DrawsTheShape, [TftNext]_tftVars PROVE DrawsTheShape'
  <2>1. CASE TftNext
    BY <2>1, ShapeDrawn
  <2>2. CASE UNCHANGED tftVars
    BY <1>2, <2>2 DEF tftVars, DrawsTheShape, LineDrawn, CircleDrawn, RectDrawn
  <2> QED
    BY <1>2, <2>1, <2>2
<1> QED
  BY <1>1, <1>2, PTL
=============================================================================

----------------------------- MODULE NatLemmas -----------------------------
(***************************************************************************)
(* Facts about numbers and sets that the proofs of several components      *)
(* need.  The induction over the naturals is that of the library on finite *)
(* sets: the intervals 0..n are well-founded under inclusion.              *)
(***************************************************************************)
EXTENDS Integers, FiniteSetTheorems, FiniteSetsExt, TLAPS

\* Every set of naturals that is not empty has a least element.
LEMMA LeastElement ==
  ASSUME NEW S \in SUBSET Nat, S # {}
  PROVE  \E x \in S : \A y \in S : x <= y
<1> DEFINE T == {0..n : n \in S}
           R == StrictSubsetOrdering(Nat)
<1>1. T \subseteq FiniteSubsetsOf(Nat) /\ T # {}
  <2>1. ASSUME NEW n \in S PROVE 0..n \in FiniteSubsetsOf(Nat)
    BY FS_Interval DEF FiniteSubsetsOf
  <2> QED
    BY <2>1
<1>2. IsWellFoundedOn(R, FiniteSubsetsOf(Nat))
  BY FS_StrictSubsetOrderingWellFounded
<1>3. PICK t \in T : \A u \in T : ~(<<u, t>> \in R)
  <2> HIDE DEF T, R
  <2> QED
    BY <1>1, <1>2, WFMin
<1>4. PICK x \in S : t = 0..x
  OBVIOUS
<1>5. ASSUME NEW y \in S, y < x PROVE FALSE
  <2>1. 0..y \subseteq 0..x /\ x \in 0..x /\ x \notin 0..y
    BY <1>5
  <2>2. 0..y # 0..x
    BY <2>1
  <2>3. <<0..y, t>> \in R
    BY <2>1, <2>2, <1>4 DEF StrictSubsetOrdering
  <2>4. 0..y \in T
    OBVIOUS
  <2> HIDE DEF T, R
  <2> QED
    BY <2>3, <2>4, <1>3
<1> QED
  BY <1>5

\* Induction in the form that needs no predicate for a parameter.
LEMMA SetInduction ==
  ASSUME NEW S, 0 \in S, \A n \in Nat : n \in S => n + 1 \in S
  PROVE  Nat \subseteq S
<1> SUFFICES ASSUME Nat \ S # {} PROVE FALSE
  OBVIOUS
<1>1. PICK x \in Nat \ S : \A y \in Nat \ S : x <= y
  BY LeastElement
<1>2. x - 1 \in Nat /\ x - 1 \in S
  BY <1>1
<1> QED
  BY <1>1, <1>2

\* A run of a loop over 0 .. N - 1: the states before and after each of its rounds.
LoopRun(f, N, S, base, step) ==
    f \in [0 .. N -> S] /\ f[0] = base /\ \A i \in 0 .. N - 1 : f[i + 1] = step[i][f[i]]

LEMMA LoopExists ==
  ASSUME NEW N \in Nat, NEW S, NEW base \in S, NEW step \in [0 .. N - 1 -> [S -> S]]
  PROVE  \E f : LoopRun(f, N, S, base, step)
<1> DEFINE Run(n, f) == f[0] = base /\ \A i \in 0 .. n - 1 : f[i + 1] = step[i][f[i]]
           R == {n \in Nat : n <= N => \E f \in [0 .. N -> S] : Run(n, f)}
<1>1. 0 \in R
  <2>1. [i \in 0 .. N |-> base] \in [0 .. N -> S] /\ Run(0, [i \in 0 .. N |-> base])
    OBVIOUS
  <2> QED
    BY <2>1
<1>2. ASSUME NEW n \in Nat, n \in R PROVE n + 1 \in R
  <2> SUFFICES ASSUME n + 1 <= N PROVE \E f \in [0 .. N -> S] : Run(n + 1, f)
    OBVIOUS
  <2>1. n <= N /\ n \in 0 .. N - 1
    OBVIOUS
  <2>2. PICK f \in [0 .. N -> S] : Run(n, f)
    BY <1>2, <2>1
  <2> DEFINE g == [f EXCEPT ![n + 1] = step[n][f[n]]]
  <2>3. step[n][f[n]] \in S
    <3>1. step[n] \in [S -> S] /\ f[n] \in S
      BY <2>1
    <3> QED
      BY <3>1
  <2>4. g \in [0 .. N -> S]
    BY <2>3
  <2>5. g[n + 1] = step[n][f[n]] /\ \A i \in 0 .. n : g[i] = f[i]
    BY <2>1
  <2> HIDE DEF g
  <2>6. Run(n + 1, g)
    <3>1. g[0] = base
      BY <2>2, <2>5
    <3>2. ASSUME NEW i \in 0 .. n PROVE g[i + 1] = step[i][g[i]]
      <4>1. CASE i = n
        BY <2>5, <4>1
      <4>2. CASE i \in 0 .. n - 1
        <5>1. i + 1 \in 0 .. n
          BY <4>2
        <5> QED
          BY <2>2, <2>5, <4>2, <5>1
      <4> QED
        BY <4>1, <4>2
    <3> QED
      BY <3>1, <3>2
  <2> QED
    BY <2>4, <2>6
<1>3. Nat \subseteq R
  <2> HIDE DEF R
  <2> QED
    BY <1>1, <1>2, SetInduction
<1>4. \E f \in [0 .. N -> S] : Run(N, f)
  <2>1. N \in R
    BY <1>3
  <2> HIDE DEF Run
  <2> QED
    BY <2>1
<1>e. PICK f \in [0 .. N -> S] : Run(N, f)
  BY <1>4
<1>5. f \in [0 .. N -> S] /\ f[0] = base /\ \A i \in 0 .. N - 1 : f[i + 1] = step[i][f[i]]
  BY <1>e
<1>6. LoopRun(f, N, S, base, step)
  BY <1>5, Zenon DEF LoopRun
<1> QED
  BY <1>6

LEMMA MinOf ==
  ASSUME NEW S \in SUBSET Nat, S # {}
  PROVE  Min(S) \in S /\ \A y \in S : Min(S) <= y
  BY LeastElement DEF Min

LEMMA MaxOf ==
  ASSUME NEW n \in Nat, NEW S \in SUBSET (0..n), S # {}
  PROVE  Max(S) \in S /\ \A y \in S : Max(S) >= y
<1> DEFINE D == {n - x : x \in S}
<1>1. D \in SUBSET Nat /\ D # {}
  <2>1. ASSUME NEW x \in S PROVE n - x \in Nat /\ n - x \in D
    OBVIOUS
  <2> QED
    BY <2>1
<1>2. PICK d \in D : \A e \in D : d <= e
  BY <1>1, LeastElement
<1>3. PICK x \in S : d = n - x
  BY d \in D
<1>4. ASSUME NEW y \in S PROVE x >= y
  <2>1. n - y \in D
    OBVIOUS
  <2>2. d <= n - y
    BY <1>2, <2>1
  <2> QED
    BY <1>3, <2>2
<1> QED
  BY <1>4 DEF Max

\* A finite set whose elements are all equal has at most one.
LEMMA AtMostOne ==
  ASSUME NEW S, IsFiniteSet(S), \A x, y \in S : x = y
  PROVE  Cardinality(S) <= 1
<1>1. CASE S = {}
  BY <1>1, FS_EmptySet
<1>2. ASSUME NEW x \in S PROVE Cardinality(S) <= 1
  <2>1. S = {x}
    OBVIOUS
  <2> QED
    BY <2>1, FS_Singleton
<1> QED
  BY <1>1, <1>2
-----------------------------------------------------------------------------
(* Division. *)

LEMMA DivMod ==
  ASSUME NEW n \in Nat, NEW d \in Nat \ {0}
  PROVE  /\ n \div d \in Nat /\ n % d \in 0..(d - 1) /\ n % d <= n
         /\ n = (n \div d) * d + (n % d)
  OBVIOUS

LEMMA ModSmall ==
  ASSUME NEW r \in Nat, NEW d \in Nat \ {0}, r < d
  PROVE  r % d = r
  OBVIOUS

\* A quotient is known by its product and a remainder.
LEMMA DivUnique ==
  ASSUME NEW q \in Nat, NEW r \in Nat, NEW d \in Nat \ {0}, r < d
  PROVE  (q * d + r) \div d = q /\ (q * d + r) % d = r
  OBVIOUS
-----------------------------------------------------------------------------
(* Sums over finite sets: what the fold of the library computes, from the  *)
(* function of all subsets that it is defined by.                          *)

SumOver(v, I) == MapThenSumSet(LAMBDA i : v[i], I)
Pick(s) == CHOOSE x \in s : TRUE
Around(v, I, g) == [s \in SUBSET I |-> IF s = {} THEN 0 ELSE v[Pick(s)] + g[s \ {Pick(s)}]]
Summing(v, I, g) == g = Around(v, I, g)

\* What becomes of a subset that loses an element.
LEMMA SubsetSize ==
  ASSUME NEW I, IsFiniteSet(I), NEW s \in SUBSET I
  PROVE  /\ IsFiniteSet(s) /\ Cardinality(s) \in 0 .. Cardinality(I) /\ (Cardinality(s) = 0 <=> s = {})
         /\ \A x \in s : s \ {x} \in SUBSET I /\ Cardinality(s \ {x}) = Cardinality(s) - 1
<1>1. IsFiniteSet(s) /\ Cardinality(s) <= Cardinality(I)
  BY FS_Subset
<1>2. Cardinality(s) \in Nat /\ Cardinality(I) \in Nat
  BY <1>1, FS_CardinalityType
<1>3. Cardinality(s) = 0 <=> s = {}
  BY <1>1, FS_EmptySet
<1>4. \A x \in s : Cardinality(s \ {x}) = Cardinality(s) - 1
  BY <1>1, FS_RemoveElement
<1> QED
  BY <1>1, <1>2, <1>3, <1>4

\* The element that a sum takes first is one of the set.
LEMMA Picked == ASSUME NEW s, s # {} PROVE Pick(s) \in s
  BY DEF Pick

\* One more round of the recursion is an integer for every subset.
LEMMA AroundType ==
  ASSUME NEW I, NEW v, \A i \in I : v[i] \in Int, NEW g \in [SUBSET I -> Int]
  PROVE  Around(v, I, g) \in [SUBSET I -> Int]
<1>1. ASSUME NEW s \in SUBSET I PROVE (IF s = {} THEN 0 ELSE v[Pick(s)] + g[s \ {Pick(s)}]) \in Int
  <2>1. CASE s = {}
    BY <2>1
  <2>2. CASE s # {}
    <3>1. Pick(s) \in I /\ s \ {Pick(s)} \in SUBSET I
      BY <2>2, Picked
    <3>2. v[Pick(s)] \in Int /\ g[s \ {Pick(s)}] \in Int
      BY <3>1
    <3> QED
      BY <2>2, <3>2
  <2> QED
    BY <2>1, <2>2
<1> QED
  BY <1>1 DEF Around

\* A loop whose rounds are all the same.
LEMMA RoundsExist ==
  ASSUME NEW M \in Nat, NEW S, NEW base \in S, NEW round \in [S -> S]
  PROVE  \E f \in [0 .. M + 1 -> S] : f[0] = base /\ \A i \in 0 .. M : f[i + 1] = round[f[i]]
<1> DEFINE K == M + 1
           step == [i \in 0 .. K - 1 |-> round]
<1>1. K \in Nat /\ step \in [0 .. K - 1 -> [S -> S]] /\ 0 .. K - 1 = 0 .. M
  OBVIOUS
<1> HIDE DEF K, step
<1>2. PICK f : LoopRun(f, K, S, base, step)
  BY <1>1, LoopExists
<1>3. f \in [0 .. K -> S] /\ f[0] = base /\ \A i \in 0 .. K - 1 : f[i + 1] = step[i][f[i]]
  BY <1>2 DEF LoopRun
<1>4. \A i \in 0 .. K - 1 : step[i] = round
  BY DEF step
<1> QED
  BY <1>1, <1>3, <1>4 DEF K

\* The function that a sum unfolds to exists: it is reached in as many rounds as there are elements.
LEMMA SummingExists ==
  ASSUME NEW I, IsFiniteSet(I), NEW v, \A i \in I : v[i] \in Int
  PROVE  \E g \in [SUBSET I -> Int] : Summing(v, I, g)
<1> DEFINE N == Cardinality(I)
           S == [SUBSET I -> Int]
           base == [s \in SUBSET I |-> 0]
           round == [g \in S |-> Around(v, I, g)]
<1>1. N \in Nat
  BY FS_CardinalityType
<1>2. ASSUME NEW g \in S PROVE Around(v, I, g) \in S
  BY AroundType
<1>3. base \in S
  OBVIOUS
<1>4. round \in [S -> S] /\ \A g \in S : round[g] = Around(v, I, g)
  <2> HIDE DEF S
  <2> QED
    BY <1>2
<1>5. \E f \in [0 .. N + 1 -> S] : f[0] = base /\ \A i \in 0 .. N : f[i + 1] = round[f[i]]
  <2> HIDE DEF S, N, base, round
  <2> QED
    BY <1>1, <1>3, <1>4, RoundsExist
<1>f. PICK f \in [0 .. N + 1 -> S] : f[0] = base /\ \A i \in 0 .. N : f[i + 1] = round[f[i]]
  BY <1>5
<1>6. f \in [0 .. N + 1 -> S] /\ f[0] = base /\ \A i \in 0 .. N : f[i + 1] = Around(v, I, f[i])
  <2> SUFFICES ASSUME NEW i \in 0 .. N PROVE f[i + 1] = Around(v, I, f[i])
    BY <1>f
  <2>1. i \in 0 .. N + 1
    BY <1>1
  <2> HIDE DEF S, round, N, base
  <2>2. f[i] \in S /\ f[i + 1] = round[f[i]]
    BY <1>f, <2>1
  <2> QED
    BY <1>4, <2>2
<1> HIDE DEF round
<1> DEFINE R == {n \in Nat : n <= N => \A s \in SUBSET I : Cardinality(s) <= n => f[n + 1][s] = f[n][s]}
<1>7. 0 \in R
  <2>1. ASSUME NEW s \in SUBSET I, Cardinality(s) <= 0 PROVE f[0 + 1][s] = f[0][s]
    <3>1. s = {}
      <4>1. Cardinality(s) \in 0 .. N /\ (Cardinality(s) = 0 <=> s = {})
        BY SubsetSize
      <4> QED
        BY <1>1, <2>1, <4>1
    <3>2. f[0 + 1] = Around(v, I, f[0])
      BY <1>1, <1>6
    <3>3. Around(v, I, f[0])[s] = 0 /\ base[s] = 0
      BY <3>1 DEF Around
    <3> QED
      BY <1>6, <3>2, <3>3
  <2> QED
    BY <2>1
<1>8. ASSUME NEW n \in Nat, n \in R PROVE n + 1 \in R
  <2>1. ASSUME n + 1 <= N, NEW s \in SUBSET I, Cardinality(s) <= n + 1 PROVE f[n + 1 + 1][s] = f[n + 1][s]
    <3>1. n <= N /\ n \in 0 .. N /\ n + 1 \in 0 .. N
      BY <1>1, <2>1
    <3>2. f[n + 1 + 1] = Around(v, I, f[n + 1]) /\ f[n + 1] = Around(v, I, f[n])
      BY <1>6, <3>1
    <3>3. CASE s = {}
      BY <3>2, <3>3 DEF Around
    <3>4. CASE s # {}
      <4> DEFINE t == s \ {Pick(s)}
      <4>0. t \in SUBSET I /\ Cardinality(t) = Cardinality(s) - 1 /\ Cardinality(s) \in 0 .. N
        BY <3>4, Picked, SubsetSize
      <4>1. t \in SUBSET I /\ Cardinality(t) <= n
        BY <1>1, <2>1, <4>0
      <4>2. f[n + 1][t] = f[n][t]
        BY <1>8, <3>1, <4>1
      <4>3. f[n + 1 + 1][s] = v[Pick(s)] + f[n + 1][t] /\ f[n + 1][s] = v[Pick(s)] + f[n][t]
        BY <3>2, <3>4 DEF Around
      <4> QED
        BY <4>2, <4>3
    <3> QED
      BY <3>3, <3>4
  <2> QED
    BY <2>1
<1>9. Nat \subseteq R
  <2> HIDE DEF R
  <2> QED
    BY <1>7, <1>8, SetInduction
<1> DEFINE g == f[N]
<1>10. g \in S /\ f[N + 1] = Around(v, I, g)
  <2>1. N \in 0 .. N /\ N \in 0 .. N + 1
    BY <1>1
  <2> HIDE DEF S
  <2> QED
    BY <1>6, <2>1
<1>11. \A s \in SUBSET I : Around(v, I, g)[s] = g[s]
  <2>1. \A s \in SUBSET I : Cardinality(s) <= N => f[N + 1][s] = f[N][s]
    BY <1>1, <1>9
  <2>2. \A s \in SUBSET I : Cardinality(s) <= N
    BY <1>1, SubsetSize
  <2> QED
    BY <1>10, <2>1, <2>2
<1>12. g = Around(v, I, g)
  <2>1. Around(v, I, g) \in S
    BY <1>2, <1>10
  <2> HIDE DEF g
  <2> QED
    BY <1>10, <1>11, <2>1
<1> QED
  BY <1>10, <1>12 DEF Summing

\* The functions of a set and of its subset agree on what they share.
LEMMA SummingSame ==
  ASSUME NEW I, IsFiniteSet(I), NEW v, NEW J \in SUBSET I, NEW g, NEW h, Summing(v, I, g), Summing(v, J, h)
  PROVE  \A s \in SUBSET J : g[s] = h[s]
<1> DEFINE R == {n \in Nat : \A s \in SUBSET J : Cardinality(s) = n => g[s] = h[s]}
<1>0. /\ g[{}] = 0 /\ h[{}] = 0
      /\ \A s \in SUBSET I : s # {} => g[s] = v[Pick(s)] + g[s \ {Pick(s)}]
      /\ \A s \in SUBSET J : s # {} => h[s] = v[Pick(s)] + h[s \ {Pick(s)}]
  BY DEF Summing, Around
<1>f. IsFiniteSet(J)
  BY SubsetSize
<1>1. 0 \in R
  <2>1. \A s \in SUBSET J : Cardinality(s) = 0 => s = {}
    BY <1>f, SubsetSize
  <2> QED
    BY <1>0, <2>1
<1>2. ASSUME NEW n \in Nat, n \in R PROVE n + 1 \in R
  <2> SUFFICES ASSUME NEW s \in SUBSET J, Cardinality(s) = n + 1 PROVE g[s] = h[s]
    OBVIOUS
  <2>1. s # {} /\ s \in SUBSET I
    <3>1. Cardinality(s) = 0 <=> s = {}
      BY <1>f, SubsetSize
    <3> QED
      BY <3>1
  <2> DEFINE t == s \ {Pick(s)}
  <2>2. t \in SUBSET J /\ Cardinality(t) = n
    <3>1. Pick(s) \in s
      BY <2>1, Picked
    <3>2. \A x \in s : Cardinality(s \ {x}) = Cardinality(s) - 1
      BY <1>f, SubsetSize
    <3>3. Cardinality(t) = Cardinality(s) - 1
      BY <3>1, <3>2
    <3> QED
      BY <3>3
  <2>3. g[t] = h[t]
    BY <1>2, <2>2
  <2>4. g[s] = v[Pick(s)] + g[t] /\ h[s] = v[Pick(s)] + h[t]
    BY <1>0, <2>1
  <2> QED
    BY <2>3, <2>4
<1>3. Nat \subseteq R
  <2> HIDE DEF R
  <2> QED
    BY <1>1, <1>2, SetInduction
<1>4. \A s \in SUBSET J : Cardinality(s) \in Nat
  BY <1>f, SubsetSize, FS_CardinalityType
<1> QED
  BY <1>3, <1>4

\* So the sum over a subset is the value of the function of the whole set.
LEMMA SumIs ==
  ASSUME NEW I, IsFiniteSet(I), NEW v, \A i \in I : v[i] \in Int, NEW g, Summing(v, I, g)
  PROVE  \A s \in SUBSET I : SumOver(v, s) = g[s]
<1> SUFFICES ASSUME NEW s \in SUBSET I PROVE SumOver(v, s) = g[s]
  OBVIOUS
<1> DEFINE h == CHOOSE k : Summing(v, s, k)
<1>1. IsFiniteSet(s)
  BY SubsetSize
<1>2. \E k : Summing(v, s, k)
  BY <1>1, SummingExists
<1>3. Summing(v, s, h)
  BY <1>2
<1>4. SumOver(v, s) = h[s]
  BY DEF SumOver, MapThenSumSet, MapThenFoldSet, Summing, Around, Pick
<1> HIDE DEF h
<1> QED
  BY <1>3, <1>4, SummingSame

\* The sum of nothing is zero.
LEMMA SumEmpty == ASSUME NEW v PROVE SumOver(v, {}) = 0
<1>1. IsFiniteSet({}) /\ \A i \in {} : v[i] \in Int
  BY FS_EmptySet
<1>2. PICK g : Summing(v, {}, g)
  BY <1>1, SummingExists
<1>3. SumOver(v, {}) = g[{}]
  BY <1>1, <1>2, SumIs
<1> QED
  BY <1>2, <1>3 DEF Summing, Around

\* Any element may be taken off a sum.
LEMMA SumTakes ==
  ASSUME NEW I, IsFiniteSet(I), NEW v, \A i \in I : v[i] \in Int
  PROVE  /\ SumOver(v, I) \in Int
         /\ \A x \in I : SumOver(v, I) = v[x] + SumOver(v, I \ {x})
<1>1. PICK g \in [SUBSET I -> Int] : Summing(v, I, g)
  BY SummingExists
<1>2. \A s \in SUBSET I : SumOver(v, s) = g[s]
  BY <1>1, SumIs
<1>3. \A s \in SUBSET I : s # {} => g[s] = v[Pick(s)] + g[s \ {Pick(s)}]
  BY <1>1 DEF Summing, Around
<1> DEFINE R == {n \in Nat : \A s \in SUBSET I : Cardinality(s) = n => \A x \in s : g[s] = v[x] + g[s \ {x}]}
<1>4. 0 \in R
  <2>1. \A s \in SUBSET I : Cardinality(s) = 0 => s = {}
    BY SubsetSize
  <2> QED
    BY <2>1
<1>5. ASSUME NEW n \in Nat, n \in R PROVE n + 1 \in R
  <2> SUFFICES ASSUME NEW s \in SUBSET I, Cardinality(s) = n + 1, NEW x \in s PROVE g[s] = v[x] + g[s \ {x}]
    OBVIOUS
  <2> DEFINE p == Pick(s)
  <2>1. p \in s /\ s # {}
    BY Picked
  <2> HIDE DEF p
  <2>2. g[s] = v[p] + g[s \ {p}]
    BY <1>3, <2>1 DEF p
  <2>3. CASE p = x
    BY <2>2, <2>3
  <2>4. CASE p # x
    <3> DEFINE t == (s \ {p}) \ {x}
    <3>0. \A y \in s : s \ {y} \in SUBSET I /\ Cardinality(s \ {y}) = n
      <4>1. \A y \in s : Cardinality(s \ {y}) = Cardinality(s) - 1
        BY SubsetSize
      <4> QED
        BY <4>1
    <3>1. x \in s \ {p} /\ p \in s \ {x} /\ t = (s \ {x}) \ {p}
      BY <2>1, <2>4
    <3> HIDE DEF t
    <3>2. g[s \ {p}] = v[x] + g[t]
      <4>1. \A y \in s \ {p} : g[s \ {p}] = v[y] + g[(s \ {p}) \ {y}]
        BY <1>5, <2>1, <3>0
      <4> QED
        BY <3>1, <4>1 DEF t
    <3>3. g[s \ {x}] = v[p] + g[t]
      <4>1. \A y \in s \ {x} : g[s \ {x}] = v[y] + g[(s \ {x}) \ {y}]
        BY <1>5, <3>0
      <4> QED
        BY <3>1, <4>1
    <3>4. g[t] \in Int /\ v[x] \in Int /\ v[p] \in Int
      <4>1. t \in SUBSET I
        BY DEF t
      <4> QED
        BY <1>1, <2>1, <4>1
    <3> QED
      BY <2>2, <3>2, <3>3, <3>4
  <2> QED
    BY <2>3, <2>4
<1>6. Nat \subseteq R
  <2> HIDE DEF R
  <2> QED
    BY <1>4, <1>5, SetInduction
<1>7. ASSUME NEW x \in I PROVE g[I] = v[x] + g[I \ {x}]
  <2>1. Cardinality(I) \in Nat
    BY FS_CardinalityType
  <2> QED
    BY <1>6, <2>1
<1> QED
  BY <1>1, <1>2, <1>7

\* Two sets that a bijection relates have the same sum of what it relates.
LEMMA SumMapped ==
  ASSUME NEW J, IsFiniteSet(J), NEW I, NEW u, NEW v, NEW at, \A j \in J : at[j] \in I /\ u[j] \in Int /\ v[at[j]] = u[j],
         \A i, j \in J : at[i] = at[j] => i = j, \A i \in I : \E j \in J : at[j] = i
  PROVE  SumOver(u, J) = SumOver(v, I)
<1> DEFINE Image(s) == {at[j] : j \in s}
           R == {n \in Nat : \A s \in SUBSET J : Cardinality(s) = n => SumOver(u, s) = SumOver(v, Image(s))}
<1>1. 0 \in R
  <2> SUFFICES ASSUME NEW s \in SUBSET J, Cardinality(s) = 0 PROVE SumOver(u, s) = SumOver(v, Image(s))
    OBVIOUS
  <2>0. s = {}
    BY SubsetSize
  <2>1. s = {} /\ Image(s) = {}
    BY <2>0
  <2> QED
    BY <2>1, SumEmpty
<1>2. ASSUME NEW n \in Nat, n \in R PROVE n + 1 \in R
  <2> SUFFICES ASSUME NEW s \in SUBSET J, Cardinality(s) = n + 1 PROVE SumOver(u, s) = SumOver(v, Image(s))
    OBVIOUS
  <2>1. IsFiniteSet(s) /\ s # {}
    <3>1. IsFiniteSet(s) /\ (Cardinality(s) = 0 <=> s = {})
      BY SubsetSize
    <3> QED
      BY <3>1
  <2>2. PICK x \in s : TRUE
    BY <2>1
  <2>3. s \ {x} \in SUBSET J /\ Cardinality(s \ {x}) = n
    <3>1. Cardinality(s \ {x}) = Cardinality(s) - 1
      BY SubsetSize
    <3> QED
      BY <3>1
  <2>4. SumOver(u, s \ {x}) = SumOver(v, Image(s \ {x}))
    BY <1>2, <2>3
  <2>5. Image(s) \ {at[x]} = Image(s \ {x}) /\ at[x] \in Image(s)
    OBVIOUS
  <2>6. IsFiniteSet(Image(s)) /\ \A i \in Image(s) : v[i] \in Int
    <3>1. [j \in s |-> at[j]] \in Surjection(s, Image(s))
      BY DEF Surjection
    <3>2. IsFiniteSet(Image(s))
      <4> HIDE DEF Image
      <4> QED
        BY <2>1, <3>1, FS_Surjection
    <3> QED
      BY <3>2
  <2>7. SumOver(v, Image(s)) = v[at[x]] + SumOver(v, Image(s) \ {at[x]})
    <3> DEFINE im == Image(s)
    <3>1. IsFiniteSet(im) /\ (\A i \in im : v[i] \in Int) /\ at[x] \in im
      BY <2>5, <2>6
    <3> HIDE DEF im, Image
    <3>2. \A y \in im : SumOver(v, im) = v[y] + SumOver(v, im \ {y})
      BY <3>1, SumTakes
    <3>3. SumOver(v, im) = v[at[x]] + SumOver(v, im \ {at[x]})
      BY <3>1, <3>2
    <3> QED
      BY <3>3 DEF im
  <2>8. SumOver(u, s) = u[x] + SumOver(u, s \ {x})
    <3>1. \A j \in s : u[j] \in Int
      OBVIOUS
    <3> QED
      BY <2>1, <3>1, SumTakes
  <2> QED
    BY <2>4, <2>5, <2>7, <2>8
<1>3. Nat \subseteq R
  <2> HIDE DEF R
  <2> QED
    BY <1>1, <1>2, SetInduction
<1>4. Image(J) = I
  OBVIOUS
<1>5. Cardinality(J) \in R /\ J \in SUBSET J
  <2>1. Cardinality(J) \in Nat
    BY FS_CardinalityType
  <2> QED
    BY <1>3, <2>1
<1>6. SumOver(u, J) = SumOver(v, Image(J))
  BY <1>5
<1> QED
  BY <1>4, <1>6

\* The sum over two sets without a common element.
LEMMA SumSplit ==
  ASSUME NEW I, IsFiniteSet(I), NEW J, IsFiniteSet(J), I \cap J = {}, NEW v, \A i \in I \cup J : v[i] \in Int
  PROVE  SumOver(v, I \cup J) = SumOver(v, I) + SumOver(v, J)
<1> DEFINE R == {n \in Nat : \A s \in SUBSET J : Cardinality(s) = n => SumOver(v, I \cup s) = SumOver(v, I) + SumOver(v, s)}
<1>0. SumOver(v, I) \in Int
  <2>1. \A i \in I : v[i] \in Int
    OBVIOUS
  <2> QED
    BY <2>1, SumTakes
<1>1. 0 \in R
  <2> SUFFICES ASSUME NEW s \in SUBSET J, Cardinality(s) = 0 PROVE SumOver(v, I \cup s) = SumOver(v, I) + SumOver(v, s)
    OBVIOUS
  <2>0. s = {}
    BY SubsetSize
  <2>1. I \cup s = I /\ SumOver(v, s) = 0
    BY <2>0, SumEmpty
  <2> QED
    BY <1>0, <2>1
<1>2. ASSUME NEW n \in Nat, n \in R PROVE n + 1 \in R
  <2> SUFFICES ASSUME NEW s \in SUBSET J, Cardinality(s) = n + 1 PROVE SumOver(v, I \cup s) = SumOver(v, I) + SumOver(v, s)
    OBVIOUS
  <2>1. IsFiniteSet(s) /\ s # {}
    <3>1. IsFiniteSet(s) /\ (Cardinality(s) = 0 <=> s = {})
      BY SubsetSize
    <3> QED
      BY <3>1
  <2>2. PICK x \in s : TRUE
    BY <2>1
  <2> DEFINE t == s \ {x}
             W == I \cup s
  <2>3. t \in SUBSET J /\ Cardinality(t) = n
    <3>1. Cardinality(s \ {x}) = Cardinality(s) - 1
      BY SubsetSize
    <3> QED
      BY <3>1
  <2>4. SumOver(v, I \cup t) = SumOver(v, I) + SumOver(v, t)
    BY <1>2, <2>3
  <2>5. IsFiniteSet(W) /\ (\A i \in W : v[i] \in Int) /\ x \in W /\ W \ {x} = I \cup t
    <3>1. IsFiniteSet(I \cup s)
      BY <2>1, FS_Union
    <3> QED
      BY <2>2, <3>1
  <2>6. SumOver(v, W) = v[x] + SumOver(v, W \ {x})
    <3> HIDE DEF W
    <3> QED
      BY <2>5, SumTakes
  <2>7. SumOver(v, s) = v[x] + SumOver(v, t) /\ SumOver(v, t) \in Int
    <3>1. \A j \in s : v[j] \in Int
      OBVIOUS
    <3>2. SumOver(v, s) = v[x] + SumOver(v, s \ {x})
      BY <2>1, <3>1, SumTakes
    <3>3. IsFiniteSet(t) /\ \A j \in t : v[j] \in Int
      BY <2>3, <3>1, SubsetSize
    <3>4. SumOver(v, t) \in Int
      BY <3>3, SumTakes
    <3> QED
      BY <3>2, <3>4
  <2>8. v[x] \in Int
    OBVIOUS
  <2>9. SumOver(v, W \ {x}) = SumOver(v, I \cup t)
    <3> HIDE DEF W, t
    <3> QED
      BY <2>5, Zenon
  <2>10. SumOver(v, W) = SumOver(v, I) + SumOver(v, s)
    <3> HIDE DEF W, t
    <3> QED
      BY <1>0, <2>4, <2>6, <2>7, <2>8, <2>9
  <2> QED
    BY <2>10
<1>3. Nat \subseteq R
  <2> HIDE DEF R
  <2> QED
    BY <1>1, <1>2, SetInduction
<1>5. Cardinality(J) \in R /\ J \in SUBSET J
  <2>1. Cardinality(J) \in Nat
    BY FS_CardinalityType
  <2> QED
    BY <1>3, <2>1
<1> QED
  BY <1>5

\* The sum of a part of a sequence is that of the part as a sequence of its own.
FurtherOn(u, v, m, n) == \A k \in 1 .. n : u[k] \in Int /\ v[m + k] = u[k]
LEMMA SumShifted ==
  ASSUME NEW m \in Nat, NEW n \in Nat, NEW u, NEW v, FurtherOn(u, v, m, n)
  PROVE  SumOver(u, 1 .. n) = SumOver(v, m + 1 .. m + n)
<1> DEFINE J == 1 .. n
           I == m + 1 .. m + n
           at == [j \in J |-> m + j]
<1>1. IsFiniteSet(J)
  BY FS_Interval
<1>2. \A j \in J : at[j] \in I /\ u[j] \in Int /\ v[at[j]] = u[j]
  BY DEF FurtherOn
<1>3. \A i, j \in J : at[i] = at[j] => i = j
  OBVIOUS
<1>4. \A i \in I : \E j \in J : at[j] = i
  <2> SUFFICES ASSUME NEW i \in I PROVE \E j \in J : at[j] = i
    OBVIOUS
  <2>1. i - m \in J /\ at[i - m] = i
    OBVIOUS
  <2> QED
    BY <2>1
<1> HIDE DEF J, I, at
<1>5. SumOver(u, J) = SumOver(v, I)
  BY <1>1, <1>2, <1>3, <1>4, SumMapped
<1> QED
  BY <1>5 DEF I, J
=============================================================================

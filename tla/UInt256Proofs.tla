--------------------------- MODULE UInt256Proofs ---------------------------
(***************************************************************************)
(* Proofs that the bitwise functions of UInt256 are arithmetic modulo the  *)
(* number of values, for every width of a word, and that hex strings are   *)
(* read and written as the numbers they are.                               *)
(*                                                                         *)
(* What a loop over bits or digits has computed is a recursive function;   *)
(* that it is what it should be is shown by induction, taken from the      *)
(* library's theorem that every set of naturals has a least element.       *)
(***************************************************************************)
EXTENDS UInt256, SequenceTheorems, WellFoundedInduction, TLAPS

(* Induction over the naturals, for sets *)

LEMMA LeastElement ==
  ASSUME NEW T \in SUBSET Nat, T # {}
  PROVE  \E x \in T : \A y \in T : ~(y < x)
<1> DEFINE R == {pair \in Nat \X Nat : pair[1] < pair[2]}
<1>1. IsWellFoundedOn(R, Nat)
  BY NatLessThanWellFounded DEF OpToRel
<1>2. \A x, y \in Nat : y < x => <<y, x>> \in R
  OBVIOUS
<1> HIDE DEF R
<1>3. PICK x \in T : \A y \in T : ~(<<y, x>> \in R)
  BY <1>1, WFMin
<1> QED BY <1>2, <1>3

LEMMA Induction ==
  ASSUME NEW T, 0 \in T, \A n \in Nat : n \in T => n + 1 \in T
  PROVE  \A n \in Nat : n \in T
<1> SUFFICES ASSUME NEW n \in Nat, n \notin T PROVE FALSE
  OBVIOUS
<1>1. PICK x \in Nat \ T : \A y \in Nat \ T : ~(y < x)
  BY LeastElement, Nat \ T \in SUBSET Nat, Nat \ T # {}
<1>2. x # 0
  OBVIOUS
<1>3. x - 1 \in Nat /\ x - 1 \in T
  BY <1>1, <1>2
<1>4. (x - 1) + 1 \in T
  BY <1>3
<1> QED BY <1>4

-----------------------------------------------------------------------------
(* Quotients and remainders *)

LEMMA DivMod ==
  ASSUME NEW x \in Int, NEW m \in Nat \ {0}
  PROVE  /\ x \div m \in Int
         /\ x % m \in 0..(m - 1)
         /\ x = m * (x \div m) + (x % m)
<1>1. x \div m \in Int /\ x % m \in Int /\ x % m >= 0 /\ x % m < m
  OBVIOUS
<1>2.  x = m * (x \div m) + (x % m)
  OBVIOUS
<1> QED BY <1>1, <1>2

LEMMA Grows ==
  ASSUME NEW m \in Nat \ {0}, NEW d \in Nat \ {0}
  PROVE  m * d >= m
OBVIOUS

LEMMA DivModIs ==
  ASSUME NEW m \in Nat \ {0}, NEW q \in Int, NEW r \in 0..(m - 1), NEW x \in Int, x = m * q + r
  PROVE  x \div m = q /\ x % m = r
<1>1. x \div m \in Int /\ x % m \in 0..(m - 1) /\ x = m * (x \div m) + (x % m)
  BY DivMod
<1> DEFINE p == x \div m
           s == x % m
<1> HIDE DEF p, s
<1>2. p \in Int /\ s \in 0..(m - 1) /\ m * p + s = m * q + r
  BY <1>1 DEF p, s
<1>3. m * (p - q) = r - s
  BY <1>2
<1>4. ~(p - q >= 1)
  <2> SUFFICES ASSUME p - q >= 1 PROVE FALSE
    OBVIOUS
  <2>1. m * (p - q) >= m
    BY <1>2, Grows, p - q \in Nat \ {0}
  <2> QED BY <2>1, <1>3, <1>2
<1>5. ~(q - p >= 1)
  <2> SUFFICES ASSUME q - p >= 1 PROVE FALSE
    OBVIOUS
  <2>1. m * (q - p) >= m
    BY <1>2, Grows, q - p \in Nat \ {0}
  <2>2. m * (q - p) = s - r
    BY <1>2
  <2> QED BY <2>1, <2>2, <1>2
<1>6. p = q
  BY <1>4, <1>5, <1>2
<1>7. s = r
  BY <1>6, <1>3, <1>2
<1> QED BY <1>6, <1>7 DEF p, s

-----------------------------------------------------------------------------
(* Recursive functions are what their definitions say *)

(* the function with the first value base and the steps step *)
Follows(f, base, step, k) == f[k] = IF k = 0 THEN base ELSE step[k][f[k - 1]]
FollowsTo(f, base, step, n) == \A k \in 0..n : Follows(f, base, step, k)

LEMMA Recursion ==
  ASSUME NEW n \in Nat, NEW S, NEW base \in S, NEW step \in [1..n -> [S -> S]]
  PROVE  \E f \in [0..n -> S] : FollowsTo(f, base, step, n)
<1> DEFINE T == {m \in Nat : m <= n => \E f \in [0..m -> S] : FollowsTo(f, base, step, m)}
<1>1. 0 \in T
  <2> DEFINE f == [k \in 0..0 |-> base]
  <2>1. f \in [0..0 -> S] /\ FollowsTo(f, base, step, 0)
    BY DEF FollowsTo, Follows
  <2> QED BY <2>1
<1>2. ASSUME NEW m \in Nat, m \in T PROVE m + 1 \in T
  <2> SUFFICES ASSUME m + 1 <= n
               PROVE  \E f \in [0..(m + 1) -> S] : FollowsTo(f, base, step, m + 1)
    OBVIOUS
  <2>1. PICK f \in [0..m -> S] : FollowsTo(f, base, step, m)
    BY <1>2
  <2> DEFINE g == [k \in 0..(m + 1) |-> IF k <= m THEN f[k] ELSE step[m + 1][f[m]]]
  <2>2. step[m + 1][f[m]] \in S
    BY m + 1 \in 1..n, f[m] \in S
  <2>3. g \in [0..(m + 1) -> S]
    BY <2>2
  <2>4. ASSUME NEW k \in 0..(m + 1)
        PROVE  g[k] = IF k = 0 THEN base ELSE step[k][g[k - 1]]
    <3>1. CASE k = 0
      BY <3>1, <2>1 DEF FollowsTo, Follows
    <3>2. CASE k \in 1..m
      <4>1. g[k] = f[k] /\ g[k - 1] = f[k - 1] /\ k \in 0..m
        BY <3>2
      <4>2. f[k] = step[k][f[k - 1]]
        BY <3>2, <2>1 DEF FollowsTo, Follows
      <4> QED BY <3>2, <4>1, <4>2
    <3>3. CASE k = m + 1
      <4>1. g[k] = step[m + 1][f[m]] /\ g[k - 1] = f[m]
        BY <3>3
      <4> QED BY <3>3, <4>1
    <3> QED BY <3>1, <3>2, <3>3
  <2>5. FollowsTo(g, base, step, m + 1)
    BY <2>4 DEF FollowsTo, Follows
  <2> QED BY <2>3, <2>5
<1> HIDE DEF T
<1>3. n \in T
  BY <1>1, <1>2, Induction
<1> QED BY <1>3 DEF T

LEMMA RecursionUnique ==
  ASSUME NEW base, NEW step, NEW m \in Nat, NEW n \in Nat, m <= n, NEW f, NEW g,
         FollowsTo(f, base, step, m), FollowsTo(g, base, step, n)
  PROVE  \A k \in 0..m : f[k] = g[k]
<1> DEFINE T == {k \in Nat : k <= m => f[k] = g[k]}
<1>1. 0 \in T
  BY DEF FollowsTo, Follows
<1>2. ASSUME NEW k \in Nat, k \in T PROVE k + 1 \in T
  <2> SUFFICES ASSUME k + 1 <= m PROVE f[k + 1] = g[k + 1]
    OBVIOUS
  <2>1. f[k] = g[k] /\ (k + 1) - 1 = k /\ k + 1 # 0 /\ k + 1 \in 0..m /\ k + 1 \in 0..n
    BY <1>2
  <2>2. f[k + 1] = step[k + 1][f[k]] /\ g[k + 1] = step[k + 1][g[k]]
    BY <2>1 DEF FollowsTo, Follows
  <2> QED BY <2>1, <2>2
<1> HIDE DEF T
<1>3. \A k \in Nat : k \in T
  BY <1>1, <1>2, Induction
<1> QED BY <1>3 DEF T

LEMMA NatRecursion ==
  ASSUME NEW S, NEW base \in S, NEW step \in [Nat -> [S -> S]]
  PROVE  \E f \in [Nat -> S] : \A k \in Nat : Follows(f, base, step, k)
<1> DEFINE first(m) == CHOOSE f \in [0..m -> S] : FollowsTo(f, base, step, m)
           g == [k \in Nat |-> first(k)[k]]
<1>1. ASSUME NEW m \in Nat
      PROVE  first(m) \in [0..m -> S] /\ FollowsTo(first(m), base, step, m)
  <2> DEFINE st == [k \in 1..m |-> step[k]]
  <2>1. st \in [1..m -> [S -> S]]
    OBVIOUS
  <2>2. PICK f \in [0..m -> S] : FollowsTo(f, base, st, m)
    <3> HIDE DEF st
    <3> QED BY <2>1, Recursion
  <2>3. \A k \in 0..m : k # 0 => st[k] = step[k]
    OBVIOUS
  <2>4. FollowsTo(f, base, step, m)
    <3> HIDE DEF st
    <3>1. \A k \in 0..m : f[k] = IF k = 0 THEN base ELSE st[k][f[k - 1]]
      BY <2>2 DEF FollowsTo, Follows
    <3>2. \A k \in 0..m : f[k] = IF k = 0 THEN base ELSE step[k][f[k - 1]]
      BY <2>3, <3>1
    <3> QED BY <3>2 DEF FollowsTo, Follows
  <2> QED BY <2>4
<1> HIDE DEF first
<1>2. g \in [Nat -> S]
  BY <1>1
<1>3. ASSUME NEW k \in Nat PROVE g[k] = IF k = 0 THEN base ELSE step[k][g[k - 1]]
  <2>1. CASE k = 0
    BY <1>1, <2>1 DEF FollowsTo, Follows
  <2>2. CASE k # 0
    <3>1. k - 1 \in Nat /\ k - 1 <= k /\ k - 1 \in 0..(k - 1)
      BY <2>2
    <3>2. FollowsTo(first(k), base, step, k) /\ FollowsTo(first(k - 1), base, step, k - 1)
      BY <1>1, <3>1
    <3>3. \A i \in 0..(k - 1) : first(k - 1)[i] = first(k)[i]
      <4> DEFINE f1 == first(k - 1)
                 f2 == first(k)
                 j == k - 1
      <4>1. FollowsTo(f1, base, step, j) /\ FollowsTo(f2, base, step, k) /\ j \in Nat /\ j <= k
        BY <3>1, <3>2
      <4> HIDE DEF f1, f2, j
      <4>2. \A i \in 0..j : f1[i] = f2[i]
        BY <4>1, RecursionUnique
      <4> QED BY <4>2 DEF f1, f2, j
    <3>4. g[k - 1] = first(k)[k - 1]
      BY <3>1, <3>3
    <3>5. first(k)[k] = step[k][first(k)[k - 1]]
      BY <3>2, <2>2 DEF FollowsTo, Follows
    <3> QED BY <3>4, <3>5, <2>2
  <2> QED BY <2>1, <2>2
<1>4. \A k \in Nat : Follows(g, base, step, k)
  BY <1>3 DEF Follows
<1> QED BY <1>2, <1>4
-----------------------------------------------------------------------------
(* Powers of two *)

LEMMA TwoToIs ==
  /\ TwoTo \in [Nat -> Nat \ {0}]
  /\ TwoTo = [n \in Nat |-> IF n = 0 THEN 1 ELSE 2 * TwoTo[n - 1]]
<1> DEFINE S == Nat \ {0}
           step == [k \in Nat |-> [x \in S |-> 2 * x]]
<1>1. step \in [Nat -> [S -> S]] /\ 1 \in S
  OBVIOUS
<1>2. PICK f \in [Nat -> S] : \A k \in Nat : Follows(f, 1, step, k)
  <2> HIDE DEF step, S
  <2> QED BY <1>1, NatRecursion
<1>3. f = [n \in Nat |-> IF n = 0 THEN 1 ELSE 2 * f[n - 1]]
  <2>1. ASSUME NEW n \in Nat PROVE f[n] = IF n = 0 THEN 1 ELSE 2 * f[n - 1]
    <3>1. f[n] = IF n = 0 THEN 1 ELSE step[n][f[n - 1]]
      BY <1>2 DEF Follows
    <3>2. n # 0 => f[n - 1] \in Nat \ {0}
      OBVIOUS
    <3> QED BY <3>1, <3>2
  <2> QED BY <2>1
<1>4. TwoTo = [n \in Nat |-> IF n = 0 THEN 1 ELSE 2 * TwoTo[n - 1]]
  BY <1>3 DEF TwoTo
<1>5. \A n \in Nat : TwoTo[n] \in Nat \ {0}
  <2> DEFINE T == {n \in Nat : TwoTo[n] \in Nat \ {0}}
  <2>1. 0 \in T
    BY <1>4
  <2>2. ASSUME NEW n \in Nat, n \in T PROVE n + 1 \in T
    <3>1. TwoTo[n + 1] = 2 * TwoTo[n]
      BY <1>4, n + 1 # 0, (n + 1) - 1 = n
    <3> QED BY <2>2, <3>1
  <2> HIDE DEF T
  <2>3. \A n \in Nat : n \in T
    BY <2>1, <2>2, Induction
  <2> QED BY <2>3 DEF T
<1> QED BY <1>4, <1>5

LEMMA TwoToLaws ==
  /\ TwoTo[0] = 1
  /\ \A n \in Nat : TwoTo[n] \in Nat \ {0} /\ TwoTo[n + 1] = 2 * TwoTo[n]
<1>1. TwoTo[0] = 1
  BY TwoToIs
<1>2. ASSUME NEW n \in Nat PROVE TwoTo[n] \in Nat \ {0} /\ TwoTo[n + 1] = 2 * TwoTo[n]
  BY TwoToIs, n + 1 # 0, (n + 1) - 1 = n
<1> QED BY <1>1, <1>2

LEMMA TwoToSum ==
  \A a, b \in Nat : TwoTo[a + b] = TwoTo[a] * TwoTo[b]
<1> SUFFICES ASSUME NEW a \in Nat PROVE \A b \in Nat : TwoTo[a + b] = TwoTo[a] * TwoTo[b]
  OBVIOUS
<1> DEFINE T == {b \in Nat : TwoTo[a + b] = TwoTo[a] * TwoTo[b]}
<1>1. 0 \in T
  BY TwoToLaws, a + 0 = a
<1>2. ASSUME NEW b \in Nat, b \in T PROVE b + 1 \in T
  <2>1. TwoTo[a + (b + 1)] = 2 * TwoTo[a + b] /\ TwoTo[b + 1] = 2 * TwoTo[b]
    BY TwoToLaws, a + b \in Nat, a + (b + 1) = (a + b) + 1
  <2>2. TwoTo[a] \in Nat /\ TwoTo[b] \in Nat /\ TwoTo[a + b] = TwoTo[a] * TwoTo[b]
    BY <1>2, TwoToLaws
  <2>3. TwoTo[a + (b + 1)] = TwoTo[a] * TwoTo[b + 1]
    BY <2>1, <2>2
  <2> QED BY <2>3
<1> HIDE DEF T
<1>3. \A b \in Nat : b \in T
  BY <1>1, <1>2, Induction
<1> QED BY <1>3 DEF T
-----------------------------------------------------------------------------
(* Words and their bits *)

LEMMA Sizes ==
  /\ WordBits \in Nat \ {0}
  /\ WordSize \in Nat \ {0} /\ WordSize >= 2
<1>1. WordBits \in Nat \ {0}
  <2>1. DigitBits \in Nat \ {0} /\ DigitsPerWord \in Nat \ {0}
    BY UInt256Assumption
  <2>2. DigitBits * DigitsPerWord >= DigitBits
    BY <2>1, Grows
  <2> QED BY <2>1, <2>2 DEF WordBits
<1>2. WordBits - 1 \in Nat /\ (WordBits - 1) + 1 = WordBits
  BY <1>1
<1>3. TwoTo[WordBits - 1] \in Nat \ {0} /\ TwoTo[(WordBits - 1) + 1] = 2 * TwoTo[WordBits - 1]
  BY <1>2, TwoToLaws
<1> QED BY <1>1, <1>2, <1>3 DEF WordSize

LEMMA RemainderGrows ==
  ASSUME NEW w \in Nat, NEW j \in Nat
  PROVE  /\ (w \div TwoTo[j]) % 2 \in {0, 1}
         /\ w % TwoTo[j + 1] = (w % TwoTo[j]) + ((w \div TwoTo[j]) % 2) * TwoTo[j]
<1> DEFINE t == TwoTo[j]
           q == w \div t
           r == w % t
           b == q % 2
           h == q \div 2
<1>1. t \in Nat \ {0} /\ TwoTo[j + 1] = 2 * t
  BY TwoToLaws
<1>2. q \in Int /\ r \in 0..(t - 1) /\ w = t * q + r
  <2> HIDE DEF t
  <2> QED BY <1>1, w \in Int, DivMod
<1>3. h \in Int /\ b \in 0..1 /\ q = 2 * h + b
  BY <1>2
<1> HIDE DEF t, q, r, b, h
<1>4. w = (2 * t) * h + (b * t + r)
  BY <1>1, <1>2, <1>3
<1>5. b * t + r \in 0..(2 * t - 1)
  <2>1. b = 0 \/ b = 1
    BY <1>3
  <2> QED BY <1>1, <1>2, <2>1
<1>6. w % (2 * t) = b * t + r
  <2> DEFINE m == 2 * t
             s == b * t + r
  <2>1. m \in Nat \ {0} /\ s \in 0..(m - 1) /\ w = m * h + s
    BY <1>1, <1>4, <1>5
  <2> HIDE DEF m, s
  <2>2. w % m = s
    BY <2>1, <1>3, DivModIs
  <2> QED BY <2>2 DEF m, s
<1>7. b \in {0, 1} /\ b * t \in Int /\ r \in Int
  BY <1>1, <1>2, <1>3
<1> QED BY <1>1, <1>6, <1>7 DEF t, q, r, b, h

LEMMA PlaceIs ==
  ASSUME NEW i \in 0..3, NEW j \in 0..(WordBits - 1)
  PROVE  /\ i * WordBits + j \in Places
         /\ (i * WordBits + j) \div WordBits = i
         /\ (i * WordBits + j) % WordBits = j
<1> DEFINE k == i * WordBits + j
           m == WordBits
<1>1. m \in Nat \ {0} /\ i \in Int /\ j \in 0..(m - 1) /\ k \in Int /\ k = m * i + j
  BY Sizes
<1>2. k \in 0..(4 * m - 1)
  <2>1. i = 0 \/ i = 1 \/ i = 2 \/ i = 3
    OBVIOUS
  <2> QED BY <1>1, <2>1
<1> HIDE DEF k, m
<1>3. k \div m = i /\ k % m = j
  BY <1>1, DivModIs
<1> QED BY <1>2, <1>3 DEF k, m, Places

LEMMA BitIs ==
  ASSUME NEW v \in Values, NEW i \in 0..3, NEW j \in 0..(WordBits - 1)
  PROVE  /\ BitAt(v, i * WordBits + j) = (v[i + 1] \div TwoTo[j]) % 2
         /\ BitAt(v, i * WordBits + j) \in {0, 1}
<1>1. v[1 + i] \in Nat /\ v[1 + i] = v[i + 1]
  BY Sizes DEF Values, Word
<1>2. BitAt(v, i * WordBits + j) = (v[1 + i] \div TwoTo[j]) % 2
  BY PlaceIs DEF BitAt
<1>3. (v[i + 1] \div TwoTo[j]) % 2 \in {0, 1}
  BY <1>1, RemainderGrows, Sizes
<1> QED BY <1>1, <1>2, <1>3

(* every place is a bit of one of the words *)
LEMMA PlaceOf ==
  ASSUME NEW k \in Places
  PROVE  \E i \in 0..3, j \in 0..(WordBits - 1) : k = i * WordBits + j
<1> DEFINE i == k \div WordBits
           j == k % WordBits
<1>1. i \in Int /\ j \in 0..(WordBits - 1) /\ k = WordBits * i + j
  BY Sizes, DivMod DEF Places
<1> HIDE DEF i, j
<1>2. ~(i < 0)
  <2> SUFFICES ASSUME i < 0 PROVE FALSE
    OBVIOUS
  <2>1. WordBits * (-i) >= WordBits
    BY <1>1, Sizes, Grows, -i \in Nat \ {0}
  <2>2. WordBits * (-i) = -(WordBits * i)
    BY <1>1, Sizes
  <2> QED BY <1>1, <2>1, <2>2, Sizes DEF Places
<1>3. ~(i > 3)
  <2> SUFFICES ASSUME i > 3 PROVE FALSE
    OBVIOUS
  <2>1. WordBits * (i - 3) >= WordBits
    BY <1>1, Sizes, Grows, i - 3 \in Nat \ {0}
  <2>2. WordBits * (i - 3) = (WordBits * i) - 3 * WordBits
    BY <1>1, Sizes
  <2> QED BY <1>1, <2>1, <2>2, Sizes DEF Places
<1>4. i \in 0..3 /\ k = i * WordBits + j
  BY <1>1, <1>2, <1>3, Sizes
<1> QED BY <1>1, <1>4

LEMMA BitType ==
  ASSUME NEW v \in Values, NEW k \in Places
  PROVE  BitAt(v, k) \in {0, 1}
BY PlaceOf, BitIs

LEMMA PartialSumsAre ==
  ASSUME NEW bit, NEW first \in Nat, \A j \in 0..(WordBits - 1) : bit[first + j] \in {0, 1}
  PROVE  /\ PartialSums(bit, first)[0] = 0
         /\ \A j \in 0..(WordBits - 1) :
              PartialSums(bit, first)[j + 1] =
                PartialSums(bit, first)[j] + bit[first + j] * TwoTo[j]
         /\ \A j \in 0..WordBits : PartialSums(bit, first)[j] \in 0..(TwoTo[j] - 1)
<1> DEFINE step == [j \in 1..WordBits |-> [x \in Int |-> x + bit[first + j - 1] * TwoTo[j - 1]]]
           sum == PartialSums(bit, first)
<1>1. ASSUME NEW j \in 1..WordBits
      PROVE  bit[first + j - 1] * TwoTo[j - 1] \in Int /\ bit[first + j - 1] = bit[first + (j - 1)]
  <2>1. j - 1 \in 0..(WordBits - 1) /\ first + (j - 1) = first + j - 1 /\ j - 1 \in Nat
    BY Sizes
  <2>2. TwoTo[j - 1] \in Int /\ bit[first + j - 1] \in Int
    BY <2>1, TwoToLaws
  <2> QED BY <2>1, <2>2
<1>2. step \in [1..WordBits -> [Int -> Int]]
  BY <1>1
<1>3. PICK f \in [0..WordBits -> Int] : FollowsTo(f, 0, step, WordBits)
  <2>1. WordBits \in Nat /\ 0 \in Int
    BY Sizes
  <2> HIDE DEF step
  <2> QED BY <1>2, <2>1, Recursion
<1>4. f = [j \in 0..WordBits |-> IF j = 0 THEN 0 ELSE f[j - 1] + bit[first + j - 1] * TwoTo[j - 1]]
  <2>1. ASSUME NEW j \in 0..WordBits
        PROVE  f[j] = IF j = 0 THEN 0 ELSE f[j - 1] + bit[first + j - 1] * TwoTo[j - 1]
    <3>1. f[j] = IF j = 0 THEN 0 ELSE step[j][f[j - 1]]
      BY <1>3 DEF FollowsTo, Follows
    <3>2. j # 0 => j \in 1..WordBits /\ f[j - 1] \in Int
      BY Sizes
    <3> QED BY <3>1, <3>2
  <2> QED BY <2>1
<1>5. sum = [j \in 0..WordBits |-> IF j = 0 THEN 0 ELSE sum[j - 1] + bit[first + j - 1] * TwoTo[j - 1]]
  BY <1>4 DEF PartialSums
<1> HIDE DEF sum
<1>6. sum[0] = 0
  BY <1>5, Sizes
<1>7. ASSUME NEW j \in 0..(WordBits - 1)
      PROVE  sum[j + 1] = sum[j] + bit[first + j] * TwoTo[j]
  <2>1. j + 1 \in 0..WordBits /\ j + 1 # 0 /\ (j + 1) - 1 = j /\ first + (j + 1) - 1 = first + j
    BY Sizes
  <2> QED BY <1>5, <2>1
<1>8. \A j \in 0..WordBits : sum[j] \in 0..(TwoTo[j] - 1)
  <2> DEFINE T == {j \in Nat : j <= WordBits => sum[j] \in 0..(TwoTo[j] - 1)}
  <2>1. 0 \in T
    BY <1>6, TwoToLaws
  <2>2. ASSUME NEW j \in Nat, j \in T PROVE j + 1 \in T
    <3> SUFFICES ASSUME j + 1 <= WordBits PROVE sum[j + 1] \in 0..(TwoTo[j + 1] - 1)
      OBVIOUS
    <3>1. j \in 0..(WordBits - 1) /\ sum[j] \in 0..(TwoTo[j] - 1)
      BY <2>2, Sizes
    <3>2. bit[first + j] = 0 \/ bit[first + j] = 1
      BY <3>1
    <3>3. sum[j + 1] = sum[j] + bit[first + j] * TwoTo[j]
      BY <3>1, <1>7
    <3>4. TwoTo[j] \in Nat /\ TwoTo[j + 1] = 2 * TwoTo[j]
      BY TwoToLaws
    <3> QED BY <3>1, <3>2, <3>3, <3>4
  <2> HIDE DEF T
  <2>3. \A j \in Nat : j \in T
    BY <2>1, <2>2, Induction
  <2> QED BY <2>3, Sizes DEF T
<1> QED BY <1>6, <1>7, <1>8 DEF sum
-----------------------------------------------------------------------------
(* uint256_add *)

LEMMA CarriesAre ==
  ASSUME NEW left \in Values, NEW right \in Values
  PROVE  /\ Carries(left, right)[0] = 0
         /\ \A k \in 0..(4 * WordBits) : Carries(left, right)[k] \in {0, 1}
         /\ \A k \in Places :
              Carries(left, right)[k + 1] =
                IF BitAt(left, k) + BitAt(right, k) + Carries(left, right)[k] < 2 THEN 0 ELSE 1
<1> DEFINE n == 4 * WordBits
           bits(k) == BitAt(left, k) + BitAt(right, k)
           step == [k \in 1..n |-> [x \in {0, 1} |-> IF bits(k - 1) + x < 2 THEN 0 ELSE 1]]
           carry == Carries(left, right)
<1>1. n \in Nat /\ step \in [1..n -> [{0, 1} -> {0, 1}]]
  BY Sizes
<1>2. PICK f \in [0..n -> {0, 1}] : FollowsTo(f, 0, step, n)
  <2>1. 0 \in {0, 1}
    OBVIOUS
  <2> DEFINE S == {0, 1}
  <2> HIDE DEF step, n, S
  <2>2. 0 \in S /\ step \in [1..n -> [S -> S]] /\ n \in Nat
    BY <1>1, <2>1 DEF S
  <2>3. \E f \in [0..n -> S] : FollowsTo(f, 0, step, n)
    BY <2>2, Recursion
  <2> QED BY <2>3 DEF S
<1>3. f = [k \in 0..n |-> IF k = 0 \/ BitAt(left, k - 1) + BitAt(right, k - 1) + f[k - 1] < 2
                          THEN 0 ELSE 1]
  <2>1. ASSUME NEW k \in 0..n
        PROVE  f[k] = IF k = 0 \/ bits(k - 1) + f[k - 1] < 2 THEN 0 ELSE 1
    <3>1. f[k] = IF k = 0 THEN 0 ELSE step[k][f[k - 1]]
      BY <1>2 DEF FollowsTo, Follows
    <3>2. k # 0 => k \in 1..n /\ f[k - 1] \in {0, 1}
      BY Sizes
    <3> HIDE DEF bits
    <3> QED BY <3>1, <3>2
  <2> QED BY <2>1
<1>4. carry = [k \in 0..n |->
                 IF k = 0 \/ BitAt(left, k - 1) + BitAt(right, k - 1) + carry[k - 1] < 2
                 THEN 0 ELSE 1]
  BY <1>3 DEF Carries
<1> HIDE DEF carry
<1>5. carry[0] = 0 /\ \A k \in 0..n : carry[k] \in {0, 1}
  BY <1>4, Sizes
<1>6. ASSUME NEW k \in Places
      PROVE  carry[k + 1] = IF BitAt(left, k) + BitAt(right, k) + carry[k] < 2 THEN 0 ELSE 1
  <2>1. k + 1 \in 0..n /\ k + 1 # 0 /\ (k + 1) - 1 = k
    BY Sizes DEF Places
  <2> QED BY <1>4, <2>1
<1> QED BY <1>5, <1>6 DEF carry

(* the bits of the sum *)
TotalBits(left, right) ==
  [k \in Places |->
     IF BitAt(left, k) + BitAt(right, k) + Carries(left, right)[k] < 2
     THEN BitAt(left, k) + BitAt(right, k) + Carries(left, right)[k]
     ELSE (BitAt(left, k) + BitAt(right, k) + Carries(left, right)[k]) - 2]

LEMMA AddIs ==
  ASSUME NEW left, NEW right
  PROVE  uint256_add(left, right) = FromBits(TotalBits(left, right))
BY DEF uint256_add, TotalBits

(* One place: its digit and the carry out of it are worth the two bits and  *)
(* the carry into it.                                                       *)
LEMMA TotalBitIs ==
  ASSUME NEW left \in Values, NEW right \in Values, NEW k \in Places
  PROVE  /\ TotalBits(left, right)[k] \in {0, 1}
         /\ BitAt(left, k) + BitAt(right, k) + Carries(left, right)[k]
              = TotalBits(left, right)[k] + 2 * Carries(left, right)[k + 1]
<1> DEFINE c == Carries(left, right)[k]
           d == Carries(left, right)[k + 1]
           l == BitAt(left, k)
           r == BitAt(right, k)
           t == TotalBits(left, right)[k]
<1>1. l \in {0, 1} /\ r \in {0, 1}
  BY BitType
<1>2. c \in {0, 1} /\ d = IF l + r + c < 2 THEN 0 ELSE 1
  BY CarriesAre, Sizes DEF Places
<1>3. t = IF l + r + c < 2 THEN l + r + c ELSE (l + r + c) - 2
  BY DEF TotalBits
<1> HIDE DEF c, d, l, r, t
<1>4. t \in {0, 1} /\ l + r + c = t + 2 * d
  BY <1>1, <1>2, <1>3
<1> QED BY <1>4 DEF c, d, l, r, t

(* One word: the same for the j low bits of it, by induction on j. *)
LEMMA AddWord ==
  ASSUME NEW left \in Values, NEW right \in Values, NEW i \in 0..3
  PROVE  LET sum == PartialSums(TotalBits(left, right), i * WordBits)
             carry == Carries(left, right)
         IN  /\ sum[WordBits] \in Word
             /\ left[i + 1] + right[i + 1] + carry[i * WordBits]
                  = sum[WordBits] + WordSize * carry[i * WordBits + WordBits]
<1> DEFINE bit == TotalBits(left, right)
           first == i * WordBits
           sum == PartialSums(bit, first)
           carry == Carries(left, right)
           l == left[i + 1]
           r == right[i + 1]
           P(j) == (l % TwoTo[j]) + (r % TwoTo[j]) + carry[first]
                     = sum[j] + TwoTo[j] * carry[first + j]
<1>1. l \in Nat /\ r \in Nat /\ l < WordSize /\ r < WordSize
  <2>1. i + 1 \in 1..4
    OBVIOUS
  <2>2. \A v \in Values : \A k \in 1..4 : v[k] \in Word
    BY DEF Values
  <2> QED BY <2>1, <2>2, Sizes DEF Word
<1>2. first \in Nat /\ first <= 3 * WordBits
  <2>1. i = 0 \/ i = 1 \/ i = 2 \/ i = 3
    OBVIOUS
  <2> QED BY <2>1, Sizes
<1>3. \A j \in 0..(WordBits - 1) : first + j \in Places /\ bit[first + j] \in {0, 1}
  BY PlaceIs, TotalBitIs
<1>4. /\ sum[0] = 0
      /\ \A j \in 0..(WordBits - 1) : sum[j + 1] = sum[j] + bit[first + j] * TwoTo[j]
      /\ \A j \in 0..WordBits : sum[j] \in 0..(TwoTo[j] - 1)
  <2> HIDE DEF bit, first
  <2> QED BY <1>2, <1>3, PartialSumsAre
<1>5. \A k \in 0..(4 * WordBits) : carry[k] \in {0, 1}
  BY CarriesAre
<1>6. P(0)
  <2>1. TwoTo[0] = 1 /\ l % 1 = 0 /\ r % 1 = 0 /\ first + 0 = first
    BY <1>1, <1>2, TwoToLaws
  <2>2. carry[first] \in Int
    BY <1>2, <1>5, Sizes
  <2> HIDE DEF sum, carry, first, l, r
  <2> QED BY <1>4, <2>1, <2>2
<1>7. ASSUME NEW j \in 0..(WordBits - 1), P(j) PROVE P(j + 1)
  <2> DEFINE t == TwoTo[j]
             lb == (l \div t) % 2
             rb == (r \div t) % 2
             tb == bit[first + j]
             c == carry[first + j]
             d == carry[first + j + 1]
  <2>1. t \in Nat \ {0} /\ TwoTo[j + 1] = 2 * t /\ j \in Nat
    BY TwoToLaws, Sizes
  <2>2. l % TwoTo[j + 1] = (l % t) + lb * t /\ r % TwoTo[j + 1] = (r % t) + rb * t
        /\ lb \in {0, 1} /\ rb \in {0, 1}
    <3> HIDE DEF l, r
    <3> QED BY <1>1, <2>1, RemainderGrows
  <2>3. BitAt(left, first + j) = lb /\ BitAt(right, first + j) = rb
    BY BitIs
  <2>4. tb \in {0, 1} /\ lb + rb + c = tb + 2 * d
    <3> HIDE DEF lb, rb
    <3> QED BY <1>3, <2>3, TotalBitIs
  <2>5. sum[j + 1] = sum[j] + tb * t
    BY <1>4
  <2>6. sum[j] \in Int /\ c \in Int /\ d \in Int /\ carry[first] \in Int
    <3>1. first + j \in 0..(4 * WordBits) /\ first + j + 1 \in 0..(4 * WordBits)
          /\ first \in 0..(4 * WordBits) /\ j \in 0..WordBits
      <4> HIDE DEF first
      <4> QED BY <1>2, Sizes
    <3>2. sum[j] \in Int
      BY <1>4, <3>1, <2>1
    <3> HIDE DEF carry
    <3> QED BY <1>5, <3>1, <3>2
  <2>7. l % t \in Int /\ r % t \in Int
    <3> HIDE DEF l, r, t
    <3> QED BY <1>1, <2>1
  <2>8. first + (j + 1) = first + j + 1
    BY <1>2
  <2>9. (l % t) + (r % t) + carry[first] = sum[j] + t * c
    BY <1>7
  <2> HIDE DEF t, lb, rb, tb, c, d, sum, carry, first, l, r, bit
  <2>10. t * c + lb * t + rb * t = tb * t + (2 * t) * d
    <3>1. t * (lb + rb + c) = t * (tb + 2 * d)
      BY <2>4
    <3> QED BY <3>1, <2>1, <2>2, <2>4, <2>6
  <2>11. ((l % t) + lb * t) + ((r % t) + rb * t) + carry[first] = sum[j + 1] + (2 * t) * d
    <3>1. lb * t \in Int /\ rb * t \in Int /\ tb * t \in Int /\ t * c \in Int /\ (2 * t) * d \in Int
      BY <2>1, <2>2, <2>4, <2>6
    <3> DEFINE lt == l % t
               rt == r % t
               lp == lb * t
               rp == rb * t
               tp == tb * t
               cp == t * c
               dp == (2 * t) * d
    <3>2. /\ lt \in Int /\ rt \in Int /\ lp \in Int /\ rp \in Int /\ tp \in Int /\ cp \in Int /\ dp \in Int
          /\ sum[j] \in Int /\ carry[first] \in Int
          /\ sum[j + 1] = sum[j] + tp
          /\ lt + rt + carry[first] = sum[j] + cp
          /\ cp + lp + rp = tp + dp
      BY <3>1, <2>5, <2>6, <2>7, <2>9, <2>10
    <3> HIDE DEF lt, rt, lp, rp, tp, cp, dp
    <3>3. (lt + lp) + (rt + rp) + carry[first] = sum[j + 1] + dp
      BY <3>2
    <3> QED BY <3>3 DEF lt, rt, lp, rp, dp
  <2>12. (l % TwoTo[j + 1]) + (r % TwoTo[j + 1]) + carry[first] = sum[j + 1] + TwoTo[j + 1] * carry[first + (j + 1)]
    BY <2>1, <2>2, <2>8, <2>11 DEF d
  <2> QED BY <2>12
<1>8. P(WordBits)
  <2> HIDE DEF P
  <2> DEFINE T == {j \in Nat : j <= WordBits => P(j)}
  <2>1. 0 \in T
    BY <1>6
  <2>2. ASSUME NEW j \in Nat, j \in T PROVE j + 1 \in T
    <3> SUFFICES ASSUME j + 1 <= WordBits PROVE P(j + 1)
      OBVIOUS
    <3>1. j \in 0..(WordBits - 1) /\ P(j)
      BY <2>2, Sizes
    <3> QED BY <3>1, <1>7
  <2> HIDE DEF T
  <2>3. \A j \in Nat : j \in T
    BY <2>1, <2>2, Induction
  <2> QED BY <2>3, Sizes DEF T
<1>9. l % TwoTo[WordBits] = l /\ r % TwoTo[WordBits] = r
  <2> HIDE DEF l, r
  <2> QED BY <1>1, Sizes DEF WordSize
<1>10. sum[WordBits] \in Word
  BY <1>4, Sizes DEF Word, WordSize
<1> QED BY <1>8, <1>9, <1>10 DEF WordSize
-----------------------------------------------------------------------------
(* Numbers of four words *)

LEMMA ValueIs ==
  ASSUME NEW v \in Values
  PROVE  /\ v = <<v[1], v[2], v[3], v[4]>>
         /\ v[1] \in Word /\ v[2] \in Word /\ v[3] \in Word /\ v[4] \in Word
BY DEF Values

LEMMA ValueOf ==
  ASSUME NEW a \in Word, NEW b \in Word, NEW c \in Word, NEW d \in Word
  PROVE  <<a, b, c, d>> \in Values
BY DEF Values

LEMMA HornerBound ==
  ASSUME NEW m \in Nat \ {0}, NEW n \in Nat \ {0}, NEW w \in 0..(m - 1), NEW x \in 0..(n - 1)
  PROVE  w + m * x \in 0..(m * n - 1)
<1>1. m * x \in Nat /\ m * n \in Nat
  OBVIOUS
<1>2. m * x <= m * (n - 1)
  <2>1. m * ((n - 1) - x) \in Nat
    BY (n - 1) - x \in Nat
  <2>2. m * ((n - 1) - x) = m * (n - 1) - m * x
    OBVIOUS
  <2> QED BY <1>1, <2>1, <2>2
<1>3. m * (n - 1) = m * n - m
  OBVIOUS
<1> QED BY <1>1, <1>2, <1>3

LEMMA NumberType ==
  ASSUME NEW v \in Values
  PROVE  Number(v) \in 0..(Modulus - 1) /\ Modulus \in Nat \ {0}
<1> DEFINE m == WordSize
           n2 == v[3] + m * v[4]
           n3 == v[2] + m * n2
<1>1. m \in Nat \ {0} /\ v[1] \in 0..(m - 1) /\ v[2] \in 0..(m - 1) /\ v[3] \in 0..(m - 1)
      /\ v[4] \in 0..(m - 1)
  BY ValueIs, Sizes DEF Word
<1> HIDE DEF m
<1>2. m * m \in Nat \ {0} /\ m * (m * m) \in Nat \ {0} /\ m * (m * (m * m)) \in Nat \ {0}
  <2>1. m * m \in Nat \ {0}
    BY <1>1, Grows
  <2>2. m * (m * m) \in Nat \ {0}
    BY <1>1, <2>1, Grows
  <2>3. m * (m * (m * m)) \in Nat \ {0}
    BY <1>1, <2>2, Grows
  <2> QED BY <2>1, <2>2, <2>3
<1>3. n2 \in 0..(m * m - 1)
  BY <1>1, HornerBound
<1> HIDE DEF n2
<1>4. n3 \in 0..(m * (m * m) - 1)
  BY <1>1, <1>2, <1>3, HornerBound
<1> HIDE DEF n3
<1>5. v[1] + m * n3 \in 0..(m * (m * (m * m)) - 1)
  BY <1>1, <1>2, <1>4, HornerBound
<1>6. m * (m * (m * m)) = m * m * m * m
  BY <1>1
<1> QED BY <1>2, <1>5, <1>6 DEF Number, Modulus, n2, n3, m

LEMMA HornerUnique ==
  ASSUME NEW m \in Nat \ {0}, NEW w \in 0..(m - 1), NEW u \in 0..(m - 1), NEW x \in Int, NEW y \in Int,
         w + m * x = u + m * y
  PROVE  w = u /\ x = y
<1> DEFINE z == m * x + w
<1>1. z \in Int /\ z = m * x + w /\ z = m * y + u
  OBVIOUS
<1> HIDE DEF z
<1>2. z \div m = x /\ z % m = w
  BY <1>1, DivModIs
<1>3. z \div m = y /\ z % m = u
  BY <1>1, DivModIs
<1> QED BY <1>2, <1>3

(* different values are different numbers *)
LEMMA NumberUnique ==
  ASSUME NEW v \in Values, NEW x \in Values, Number(v) = Number(x)
  PROVE  v = x
<1> DEFINE m == WordSize
<1>1. /\ m \in Nat \ {0}
      /\ v[1] \in 0..(m - 1) /\ v[2] \in 0..(m - 1) /\ v[3] \in 0..(m - 1) /\ v[4] \in 0..(m - 1)
      /\ x[1] \in 0..(m - 1) /\ x[2] \in 0..(m - 1) /\ x[3] \in 0..(m - 1) /\ x[4] \in 0..(m - 1)
  BY ValueIs, Sizes DEF Word
<1> DEFINE v2 == v[3] + m * v[4]
           v3 == v[2] + m * v2
           x2 == x[3] + m * x[4]
           x3 == x[2] + m * x2
<1>2. v[1] + m * v3 = x[1] + m * x3
  BY DEF Number
<1> HIDE DEF m
<1>3. v2 \in Int /\ x2 \in Int
  BY <1>1
<1>4. v2 = x2 => v[3] = x[3] /\ v[4] = x[4]
  <2> SUFFICES ASSUME v2 = x2 PROVE v[3] = x[3] /\ v[4] = x[4]
    OBVIOUS
  <2>1. v[4] \in Int /\ x[4] \in Int /\ v[3] + m * v[4] = x[3] + m * x[4]
    BY <1>1
  <2> DEFINE a == v[3]
             b == x[3]
             c == v[4]
             d == x[4]
  <2>2. m \in Nat \ {0} /\ a \in 0..(m - 1) /\ b \in 0..(m - 1) /\ c \in Int /\ d \in Int
        /\ a + m * c = b + m * d
    BY <1>1, <2>1
  <2> HIDE DEF v2, x2, a, b, c, d
  <2>3. a = b /\ c = d
    BY <2>2, HornerUnique
  <2> QED BY <2>3 DEF a, b, c, d
<1> HIDE DEF v2, x2
<1>5. v3 \in Int /\ x3 \in Int
  BY <1>1, <1>3
<1>6. v3 = x3 => v[2] = x[2] /\ v2 = x2
  BY <1>1, <1>3, HornerUnique
<1> HIDE DEF v3, x3
<1>7. v[1] = x[1] /\ v3 = x3
  BY <1>1, <1>2, <1>5, HornerUnique
<1> QED BY <1>4, <1>6, <1>7, ValueIs

(* One word of a sum with the words above it: l + r + c is s with carry d   *)
(* out of it, and x + y + d, the words above, are z and e.                  *)
WordOfSum(m, l, r, s, c, d, x, y, z, e) ==
  /\ m \in Int /\ l \in Int /\ r \in Int /\ s \in Int /\ c \in Int /\ d \in Int
  /\ x \in Int /\ y \in Int /\ z \in Int /\ e \in Int
  /\ l + r + c = s + m * d
  /\ x + y + d = z + e

LEMMA HornerAdd ==
  ASSUME NEW m, NEW l, NEW r, NEW s, NEW c, NEW d, NEW x, NEW y, NEW z, NEW e,
         WordOfSum(m, l, r, s, c, d, x, y, z, e)
  PROVE  (l + m * x) + (r + m * y) + c = (s + m * z) + m * e
<1> USE DEF WordOfSum
<1>1. m * (x + y + d) = m * (z + e)
  OBVIOUS
<1>2. m * x + m * y + m * d = m * z + m * e
  BY <1>1
<1>3. m * x \in Int /\ m * y \in Int /\ m * d \in Int /\ m * z \in Int /\ m * e \in Int
  OBVIOUS
<1> QED BY <1>2, <1>3

LEMMA FromBitsIs ==
  ASSUME NEW bit
  PROVE  FromBits(bit) = << PartialSums(bit, 0 * WordBits)[WordBits],
                            PartialSums(bit, 1 * WordBits)[WordBits],
                            PartialSums(bit, 2 * WordBits)[WordBits],
                            PartialSums(bit, 3 * WordBits)[WordBits] >>
BY DEF FromBits, Words

(* The carry out of the highest place is what the sum is short of.          *)
LEMMA AddIsSum ==
  ASSUME NEW left \in Values, NEW right \in Values
  PROVE  /\ uint256_add(left, right) \in Values
         /\ \E c \in {0, 1} :
              Number(left) + Number(right) = Number(uint256_add(left, right)) + Modulus * c
<1> DEFINE m == WordSize
           w == WordBits
           carry == Carries(left, right)
           sum(i) == PartialSums(TotalBits(left, right), i * w)[w]
           s == uint256_add(left, right)
<1>1. s = <<sum(0), sum(1), sum(2), sum(3)>>
  BY AddIs, FromBitsIs
<1>2. m \in Int /\ w \in Nat
  BY Sizes
<1>3. 0 * w = 0 /\ 0 * w + w = w /\ 1 * w = w /\ 1 * w + w = 2 * w /\ 2 * w + w = 3 * w
      /\ 3 * w + w = 4 * w
  BY <1>2
<1>4. \A i \in 0..3 :
        /\ sum(i) \in Word
        /\ left[i + 1] + right[i + 1] + carry[i * w] = sum(i) + m * carry[i * w + w]
  BY AddWord
<1>5. carry[0] = 0 /\ carry[w] \in {0, 1} /\ carry[2 * w] \in {0, 1} /\ carry[3 * w] \in {0, 1}
      /\ carry[4 * w] \in {0, 1}
  <2>1. w \in 0..(4 * w) /\ 2 * w \in 0..(4 * w) /\ 3 * w \in 0..(4 * w) /\ 4 * w \in 0..(4 * w)
    BY <1>2
  <2> QED BY <2>1, CarriesAre
<1> HIDE DEF sum, s, w, m, carry
<1>6. /\ left[1] + right[1] + carry[0] = sum(0) + m * carry[w]
      /\ left[2] + right[2] + carry[w] = sum(1) + m * carry[2 * w]
      /\ left[3] + right[3] + carry[2 * w] = sum(2) + m * carry[3 * w]
      /\ left[4] + right[4] + carry[3 * w] = sum(3) + m * carry[4 * w]
  BY <1>3, <1>4
<1>7. sum(0) \in Word /\ sum(1) \in Word /\ sum(2) \in Word /\ sum(3) \in Word
  BY <1>4
<1>8. s \in Values
  BY <1>1, <1>7, ValueOf
<1>9. /\ left[1] \in Int /\ left[2] \in Int /\ left[3] \in Int /\ left[4] \in Int
      /\ right[1] \in Int /\ right[2] \in Int /\ right[3] \in Int /\ right[4] \in Int
      /\ sum(0) \in Int /\ sum(1) \in Int /\ sum(2) \in Int /\ sum(3) \in Int
      /\ carry[0] \in Int /\ carry[w] \in Int /\ carry[2 * w] \in Int /\ carry[3 * w] \in Int
      /\ carry[4 * w] \in Int
  BY <1>5, <1>7, ValueIs DEF Word
<1> DEFINE l2 == left[3] + m * left[4]
           r2 == right[3] + m * right[4]
           s2 == sum(2) + m * sum(3)
           e2 == m * (m * carry[4 * w])
           l3 == left[2] + m * l2
           r3 == right[2] + m * r2
           s3 == sum(1) + m * s2
           e3 == m * e2
<1>10. l2 + r2 + carry[2 * w] = s2 + e2
  <2>1. WordOfSum(m, left[3], right[3], sum(2), carry[2 * w], carry[3 * w],
                  left[4], right[4], sum(3), m * carry[4 * w])
    BY <1>2, <1>6, <1>9, m * carry[4 * w] \in Int DEF WordOfSum
  <2> QED BY <2>1, HornerAdd
<1>11. l2 \in Int /\ r2 \in Int /\ s2 \in Int /\ e2 \in Int
  BY <1>2, <1>9
<1> HIDE DEF l2, r2, s2, e2
<1>12. l3 + r3 + carry[w] = s3 + e3
  <2>1. WordOfSum(m, left[2], right[2], sum(1), carry[w], carry[2 * w], l2, r2, s2, e2)
    BY <1>2, <1>6, <1>9, <1>10, <1>11 DEF WordOfSum
  <2> QED BY <2>1, HornerAdd
<1>13. l3 \in Int /\ r3 \in Int /\ s3 \in Int /\ e3 \in Int
  BY <1>2, <1>9, <1>11
<1> HIDE DEF l3, r3, s3, e3
<1>14. (left[1] + m * l3) + (right[1] + m * r3) + carry[0] = (sum(0) + m * s3) + m * e3
  <2>1. WordOfSum(m, left[1], right[1], sum(0), carry[0], carry[w], l3, r3, s3, e3)
    BY <1>2, <1>6, <1>9, <1>12, <1>13 DEF WordOfSum
  <2> QED BY <2>1, HornerAdd
<1>15. m * e3 = Modulus * carry[4 * w]
  <2> DEFINE c == carry[4 * w]
  <2>1. c \in Int
    BY <1>9
  <2> HIDE DEF c
  <2>2. m * (m * (m * (m * c))) = (m * m * m * m) * c
    BY <1>2, <2>1
  <2> QED BY <2>2 DEF e3, e2, Modulus, m, c
<1>16. Number(s) = sum(0) + m * s3
  BY <1>1 DEF Number, s3, s2, m
<1>17. Number(left) = left[1] + m * l3 /\ Number(right) = right[1] + m * r3
  BY DEF Number, l3, l2, r3, r2, m
<1>18. Number(left) + Number(right) = Number(s) + Modulus * carry[4 * w]
  BY <1>2, <1>5, <1>9, <1>13, <1>14, <1>15, <1>16, <1>17
<1> QED BY <1>5, <1>8, <1>18 DEF s

LEMMA AddIsModular ==
  ASSUME NEW left \in Values, NEW right \in Values
  PROVE  /\ uint256_add(left, right) \in Values
         /\ Number(uint256_add(left, right)) = (Number(left) + Number(right)) % Modulus
<1>1. PICK c \in {0, 1} : Number(left) + Number(right) = Number(uint256_add(left, right)) + Modulus * c
  BY AddIsSum
<1>2. uint256_add(left, right) \in Values
  BY AddIsSum
<1> DEFINE s == Number(uint256_add(left, right))
           n == Number(left) + Number(right)
           m == Modulus
<1>3. m \in Nat \ {0} /\ s \in 0..(m - 1) /\ n \in Int /\ c \in Int /\ n = s + m * c
  BY <1>1, <1>2, NumberType
<1> HIDE DEF s, n, m
<1>4. n = m * c + s
  BY <1>3
<1>5. n % m = s
  BY <1>3, <1>4, DivModIs
<1> QED BY <1>2, <1>5 DEF s, n, m
-----------------------------------------------------------------------------
(* uint256_sub *)

ComplementBits(v) == [k \in Places |-> 1 - BitAt(v, k)]

LEMMA ComplementWord ==
  ASSUME NEW v \in Values, NEW i \in 0..3
  PROVE  LET sum == PartialSums(ComplementBits(v), i * WordBits)
         IN  sum[WordBits] \in Word /\ sum[WordBits] = (WordSize - 1) - v[i + 1]
<1> DEFINE bit == ComplementBits(v)
           first == i * WordBits
           sum == PartialSums(bit, first)
           w == v[i + 1]
           P(j) == sum[j] = (TwoTo[j] - 1) - (w % TwoTo[j])
<1>1. w \in Nat /\ w < WordSize
  <2>1. i + 1 \in 1..4
    OBVIOUS
  <2>2. \A k \in 1..4 : v[k] \in Word
    BY DEF Values
  <2> QED BY <2>1, <2>2, Sizes DEF Word
<1>2. first \in Nat
  BY Sizes
<1>3. \A j \in 0..(WordBits - 1) :
        /\ first + j \in Places
        /\ bit[first + j] = 1 - ((w \div TwoTo[j]) % 2)
        /\ bit[first + j] \in {0, 1}
  <2> SUFFICES ASSUME NEW j \in 0..(WordBits - 1)
               PROVE  /\ first + j \in Places
                      /\ bit[first + j] = 1 - ((w \div TwoTo[j]) % 2)
                      /\ bit[first + j] \in {0, 1}
    OBVIOUS
  <2>1. first + j \in Places /\ BitAt(v, first + j) = (w \div TwoTo[j]) % 2
        /\ BitAt(v, first + j) \in {0, 1}
    BY PlaceIs, BitIs
  <2>2. bit[first + j] = 1 - BitAt(v, first + j)
    BY <2>1 DEF ComplementBits
  <2> QED BY <2>1, <2>2
<1>4. /\ sum[0] = 0
      /\ \A j \in 0..(WordBits - 1) : sum[j + 1] = sum[j] + bit[first + j] * TwoTo[j]
      /\ \A j \in 0..WordBits : sum[j] \in 0..(TwoTo[j] - 1)
  <2> HIDE DEF bit, first
  <2> QED BY <1>2, <1>3, PartialSumsAre
<1> HIDE DEF w, sum, bit, first
<1>5. P(0)
  <2>1. TwoTo[0] = 1 /\ w % 1 = 0
    BY <1>1, TwoToLaws
  <2> QED BY <1>4, <2>1
<1>6. ASSUME NEW j \in 0..(WordBits - 1), P(j) PROVE P(j + 1)
  <2> DEFINE t == TwoTo[j]
             b == (w \div t) % 2
             r == w % t
  <2>1. t \in Nat \ {0} /\ TwoTo[j + 1] = 2 * t /\ j \in Nat
    BY TwoToLaws, Sizes
  <2>2. w % TwoTo[j + 1] = r + b * t /\ b \in {0, 1}
    BY <1>1, <2>1, RemainderGrows
  <2>3. sum[j + 1] = sum[j] + (1 - b) * t /\ sum[j] = (t - 1) - r
    BY <1>3, <1>4, <1>6
  <2>4. r \in Int
    BY <1>1, <2>1
  <2> HIDE DEF t, b, r
  <2>5. sum[j + 1] = (2 * t - 1) - (r + b * t)
    <3>1. b = 0 \/ b = 1
      BY <2>2
    <3> QED BY <2>1, <2>3, <2>4, <3>1
  <2> QED BY <2>1, <2>2, <2>5
<1>7. P(WordBits)
  <2> HIDE DEF P
  <2> DEFINE T == {j \in Nat : j <= WordBits => P(j)}
  <2>1. 0 \in T
    BY <1>5
  <2>2. ASSUME NEW j \in Nat, j \in T PROVE j + 1 \in T
    <3> SUFFICES ASSUME j + 1 <= WordBits PROVE P(j + 1)
      OBVIOUS
    <3>1. j \in 0..(WordBits - 1) /\ P(j)
      BY <2>2, Sizes
    <3> QED BY <3>1, <1>6
  <2> HIDE DEF T
  <2>3. \A j \in Nat : j \in T
    BY <2>1, <2>2, Induction
  <2> QED BY <2>3, Sizes DEF T
<1>8. w % WordSize = w
  BY <1>1, Sizes
<1>9. sum[WordBits] \in Word
  BY <1>4, Sizes DEF Word, WordSize
<1> QED BY <1>7, <1>8, <1>9 DEF WordSize, w, sum, bit, first

LEMMA ComplementIs ==
  ASSUME NEW v \in Values
  PROVE  /\ Complement(v) \in Values
         /\ Number(Complement(v)) = (Modulus - 1) - Number(v)
<1> DEFINE sum(i) == PartialSums(ComplementBits(v), i * WordBits)[WordBits]
           c == Complement(v)
           m == WordSize
<1>1. c = <<sum(0), sum(1), sum(2), sum(3)>>
  BY FromBitsIs DEF Complement, ComplementBits
<1>2. \A i \in 0..3 : sum(i) \in Word /\ sum(i) = (m - 1) - v[i + 1]
  BY ComplementWord
<1>3. v[1] \in Int /\ v[2] \in Int /\ v[3] \in Int /\ v[4] \in Int /\ m \in Int
  BY ValueIs, Sizes DEF Word
<1> HIDE DEF sum, c, m
<1>4. /\ c[1] = (m - 1) - v[1] /\ c[2] = (m - 1) - v[2]
      /\ c[3] = (m - 1) - v[3] /\ c[4] = (m - 1) - v[4]
  BY <1>1, <1>2
<1>5. c \in Values
  BY <1>1, <1>2, ValueOf
<1> DEFINE v2 == v[3] + m * v[4]
           c2 == c[3] + m * c[4]
           v3 == v[2] + m * v2
           c3 == c[2] + m * c2
<1>6. v2 \in Int /\ c2 = (m * m - 1) - v2
  <2>1. m * c[4] = (m * m - m) - m * v[4]
    BY <1>3, <1>4
  <2>2. m * v[4] \in Int /\ m * m \in Int
    BY <1>3
  <2> DEFINE p == m * c[4]
             q == m * v[4]
             n == m * m
             a == c[3]
             b == v[3]
  <2>3. p = (n - m) - q /\ q \in Int /\ n \in Int /\ a = (m - 1) - b /\ b \in Int /\ m \in Int
    BY <1>3, <1>4, <2>1, <2>2
  <2>4. c2 = a + p /\ v2 = b + q
    OBVIOUS
  <2> HIDE DEF p, q, n, a, b, c2, v2
  <2>5. v2 \in Int /\ c2 = (n - 1) - v2
    BY <2>3, <2>4
  <2> QED BY <2>5 DEF n
<1> HIDE DEF v2, c2
<1>7. v3 \in Int /\ c3 = (m * (m * m) - 1) - v3
  <2>1. m * m \in Int
    BY <1>3
  <2> QED BY <1>3, <1>4, <1>6, <2>1
<1> HIDE DEF v3, c3
<1>8. c[1] + m * c3 = (m * m * m * m - 1) - (v[1] + m * v3)
  BY <1>3, <1>4, <1>7
<1> QED BY <1>5, <1>8 DEF Number, Modulus, c, c2, c3, v2, v3, m

LEMMA SubIsModular ==
  ASSUME NEW left \in Values, NEW right \in Values
  PROVE  /\ uint256_sub(left, right) \in Values
         /\ Number(uint256_sub(left, right)) = (Number(left) - Number(right)) % Modulus
<1> DEFINE one == uint256_create_from_u64(1)
           neg == uint256_add(Complement(right), one)
           sub == uint256_add(neg, left)
           m == Modulus
           l == Number(left)
           r == Number(right)
           a == Number(neg)
           s == Number(sub)
<1>1. one \in Values /\ Number(one) = 1
  <2>1. 0 \in Word /\ 1 \in Word
    BY Sizes DEF Word
  <2>2. one = <<1, 0, 0, 0>>
    BY DEF uint256_create_from_u64
  <2>3. one[1] = 1 /\ one[2] = 0 /\ one[3] = 0 /\ one[4] = 0
    BY <2>2
  <2> HIDE DEF one
  <2> QED BY <2>1, <2>2, <2>3, ValueOf, Sizes DEF Number
<1>2. Complement(right) \in Values /\ Number(Complement(right)) = (m - 1) - r
  BY ComplementIs
<1> HIDE DEF one
<1>3. neg \in Values /\ \E c \in {0, 1} : Number(Complement(right)) + Number(one) = Number(neg) + m * c
  BY <1>1, <1>2, AddIsSum
<1> HIDE DEF neg
<1>4. sub \in Values /\ \E c \in {0, 1} : Number(neg) + Number(left) = Number(sub) + m * c
  BY <1>3, AddIsSum
<1>5. PICK c1 \in {0, 1} : ((m - 1) - r) + 1 = a + m * c1
  BY <1>1, <1>2, <1>3
<1>6. PICK c2 \in {0, 1} : a + l = s + m * c2
  BY <1>4
<1>7. m \in Nat \ {0} /\ l \in Int /\ r \in Int /\ a \in Int /\ s \in 0..(m - 1)
  BY <1>3, <1>4, NumberType
<1> HIDE DEF m, l, r, a, s, sub
<1> DEFINE q == (c2 + c1) - 1
           x == l - r
<1>8. q \in Int /\ x \in Int /\ x = m * q + s
  <2>1. m * q = m * c2 + m * c1 - m
    BY <1>7
  <2> QED BY <1>5, <1>6, <1>7, <2>1
<1> HIDE DEF q, x
<1>9. x % m = s
  BY <1>7, <1>8, DivModIs
<1>10. sub \in Values /\ Number(sub) = x % m
  BY <1>4, <1>9 DEF s
<1> QED BY <1>10 DEF x, m, l, r, sub, neg, one, uint256_sub
-----------------------------------------------------------------------------
(* shift_by_index *)

Moved(v, index) == Words(LAMBDA i : IF i < index THEN 0 ELSE v[1 + i - index])

LEMMA ShiftIs ==
  ASSUME NEW v, NEW i \in 0..3, NEW j \in 0..(WordBits - 1)
  PROVE  LET w == Moved(v, i)
             t == TwoTo[j]
             u == TwoTo[WordBits - j]
         IN  shift_by_index(v, i * WordBits + j) =
               IF j = 0 THEN w
               ELSE << ((w[1] * t) % WordSize) + 0,
                       ((w[2] * t) % WordSize) + (w[1] \div u),
                       ((w[3] * t) % WordSize) + (w[2] \div u),
                       ((w[4] * t) % WordSize) + (w[3] \div u) >>
<1> DEFINE k == i * WordBits + j
<1>1. k \div WordBits = i /\ k % WordBits = j
  BY PlaceIs
<1> HIDE DEF k
<1>2. CASE j = 0
  BY <1>1, <1>2 DEF shift_by_index, Moved, Words, k
<1>3. CASE j # 0
  BY <1>1, <1>3 DEF shift_by_index, Moved, Words, k
<1> QED BY <1>2, <1>3

LEMMA MovedIs ==
  ASSUME NEW v \in Values, NEW i \in 0..3
  PROVE  /\ Moved(v, i) \in Values
         /\ \E q \in Nat : Number(v) * TwoTo[i * WordBits] = Number(Moved(v, i)) + Modulus * q
<1> DEFINE m == WordSize
           a == v[1]
           b == v[2]
           c == v[3]
           d == v[4]
           w == Moved(v, i)
<1>1. a \in Word /\ b \in Word /\ c \in Word /\ d \in Word /\ 0 \in Word
  BY ValueIs, Sizes DEF Word
<1>2. a \in Nat /\ b \in Nat /\ c \in Nat /\ d \in Nat /\ m \in Nat
  BY <1>1, Sizes DEF Word
<1>3. TwoTo[WordBits] = m /\ WordBits \in Nat
  BY Sizes DEF WordSize
<1>4. /\ TwoTo[0 * WordBits] = 1
      /\ TwoTo[1 * WordBits] = m
      /\ TwoTo[2 * WordBits] = m * m
      /\ TwoTo[3 * WordBits] = m * (m * m)
  <2>1. 0 * WordBits = 0 /\ 1 * WordBits = WordBits /\ 2 * WordBits = WordBits + WordBits
        /\ 3 * WordBits = WordBits + (WordBits + WordBits) /\ WordBits + WordBits \in Nat
    BY <1>3
  <2> HIDE DEF m
  <2>2. TwoTo[WordBits + WordBits] = m * m
    BY <1>3, TwoToSum
  <2>3. TwoTo[WordBits + (WordBits + WordBits)] = m * (m * m)
    BY <1>3, <2>1, <2>2, TwoToSum
  <2> QED BY <1>3, <2>1, <2>2, <2>3, TwoToLaws
<1>5. Number(v) = a + m * (b + m * (c + m * d)) /\ Modulus = m * m * m * m
  BY DEF Number, Modulus
<1>6. /\ i = 0 => w = <<a, b, c, d>>
      /\ i = 1 => w = <<0, a, b, c>>
      /\ i = 2 => w = <<0, 0, a, b>>
      /\ i = 3 => w = <<0, 0, 0, a>>
  BY DEF Moved, Words
<1>7. \A x : Number(x) = x[1] + m * (x[2] + m * (x[3] + m * x[4]))
  BY DEF Number
<1> HIDE DEF m, a, b, c, d, w
<1>8. w \in Values
  BY <1>1, <1>6, ValueOf
<1>9. \E q \in Nat : Number(v) * TwoTo[i * WordBits] = Number(w) + Modulus * q
  <2>1. CASE i = 0
    <3>1. Number(w) = a + m * (b + m * (c + m * d))
      BY <1>6, <1>7, <2>1
    <3>2. Number(v) * TwoTo[i * WordBits] = Number(w) + Modulus * 0
      BY <1>2, <1>4, <1>5, <2>1, <3>1
    <3> QED BY <3>2
  <2>2. CASE i = 1
    <3>1. Number(w) = 0 + m * (a + m * (b + m * c))
      BY <1>6, <1>7, <2>2
    <3>2. (a + m * (b + m * (c + m * d))) * m = (0 + m * (a + m * (b + m * c))) + (m * m * m * m) * d
      BY <1>2
    <3>3. Number(v) * TwoTo[i * WordBits] = Number(w) + Modulus * d
      BY <1>4, <1>5, <2>2, <3>1, <3>2
    <3> QED BY <1>2, <3>3
  <2>3. CASE i = 2
    <3>1. Number(w) = 0 + m * (0 + m * (a + m * b))
      BY <1>6, <1>7, <2>3
    <3>2. (a + m * (b + m * (c + m * d))) * (m * m)
            = (0 + m * (0 + m * (a + m * b))) + (m * m * m * m) * (c + m * d)
      BY <1>2
    <3>3. Number(v) * TwoTo[i * WordBits] = Number(w) + Modulus * (c + m * d)
      BY <1>4, <1>5, <2>3, <3>1, <3>2
    <3>4. c + m * d \in Nat
      BY <1>2
    <3> QED BY <3>3, <3>4
  <2>4. CASE i = 3
    <3>1. Number(w) = 0 + m * (0 + m * (0 + m * a))
      BY <1>6, <1>7, <2>4
    <3>2. (a + m * (b + m * (c + m * d))) * (m * (m * m))
            = (0 + m * (0 + m * (0 + m * a))) + (m * m * m * m) * (b + m * (c + m * d))
      BY <1>2
    <3>3. Number(v) * TwoTo[i * WordBits] = Number(w) + Modulus * (b + m * (c + m * d))
      BY <1>4, <1>5, <2>4, <3>1, <3>2
    <3>4. b + m * (c + m * d) \in Nat
      <4>1. m * d \in Nat
        BY <1>2
      <4>2. m * (c + m * d) \in Nat
        BY <1>2, <4>1
      <4> QED BY <1>2, <4>2
    <3> QED BY <3>3, <3>4
  <2> QED BY <2>1, <2>2, <2>3, <2>4
<1> QED BY <1>8, <1>9 DEF w

(* One word shifted by j bits: what stays in it and what it hands on.        *)
LEMMA ShiftWord ==
  ASSUME NEW w \in Word, NEW j \in 1..(WordBits - 1), NEW c \in 0..(TwoTo[j] - 1)
  PROVE  LET t == TwoTo[j]
             u == TwoTo[WordBits - j]
         IN  /\ ((w * t) % WordSize) + c \in Word
             /\ w \div u \in 0..(t - 1)
             /\ w * t + c = (((w * t) % WordSize) + c) + WordSize * (w \div u)
<1> DEFINE t == TwoTo[j]
           u == TwoTo[WordBits - j]
           m == WordSize
           q == w \div u
           r == w % u
<1>1. t \in Nat \ {0} /\ u \in Nat \ {0} /\ m = t * u /\ m \in Nat \ {0}
  <2>1. j \in Nat /\ WordBits - j \in Nat /\ j + (WordBits - j) = WordBits
    BY Sizes
  <2> QED BY <2>1, TwoToLaws, TwoToSum, Sizes DEF WordSize
<1>2. w \in 0..(m - 1) /\ c \in 0..(t - 1)
  BY DEF Word
<1>3. q \in Int /\ r \in 0..(u - 1) /\ w = u * q + r
  <2>1. w \in Int
    BY <1>2
  <2> HIDE DEF u
  <2> QED BY <1>1, <2>1, DivMod
<1> HIDE DEF t, u, m, q, r
<1>4. r * t \in 0..(m - t)
  <2>1. t * ((u - 1) - r) \in Nat
    BY <1>1, <1>3, (u - 1) - r \in Nat
  <2>2. t * ((u - 1) - r) = (m - t) - r * t
    BY <1>1, <1>3
  <2>3. r * t \in Nat
    BY <1>1, <1>3
  <2> QED BY <1>1, <2>1, <2>2, <2>3
<1>5. w * t = m * q + r * t
  BY <1>1, <1>3
<1>6. (w * t) % m = r * t
  <2> DEFINE x == w * t
             s == r * t
  <2>1. x \in Int /\ s \in 0..(m - 1) /\ x = m * q + s
    BY <1>1, <1>2, <1>4, <1>5
  <2> HIDE DEF x, s
  <2>2. x % m = s
    BY <1>1, <1>3, <2>1, DivModIs
  <2> QED BY <2>2 DEF x, s
<1>7. ~(q < 0)
  <2> SUFFICES ASSUME q < 0 PROVE FALSE
    OBVIOUS
  <2>1. u * (-q) >= u
    BY <1>1, <1>3, Grows, -q \in Nat \ {0}
  <2>2. u * (-q) = -(u * q)
    BY <1>1, <1>3
  <2> QED BY <1>1, <1>2, <1>3, <2>1, <2>2
<1>8. ~(q >= t)
  <2> SUFFICES ASSUME q >= t PROVE FALSE
    OBVIOUS
  <2>1. u * (q - t) \in Nat
    BY <1>1, <1>3, q - t \in Nat
  <2>2. u * (q - t) = u * q - m
    BY <1>1, <1>3
  <2>3. u * q \in Int
    BY <1>1, <1>3
  <2> QED BY <1>1, <1>2, <1>3, <2>1, <2>2, <2>3
<1>9. q \in 0..(t - 1)
  BY <1>1, <1>3, <1>7, <1>8
<1>10. r * t + c \in 0..(m - 1)
  BY <1>1, <1>2, <1>4
<1>11. w * t + c = (r * t + c) + m * q
  <2>1. r * t \in Int /\ m * q \in Int
    BY <1>1, <1>3
  <2> QED BY <1>2, <1>5, <2>1
<1>12. ((w * t) % m) + c \in Word
  BY <1>6, <1>10 DEF m, Word
<1>13. w * t + c = (((w * t) % m) + c) + m * q
  BY <1>6, <1>11
<1> QED BY <1>9, <1>12, <1>13 DEF t, u, m, q

LEMMA ShiftIsScaled ==
  ASSUME NEW v \in Values, NEW k \in Places
  PROVE  /\ shift_by_index(v, k) \in Values
         /\ \E q \in Nat : Number(v) * TwoTo[k] = Number(shift_by_index(v, k)) + Modulus * q
<1>1. PICK i \in 0..3, j \in 0..(WordBits - 1) : k = i * WordBits + j
  BY PlaceOf
<1> DEFINE m == WordSize
           t == TwoTo[j]
           u == TwoTo[WordBits - j]
           w == Moved(v, i)
           s == shift_by_index(v, k)
           p == TwoTo[i * WordBits]
           n == Modulus
           o1 == ((w[1] * t) % m) + 0
           o2 == ((w[2] * t) % m) + (w[1] \div u)
           o3 == ((w[3] * t) % m) + (w[2] \div u)
           o4 == ((w[4] * t) % m) + (w[3] \div u)
           c1 == w[1] \div u
           c2 == w[2] \div u
           c3 == w[3] \div u
           c4 == w[4] \div u
<1>2. s = IF j = 0 THEN w ELSE <<o1, o2, o3, o4>>
  BY <1>1, ShiftIs
<1>3. w \in Values
  BY MovedIs
<1>4. PICK q1 \in Nat : Number(v) * p = Number(w) + n * q1
  BY MovedIs
<1>5. t \in Nat \ {0} /\ p \in Nat \ {0} /\ TwoTo[k] = p * t /\ n \in Nat
  <2>1. i * WordBits \in Nat /\ j \in Nat
    BY Sizes
  <2>2. TwoTo[i * WordBits + j] = p * t
    BY <2>1, TwoToSum
  <2> QED BY <1>1, <2>1, <2>2, TwoToLaws, NumberType
<1>6. Number(v) \in Int /\ Number(w) \in Int /\ m \in Int
  BY <1>3, NumberType, Sizes
<1>7. s \in Values /\ \E q \in Nat : Number(w) * t = Number(s) + n * q
  <2>1. CASE j = 0
    <3>1. s = w /\ t = 1
      BY <1>2, <2>1, TwoToLaws
    <3> HIDE DEF s, w, t, n
    <3>2. Number(w) * t = Number(s) + n * 0
      BY <1>5, <1>6, <3>1
    <3> QED BY <1>3, <3>1, <3>2
  <2>2. CASE j # 0
    <3> j \in 1..(WordBits - 1)
      BY <2>2, Sizes
    <3>1. w[1] \in Word /\ w[2] \in Word /\ w[3] \in Word /\ w[4] \in Word
      BY <1>3, ValueIs
    <3> HIDE DEF w
    <3>2. o1 \in Word /\ c1 \in 0..(t - 1) /\ w[1] * t + 0 = o1 + m * c1
      BY <1>5, <3>1, ShiftWord, 0 \in 0..(t - 1)
    <3>3. o2 \in Word /\ c2 \in 0..(t - 1) /\ w[2] * t + c1 = o2 + m * c2
      BY <3>1, <3>2, ShiftWord
    <3>4. o3 \in Word /\ c3 \in 0..(t - 1) /\ w[3] * t + c2 = o3 + m * c3
      BY <3>1, <3>3, ShiftWord
    <3>5. o4 \in Word /\ c4 \in 0..(t - 1) /\ w[4] * t + c3 = o4 + m * c4
      BY <3>1, <3>4, ShiftWord
    <3>6. /\ w[1] \in Int /\ w[2] \in Int /\ w[3] \in Int /\ w[4] \in Int
          /\ o1 \in Int /\ o2 \in Int /\ o3 \in Int /\ o4 \in Int
          /\ c1 \in Int /\ c2 \in Int /\ c3 \in Int /\ c4 \in Int /\ t \in Int /\ c4 \in Nat
      BY <1>5, <3>1, <3>2, <3>3, <3>4, <3>5 DEF Word
    <3> HIDE DEF s, t, m, n, o1, o2, o3, o4, c1, c2, c3, c4
    <3>7. s = <<o1, o2, o3, o4>>
      BY <1>2, <2>2
    <3>8. s \in Values /\ s[1] = o1 /\ s[2] = o2 /\ s[3] = o3 /\ s[4] = o4
      BY <3>2, <3>3, <3>4, <3>5, <3>7, ValueOf
    <3> DEFINE x2 == t * w[3] + m * (t * w[4])
               s2 == o3 + m * o4
               e2 == m * (m * c4)
               x3 == t * w[2] + m * x2
               s3 == o2 + m * s2
               e3 == m * e2
    <3>9. x2 + 0 + c2 = s2 + e2 /\ x2 \in Int /\ s2 \in Int /\ e2 \in Int
      <4>1. WordOfSum(m, t * w[3], 0, o3, c2, c3, t * w[4], 0, o4, m * c4)
        BY <1>6, <3>4, <3>5, <3>6 DEF WordOfSum
      <4>2. (t * w[3] + m * (t * w[4])) + (0 + m * 0) + c2 = (o3 + m * o4) + m * (m * c4)
        BY <4>1, HornerAdd
      <4> QED BY <1>6, <3>6, <4>2
    <3> HIDE DEF x2, s2, e2
    <3>10. x3 + 0 + c1 = s3 + e3 /\ x3 \in Int /\ s3 \in Int /\ e3 \in Int
      <4>1. WordOfSum(m, t * w[2], 0, o2, c1, c2, x2, 0, s2, e2)
        BY <1>6, <3>3, <3>6, <3>9 DEF WordOfSum
      <4>2. (t * w[2] + m * x2) + (0 + m * 0) + c1 = (o2 + m * s2) + m * e2
        BY <4>1, HornerAdd
      <4> QED BY <1>6, <3>6, <3>9, <4>2
    <3> HIDE DEF x3, s3, e3
    <3>11. t * w[1] + m * x3 = (o1 + m * s3) + m * e3
      <4>1. WordOfSum(m, t * w[1], 0, o1, 0, c1, x3, 0, s3, e3)
        BY <1>6, <3>2, <3>6, <3>10 DEF WordOfSum
      <4>2. (t * w[1] + m * x3) + (0 + m * 0) + 0 = (o1 + m * s3) + m * e3
        BY <4>1, HornerAdd
      <4> QED BY <1>6, <3>6, <3>10, <4>2
    <3>12. m * e3 = n * c4
      BY <1>6, <3>6 DEF e3, e2, n, m, Modulus
    <3>13. Number(s) = o1 + m * s3
      BY <3>8 DEF Number, s3, s2, m
    <3>14. Number(w) * t = t * w[1] + m * x3
      <4>1. Number(w) = w[1] + m * (w[2] + m * (w[3] + m * w[4]))
        BY DEF Number, m
      <4>2. (w[1] + m * (w[2] + m * (w[3] + m * w[4]))) * t
              = t * w[1] + m * (t * w[2] + m * (t * w[3] + m * (t * w[4])))
        BY <1>6, <3>6
      <4> QED BY <4>1, <4>2 DEF x3, x2
    <3>15. Number(w) * t = Number(s) + n * c4
      BY <3>11, <3>12, <3>13, <3>14
    <3> QED BY <3>6, <3>8, <3>15
  <2> QED BY <2>1, <2>2
<1>8. PICK q2 \in Nat : Number(w) * t = Number(s) + n * q2
  BY <1>7
<1>9. Number(s) \in Int
  BY <1>7, NumberType
<1> HIDE DEF s, w, t, p, n
<1>10. Number(v) * (p * t) = Number(s) + n * (q2 + q1 * t)
  <2> DEFINE a == Number(v)
             b == Number(w)
             c == Number(s)
  <2>1. a \in Int /\ b \in Int /\ c \in Int /\ a * p = b + n * q1 /\ b * t = c + n * q2
    BY <1>4, <1>6, <1>8, <1>9
  <2> HIDE DEF a, b, c
  <2>2. a * (p * t) = (a * p) * t
    BY <1>5, <2>1
  <2>3. (b + n * q1) * t = b * t + n * (q1 * t)
    BY <1>5, <2>1
  <2>4. n * (q2 + q1 * t) = n * q2 + n * (q1 * t)
    BY <1>5
  <2>5. n * q2 \in Int /\ n * (q1 * t) \in Int
    BY <1>5
  <2>6. a * (p * t) = c + n * (q2 + q1 * t)
    BY <2>1, <2>2, <2>3, <2>4, <2>5
  <2> QED BY <2>6 DEF a, b, c
<1>11. q2 + q1 * t \in Nat
  BY <1>5
<1> QED BY <1>5, <1>7, <1>10, <1>11 DEF s, n
-----------------------------------------------------------------------------
(* uint256_mul *)

LEMMA ProductsAre ==
  ASSUME NEW left \in Values, NEW right \in Values
  PROVE  LET product == Products(left, right)
         IN  /\ product[0] = uint256_create_from_u64(0)
             /\ \A k \in 0..(4 * WordBits) : product[k] \in Values
             /\ \A k \in Places :
                  product[k + 1] = IF BitAt(left, k) = 0 THEN product[k]
                                   ELSE uint256_add(product[k], shift_by_index(right, k))
<1> DEFINE n == 4 * WordBits
           zero == uint256_create_from_u64(0)
           next(k, x) == IF BitAt(left, k) = 0 THEN x ELSE uint256_add(x, shift_by_index(right, k))
           step == [k \in 1..n |-> [x \in Values |-> next(k - 1, x)]]
           product == Products(left, right)
<1>1. n \in Nat /\ zero \in Values
  <2>1. 0 \in Word
    BY Sizes DEF Word
  <2> QED BY <2>1, ValueOf, Sizes DEF uint256_create_from_u64
<1>2. \A k \in Places, x \in Values : next(k, x) \in Values
  BY ShiftIsScaled, AddIsModular
<1>3. \A k \in 1..n : k - 1 \in Places
  BY Sizes DEF Places
<1> HIDE DEF next
<1>4. step \in [1..n -> [Values -> Values]]
  BY <1>2, <1>3
<1>5. PICK f \in [0..n -> Values] : FollowsTo(f, zero, step, n)
  <2> HIDE DEF step, n, zero
  <2> QED BY <1>1, <1>4, Recursion
<1>6. f = [k \in 0..n |-> IF k = 0 THEN zero ELSE next(k - 1, f[k - 1])]
  <2>1. ASSUME NEW k \in 0..n PROVE f[k] = IF k = 0 THEN zero ELSE next(k - 1, f[k - 1])
    <3>1. f[k] = IF k = 0 THEN zero ELSE step[k][f[k - 1]]
      BY <1>5 DEF FollowsTo, Follows
    <3>2. k # 0 => k \in 1..n /\ k - 1 \in 0..n
      BY <1>1
    <3> HIDE DEF zero, n
    <3> QED BY <3>1, <3>2
  <2> QED BY <2>1
<1>7. product = [k \in 0..n |-> IF k = 0 THEN zero ELSE next(k - 1, product[k - 1])]
  BY <1>6 DEF Products, next
<1>8. product \in [0..n -> Values]
  <2> DEFINE T == {k \in Nat : k <= n => product[k] \in Values}
  <2> HIDE DEF product
  <2>1. 0 \in T
    BY <1>1, <1>7
  <2>2. ASSUME NEW k \in Nat, k \in T PROVE k + 1 \in T
    <3> SUFFICES ASSUME k + 1 <= n PROVE product[k + 1] \in Values
      OBVIOUS
    <3>1. k + 1 \in 0..n /\ k + 1 # 0 /\ (k + 1) - 1 = k /\ k \in Places /\ product[k] \in Values
      BY <1>1, <1>3, <2>2
    <3>2. product[k + 1] = next(k, product[k])
      BY <1>7, <3>1
    <3> QED BY <1>2, <3>1, <3>2
  <2> HIDE DEF T
  <2>3. \A k \in Nat : k \in T
    BY <2>1, <2>2, Induction
  <2>4. \A k \in 0..n : product[k] \in Values
    BY <2>3 DEF T
  <2>5. product = [k \in 0..n |-> product[k]]
    BY <1>7
  <2> QED BY <2>4, <2>5
<1> HIDE DEF product
<1>9. product[0] = zero
  BY <1>1, <1>7
<1>10. ASSUME NEW k \in Places PROVE product[k + 1] = next(k, product[k])
  <2>1. k + 1 \in 0..n /\ k + 1 # 0 /\ (k + 1) - 1 = k
    BY Sizes DEF Places
  <2> QED BY <1>7, <2>1
<1>11. \A k \in 0..n : product[k] \in Values
  BY <1>8
<1> QED BY <1>9, <1>10, <1>11 DEF product, next

(* The word w of the number n: lo is below it and below p, hi above it; a    *)
(* digit has g values, t below it and h above it are what m is made of.      *)
AroundWord(g, p, lo, w, hi, m, t, h, n) ==
  /\ p \in Nat \ {0} /\ lo \in 0..(p - 1) /\ w \in Nat /\ hi \in Nat
  /\ t \in Nat \ {0} /\ h \in Nat /\ n \in Nat /\ g \in Nat \ {0}
  /\ m = t * (g * h)
  /\ n = lo + p * (w + m * hi)

(* a digit of a number is that digit of the word it is in *)
LEMMA DigitWithin ==
  ASSUME NEW g, NEW p, NEW lo, NEW w, NEW hi, NEW m, NEW t, NEW h, NEW n,
         AroundWord(g, p, lo, w, hi, m, t, h, n)
  PROVE  (n \div (p * t)) % g = (w \div t) % g
<1>0. /\ p \in Nat \ {0} /\ lo \in 0..(p - 1) /\ w \in Nat /\ hi \in Nat
      /\ t \in Nat \ {0} /\ h \in Nat /\ n \in Nat /\ g \in Nat \ {0}
      /\ n = lo + p * (w + (t * (g * h)) * hi)
  BY DEF AroundWord
<1> DEFINE a == w \div t
           r == w % t
           b == a % g
           c == a \div g
<1>1. a \in Int /\ r \in 0..(t - 1) /\ w = t * a + r
  BY <1>0, DivMod, w \in Int
<1>2. c \in Int /\ b \in 0..(g - 1) /\ a = g * c + b
  <2> HIDE DEF a
  <2> QED BY <1>0, <1>1, DivMod
<1> HIDE DEF a, r, b, c
<1> DEFINE k == g * h
           e == a + k * hi
           s == lo + p * r
           m1 == p * t
<1>3. m1 \in Nat \ {0} /\ s \in 0..(m1 - 1) /\ e \in Int /\ k \in Nat
  <2>1. m1 \in Nat \ {0}
    BY <1>0, Grows
  <2>2. s \in 0..(m1 - 1)
    BY <1>0, <1>1, HornerBound
  <2>3. k \in Nat
    BY <1>0
  <2> QED BY <1>0, <1>1, <2>1, <2>2, <2>3
<1>4. n = m1 * e + s
  <2> HIDE DEF k
  <2>1. p * (t * a) = m1 * a /\ p * ((t * k) * hi) = m1 * (k * hi)
    BY <1>0, <1>1, <1>3
  <2>2. n = lo + (p * (t * a) + p * r + p * ((t * k) * hi))
    <3>1. n = lo + p * ((t * a + r) + (t * k) * hi)
      BY <1>0, <1>1 DEF k
    <3> QED BY <1>0, <1>1, <1>3, <3>1
  <2>3. m1 * e = m1 * a + m1 * (k * hi)
    BY <1>0, <1>1, <1>3
  <2> DEFINE x == p * (t * a)
             y == p * ((t * k) * hi)
             z == p * r
             f == m1 * e
  <2>4. x \in Int /\ y \in Int /\ z \in Int /\ n = lo + (x + z + y) /\ f = x + y /\ lo \in Int
    BY <1>0, <1>1, <1>3, <2>1, <2>2, <2>3
  <2> HIDE DEF x, y, z, f
  <2>5. n = f + (lo + z)
    BY <2>4
  <2> QED BY <2>5 DEF f, z
<1>5. n \div m1 = e
  <2>1. m1 \in Nat \ {0} /\ e \in Int /\ s \in 0..(m1 - 1) /\ n \in Int /\ n = m1 * e + s
    BY <1>0, <1>3, <1>4
  <2> HIDE DEF m1, e, s
  <2> QED BY <2>1, DivModIs
<1>6. e % g = b
  <2> DEFINE q == c + h * hi
  <2>1. q \in Int /\ e = g * q + b
    BY <1>0, <1>2
  <2> HIDE DEF q, e
  <2> QED BY <1>0, <1>2, <1>3, <2>1, DivModIs
<1> QED BY <1>5, <1>6 DEF m1, a, b

(* a word is t values below a digit of g values below h *)
SplitsWord(g, t, h) ==
  g \in Nat \ {0} /\ t \in Nat \ {0} /\ h \in Nat /\ WordSize = t * (g * h)

(* a digit of a word of a value is that digit of its number *)
LEMMA DigitOfWord ==
  ASSUME NEW v \in Values, NEW i \in 0..3, NEW g, NEW t, NEW h, SplitsWord(g, t, h)
  PROVE  (v[i + 1] \div t) % g = (Number(v) \div (TwoTo[i * WordBits] * t)) % g
<1> DEFINE m == WordSize
           n == Number(v)
           a == v[1]
           b == v[2]
           c == v[3]
           d == v[4]
<1>2. t \in Nat \ {0} /\ h \in Nat /\ g \in Nat \ {0} /\ m = t * (g * h) /\ m \in Nat \ {0}
  BY Sizes DEF SplitsWord
<1>4. a \in 0..(m - 1) /\ b \in 0..(m - 1) /\ c \in 0..(m - 1) /\ d \in 0..(m - 1)
  BY ValueIs DEF Word
<1>5. n \in Nat /\ n = a + m * (b + m * (c + m * d))
  BY NumberType DEF Number
<1>6. /\ TwoTo[0 * WordBits] = 1
      /\ TwoTo[1 * WordBits] = m
      /\ TwoTo[2 * WordBits] = m * m
      /\ TwoTo[3 * WordBits] = m * (m * m)
  <2> DEFINE w == WordBits
  <2>1. w \in Nat /\ TwoTo[w] = m
    BY Sizes DEF WordSize
  <2>2. 0 * w = 0 /\ 1 * w = w /\ 2 * w = w + w /\ 3 * w = w + (w + w) /\ w + w \in Nat
    BY <2>1
  <2> HIDE DEF m, w
  <2>3. TwoTo[w + w] = m * m
    BY <2>1, TwoToSum
  <2>4. TwoTo[w + (w + w)] = m * (m * m)
    BY <2>1, <2>2, <2>3, TwoToSum
  <2> QED BY <2>1, <2>2, <2>3, <2>4, TwoToLaws DEF w
<1> HIDE DEF n, a, b, c, d, m
<1> DEFINE m2 == m * m
           m3 == m * (m * m)
<1>7. m2 \in Nat \ {0} /\ m3 \in Nat \ {0}
  <2>1. m2 \in Nat \ {0}
    BY <1>2, Grows
  <2> HIDE DEF m2
  <2>2. m * m2 \in Nat \ {0}
    BY <1>2, <2>1, Grows
  <2> QED BY <2>1, <2>2 DEF m2
<1>8. (n \div (TwoTo[i * WordBits] * t)) % g = (v[i + 1] \div t) % g
  <2>1. CASE i = 0
    <3> DEFINE hi == b + m * (c + m * d)
    <3>1. hi \in Nat
      <4>1. m * d \in Nat
        BY <1>2, <1>4
      <4>2. m * (c + m * d) \in Nat
        BY <1>2, <1>4, <4>1
      <4> QED BY <1>4, <4>2
    <3>2. n = 0 + 1 * (a + m * hi) /\ a \in Nat
      BY <1>2, <1>4, <1>5, <3>1
    <3> HIDE DEF hi
    <3>3. (n \div (1 * t)) % g = (a \div t) % g
      <4>1. AroundWord(g, 1, 0, a, hi, m, t, h, n)
        BY <1>2, <1>5, <3>1, <3>2 DEF AroundWord
      <4> QED BY <4>1, DigitWithin
    <3> QED BY <1>6, <2>1, <3>3 DEF a
  <2>2. CASE i = 1
    <3> DEFINE hi == c + m * d
    <3>1. hi \in Nat
      BY <1>2, <1>4
    <3>2. n = a + m * (b + m * hi) /\ b \in Nat
      BY <1>4, <1>5
    <3> HIDE DEF hi
    <3>3. (n \div (m * t)) % g = (b \div t) % g
      <4>1. AroundWord(g, m, a, b, hi, m, t, h, n)
        BY <1>2, <1>4, <1>5, <3>1, <3>2 DEF AroundWord
      <4> QED BY <4>1, DigitWithin
    <3> QED BY <1>6, <2>2, <3>3 DEF b
  <2>3. CASE i = 2
    <3> DEFINE lo == a + m * b
    <3>1. lo \in 0..(m2 - 1)
      BY <1>2, <1>4, HornerBound
    <3>2. n = lo + m2 * (c + m * d) /\ c \in Nat /\ d \in Nat
      BY <1>2, <1>4, <1>5
    <3> HIDE DEF lo, m2
    <3>3. (n \div (m2 * t)) % g = (c \div t) % g
      <4>1. AroundWord(g, m2, lo, c, d, m, t, h, n)
        BY <1>2, <1>4, <1>5, <1>7, <3>1, <3>2 DEF AroundWord
      <4> QED BY <4>1, DigitWithin
    <3> QED BY <1>6, <2>3, <3>3 DEF c, m2
  <2>4. CASE i = 3
    <3> DEFINE l2 == b + m * c
               lo == a + m * l2
    <3>1. l2 \in 0..(m2 - 1)
      BY <1>2, <1>4, HornerBound
    <3>2. m3 = m * m2
      OBVIOUS
    <3>3. lo \in 0..(m3 - 1)
      <4> HIDE DEF l2, m2, m3
      <4> QED BY <1>2, <1>4, <1>7, <3>1, <3>2, HornerBound
    <3>4. n = lo + m3 * (d + m * 0) /\ d \in Nat
      BY <1>2, <1>4, <1>5
    <3> HIDE DEF l2, lo, m2, m3
    <3>5. (n \div (m3 * t)) % g = (d \div t) % g
      <4>1. AroundWord(g, m3, lo, d, 0, m, t, h, n)
        BY <1>2, <1>4, <1>5, <1>7, <3>3, <3>4 DEF AroundWord
      <4> QED BY <4>1, DigitWithin
    <3> QED BY <1>6, <2>4, <3>5 DEF d, m3, m2
  <2> QED BY <2>1, <2>2, <2>3, <2>4
<1> QED BY <1>8 DEF n

LEMMA BitOfNumber ==
  ASSUME NEW v \in Values, NEW k \in Places
  PROVE  BitAt(v, k) = (Number(v) \div TwoTo[k]) % 2
<1>1. PICK i \in 0..3, j \in 0..(WordBits - 1) : k = i * WordBits + j
  BY PlaceOf
<1> DEFINE t == TwoTo[j]
           h == TwoTo[(WordBits - j) - 1]
<1>2. SplitsWord(2, t, h)
  <2>1. j \in Nat /\ (WordBits - j) - 1 \in Nat /\ WordBits - j \in Nat
        /\ j + (WordBits - j) = WordBits /\ ((WordBits - j) - 1) + 1 = WordBits - j
    BY Sizes
  <2>2. TwoTo[WordBits - j] = 2 * h /\ h \in Nat \ {0} /\ t \in Nat \ {0}
    BY <2>1, TwoToLaws
  <2>3. TwoTo[j + (WordBits - j)] = t * TwoTo[WordBits - j]
    BY <2>1, TwoToSum
  <2> QED BY <2>1, <2>2, <2>3 DEF WordSize, SplitsWord
<1>3. BitAt(v, k) = (v[i + 1] \div t) % 2
  BY <1>1, BitIs
<1>4. TwoTo[k] = TwoTo[i * WordBits] * t
  <2>1. i * WordBits \in Nat /\ j \in Nat
    BY Sizes
  <2> QED BY <1>1, <2>1, TwoToSum
<1>5. (v[i + 1] \div t) % 2 = (Number(v) \div (TwoTo[i * WordBits] * t)) % 2
  <2> HIDE DEF t, h
  <2> QED BY <1>2, DigitOfWord
<1> QED BY <1>3, <1>4, <1>5

LEMMA TwoToModulus == TwoTo[4 * WordBits] = Modulus
<1> DEFINE w == WordBits
           m == WordSize
<1>1. w \in Nat /\ TwoTo[w] = m /\ m \in Nat
  BY Sizes DEF WordSize
<1>2. 4 * w = w + (w + (w + w)) /\ w + w \in Nat /\ w + (w + w) \in Nat
  BY <1>1
<1>3. Modulus = m * m * m * m
  BY DEF Modulus
<1> HIDE DEF w, m
<1>4. TwoTo[w + w] = m * m
  BY <1>1, TwoToSum
<1>5. TwoTo[w + (w + w)] = m * (m * m)
  BY <1>1, <1>2, <1>4, TwoToSum
<1>6. TwoTo[w + (w + (w + w))] = m * (m * (m * m))
  BY <1>1, <1>2, <1>5, TwoToSum
<1>7. m * (m * (m * m)) = m * m * m * m
  BY <1>1
<1> QED BY <1>2, <1>3, <1>6, <1>7 DEF w

(* After k bits of left the product is that of its low k bits and right.     *)
LEMMA MulIsProduct ==
  ASSUME NEW left \in Values, NEW right \in Values
  PROVE  /\ uint256_mul(left, right) \in Values
         /\ Number(uint256_mul(left, right)) = (Number(left) * Number(right)) % Modulus
<1> DEFINE n == 4 * WordBits
           product == Products(left, right)
           l == Number(left)
           r == Number(right)
           m == Modulus
           P(k) == \E q \in Int : (l % TwoTo[k]) * r = Number(product[k]) + m * q
<1>1. l \in 0..(m - 1) /\ r \in Nat /\ m \in Nat \ {0} /\ l \in Nat
  BY NumberType
<1>2. /\ product[0] = uint256_create_from_u64(0)
      /\ \A k \in 0..n : product[k] \in Values
      /\ \A k \in Places :
           product[k + 1] = IF BitAt(left, k) = 0 THEN product[k]
                            ELSE uint256_add(product[k], shift_by_index(right, k))
  BY ProductsAre
<1> HIDE DEF product, l, r, m
<1>3. P(0)
  <2>1. Number(product[0]) = 0
    <3> DEFINE z == product[0]
    <3>1. z[1] = 0 /\ z[2] = 0 /\ z[3] = 0 /\ z[4] = 0
      BY <1>2 DEF uint256_create_from_u64
    <3> HIDE DEF z
    <3>2. Number(z) = 0
      BY <3>1, Sizes DEF Number
    <3> QED BY <3>2 DEF z
  <2>2. TwoTo[0] = 1 /\ l % 1 = 0
    BY <1>1, TwoToLaws
  <2>3. (l % TwoTo[0]) * r = Number(product[0]) + m * 0
    BY <1>1, <2>1, <2>2
  <2> QED BY <2>3
<1>4. ASSUME NEW k \in Places, P(k) PROVE P(k + 1)
  <2>1. k \in Nat /\ k \in 0..n
    BY Sizes DEF Places
  <2> DEFINE t == TwoTo[k]
             b == (l \div t) % 2
             x == l % t
             y == l % TwoTo[k + 1]
             p == Number(product[k])
             p1 == Number(product[k + 1])
             s == Number(shift_by_index(right, k))
  <2>2. b \in {0, 1} /\ y = x + b * t
    BY <1>1, <2>1, RemainderGrows
  <2>3. BitAt(left, k) = b
    BY BitOfNumber DEF l
  <2>4. t \in Nat \ {0} /\ x \in Int
    <3>1. t \in Nat \ {0}
      BY <2>1, TwoToLaws
    <3> HIDE DEF t
    <3> QED BY <1>1, <3>1
  <2>5. PICK q \in Int : x * r = p + m * q
    BY <1>4
  <2>6. product[k] \in Values /\ p \in Int
    BY <1>2, <2>1, NumberType
  <2> HIDE DEF b, x, y
  <2>7. CASE b = 0
    <3>1. p1 = p
      BY <1>2, <2>3, <2>7
    <3>2. y = x
      BY <2>2, <2>4, <2>7
    <3>3. y * r = p1 + m * q
      BY <2>5, <3>1, <3>2
    <3> QED BY <3>3 DEF y
  <2>8. CASE b = 1
    <3>1. product[k + 1] = uint256_add(product[k], shift_by_index(right, k))
      BY <1>2, <2>3, <2>8
    <3>2. shift_by_index(right, k) \in Values /\ \E e \in Nat : r * t = s + m * e
      BY ShiftIsScaled DEF r, m
    <3>3. PICK e \in Nat : r * t = s + m * e
      BY <3>2
    <3>4. s \in Int
      BY <3>2, NumberType
    <3>5. product[k + 1] \in Values /\ \E c \in {0, 1} : p + s = p1 + m * c
      <4> HIDE DEF product
      <4> QED BY <2>6, <3>1, <3>2, AddIsSum DEF m
    <3>6. PICK c \in {0, 1} : p + s = p1 + m * c
      BY <3>5
    <3>7. p1 \in Int
      BY <3>5, NumberType
    <3>8. y = x + t
      BY <2>2, <2>4, <2>8
    <3> HIDE DEF p, p1, s, t
    <3>9. y * r = p1 + m * ((q + e) + c)
      <4> DEFINE a1 == x * r
                 a2 == r * t
                 a3 == m * q
                 a4 == m * e
                 a5 == m * c
      <4>1. a1 \in Int /\ a2 \in Int /\ a3 \in Int /\ a4 \in Int /\ a5 \in Int
            /\ a1 = p + a3 /\ a2 = s + a4 /\ p + s = p1 + a5
            /\ p \in Int /\ s \in Int /\ p1 \in Int
        BY <1>1, <2>4, <2>5, <2>6, <3>3, <3>4, <3>6, <3>7
      <4>2. y * r = a1 + a2 /\ m * ((q + e) + c) = (a3 + a4) + a5
        BY <1>1, <2>4, <3>8
      <4> HIDE DEF a1, a2, a3, a4, a5
      <4>3. a1 + a2 = p1 + ((a3 + a4) + a5)
        BY <4>1
      <4> QED BY <4>2, <4>3
    <3>10. (q + e) + c \in Int
      OBVIOUS
    <3> QED BY <3>9, <3>10 DEF y, p1
  <2> QED BY <2>2, <2>7, <2>8
<1>5. P(n)
  <2> HIDE DEF P
  <2> DEFINE T == {k \in Nat : k <= n => P(k)}
  <2>1. 0 \in T
    BY <1>3
  <2>2. ASSUME NEW k \in Nat, k \in T PROVE k + 1 \in T
    <3> SUFFICES ASSUME k + 1 <= n PROVE P(k + 1)
      OBVIOUS
    <3>1. k \in Places /\ P(k)
      BY <2>2, Sizes DEF Places
    <3> QED BY <3>1, <1>4
  <2> HIDE DEF T
  <2>3. \A k \in Nat : k \in T
    BY <2>1, <2>2, Induction
  <2> QED BY <2>3, Sizes DEF T
<1>6. PICK q \in Int : (l % m) * r = Number(product[n]) + m * q
  BY <1>5, TwoToModulus DEF m
<1>7. l % m = l
  BY <1>1
<1>8. product[n] \in Values /\ uint256_mul(left, right) = product[n]
  BY <1>2, Sizes DEF uint256_mul, product
<1> DEFINE p == Number(product[n])
           x == l * r
<1>9. p \in 0..(m - 1) /\ x \in Int /\ x = m * q + p
  <2>1. p \in 0..(m - 1)
    BY <1>8, NumberType DEF m
  <2> HIDE DEF p
  <2> QED BY <1>1, <1>6, <1>7, <2>1 DEF p
<1> HIDE DEF p, x
<1>10. x % m = p
  BY <1>1, <1>9, DivModIs
<1> QED BY <1>8, <1>10 DEF x, p, l, r, m
-----------------------------------------------------------------------------
(* Digits *)

Base == TwoTo[DigitBits]

LEMMA BaseIs ==
  /\ Base \in Nat \ {0}
  /\ Digits = 0..(Base - 1)
  /\ DigitBits \in Nat \ {0} /\ DigitsPerWord \in Nat \ {0}
  /\ WordBits = DigitBits * DigitsPerWord
BY TwoToLaws, UInt256Assumption DEF Base, Digits, WordBits

LEMMA BaseTo ==
  ASSUME NEW k \in Nat
  PROVE  /\ TwoTo[DigitBits * k] \in Nat \ {0}
         /\ TwoTo[DigitBits * (k + 1)] = TwoTo[DigitBits * k] * Base
<1>1. DigitBits * k \in Nat /\ DigitBits \in Nat /\ DigitBits * (k + 1) = DigitBits * k + DigitBits
  BY BaseIs
<1>2. TwoTo[DigitBits * k + DigitBits] = TwoTo[DigitBits * k] * TwoTo[DigitBits]
  BY <1>1, TwoToSum
<1> QED BY <1>1, <1>2, TwoToLaws DEF Base

LEMMA NumbersAre ==
  ASSUME NEW s \in Seq(Digits)
  PROVE  /\ Numbers(s)[0] = 0
         /\ \A k \in 0..(Len(s) - 1) : Numbers(s)[k + 1] = Numbers(s)[k] * Base + s[k + 1]
         /\ \A k \in 0..Len(s) : Numbers(s)[k] \in 0..(TwoTo[DigitBits * k] - 1)
<1> DEFINE n == Len(s)
           step == [k \in 1..n |-> [x \in Int |-> x * Base + s[k]]]
           number == Numbers(s)
<1>0. n \in Nat /\ Base \in Nat \ {0} /\ \A k \in 1..n : s[k] \in 0..(Base - 1)
  BY BaseIs
<1>1. step \in [1..n -> [Int -> Int]]
  <2> HIDE DEF n
  <2>1. \A k \in 1..n, x \in Int : x * Base + s[k] \in Int
    BY <1>0
  <2> QED BY <2>1
<1>2. PICK f \in [0..n -> Int] : FollowsTo(f, 0, step, n)
  <2>1. n \in Nat /\ 0 \in Int
    BY <1>0
  <2> HIDE DEF step, n
  <2> QED BY <1>1, <2>1, Recursion
<1>3. f = [k \in 0..n |-> IF k = 0 THEN 0 ELSE f[k - 1] * Base + s[k]]
  <2> HIDE DEF n
  <2>1. ASSUME NEW k \in 0..n
        PROVE  f[k] = IF k = 0 THEN 0 ELSE f[k - 1] * Base + s[k]
    <3>1. f[k] = IF k = 0 THEN 0 ELSE step[k][f[k - 1]]
      BY <1>2 DEF FollowsTo, Follows
    <3>2. k # 0 => k \in 1..n /\ f[k - 1] \in Int
      BY <1>0
    <3> QED BY <3>1, <3>2
  <2> QED BY <2>1
<1>4. number = [k \in 0..n |-> IF k = 0 THEN 0 ELSE number[k - 1] * Base + s[k]]
  BY <1>3 DEF Numbers, Base
<1> HIDE DEF number, n
<1>5. number[0] = 0
  BY <1>4, <1>0
<1>6. ASSUME NEW k \in 0..(n - 1)
      PROVE  number[k + 1] = number[k] * Base + s[k + 1]
  <2>1. k + 1 \in 0..n /\ k + 1 # 0 /\ (k + 1) - 1 = k
    BY <1>0
  <2> QED BY <1>4, <2>1
<1>7. \A k \in 0..n : number[k] \in 0..(TwoTo[DigitBits * k] - 1)
  <2> DEFINE T == {k \in Nat : k <= n => number[k] \in 0..(TwoTo[DigitBits * k] - 1)}
  <2>1. 0 \in T
    <3>1. DigitBits * 0 = 0
      BY BaseIs
    <3> QED BY <1>5, <3>1, TwoToLaws
  <2>2. ASSUME NEW k \in Nat, k \in T PROVE k + 1 \in T
    <3> SUFFICES ASSUME k + 1 <= n PROVE number[k + 1] \in 0..(TwoTo[DigitBits * (k + 1)] - 1)
      OBVIOUS
    <3> DEFINE m == TwoTo[DigitBits * k]
    <3>1. k \in 0..(n - 1) /\ number[k] \in 0..(m - 1)
      BY <2>2, <1>0
    <3>2. m \in Nat \ {0} /\ TwoTo[DigitBits * (k + 1)] = m * Base
      BY BaseTo
    <3>3. s[k + 1] \in 0..(Base - 1)
      BY <1>0, <3>1
    <3> HIDE DEF m
    <3>4. s[k + 1] + Base * number[k] \in 0..(Base * m - 1)
      BY <1>0, <3>1, <3>2, <3>3, HornerBound
    <3>5. number[k + 1] = s[k + 1] + Base * number[k]
      BY <1>0, <1>6, <3>1, <3>2, <3>3
    <3>6. m * Base = Base * m
      BY <1>0, <3>2
    <3> QED BY <3>2, <3>4, <3>5, <3>6
  <2> HIDE DEF T
  <2>3. \A k \in Nat : k \in T
    BY <2>1, <2>2, Induction
  <2> QED BY <2>3, <1>0 DEF T
<1> QED BY <1>5, <1>6, <1>7 DEF number, n

(* m digits of hex after the place a are those of s after b *)
SameDigits(hex, a, s, b, m) ==
  /\ hex \in Seq(Digits) /\ s \in Seq(Digits)
  /\ a \in Nat /\ b \in Nat /\ m \in Nat
  /\ a + m <= Len(hex) /\ b + m <= Len(s)
  /\ \A j \in 1..m : hex[a + j] = s[b + j]

(* the same digits add the same to what is in front of them *)
LEMMA SameDigitsAdd ==
  ASSUME NEW hex, NEW a, NEW s, NEW b, NEW m, SameDigits(hex, a, s, b, m)
  PROVE  Numbers(hex)[a + m] + Numbers(s)[b] * TwoTo[DigitBits * m]
           = Numbers(s)[b + m] + Numbers(hex)[a] * TwoTo[DigitBits * m]
<1> DEFINE x == Numbers(hex)
           y == Numbers(s)
           P(j) == x[a + j] + y[b] * TwoTo[DigitBits * j] = y[b + j] + x[a] * TwoTo[DigitBits * j]
           T == {j \in Nat : j <= m => P(j)}
<1>1. /\ hex \in Seq(Digits) /\ s \in Seq(Digits)
      /\ a \in Nat /\ b \in Nat /\ m \in Nat /\ Len(hex) \in Nat /\ Len(s) \in Nat
      /\ a + m <= Len(hex) /\ b + m <= Len(s)
      /\ \A j \in 1..m : hex[a + j] = s[b + j]
  BY DEF SameDigits
<1>2. /\ \A k \in 0..Len(hex) : x[k] \in Nat
      /\ \A k \in 0..Len(s) : y[k] \in Nat
  <2>1. \A k \in 0..Len(hex) : x[k] \in 0..(TwoTo[DigitBits * k] - 1)
    BY <1>1, NumbersAre
  <2>2. \A k \in 0..Len(s) : y[k] \in 0..(TwoTo[DigitBits * k] - 1)
    BY <1>1, NumbersAre
  <2> QED BY <2>1, <2>2
<1>3. 0 \in T
  <2>1. TwoTo[DigitBits * 0] = 1
    BY BaseIs, TwoToLaws
  <2>2. x[a] \in Nat /\ y[b] \in Nat /\ a + 0 = a /\ b + 0 = b
    BY <1>1, <1>2
  <2> HIDE DEF x, y
  <2> QED BY <2>1, <2>2
<1>4. ASSUME NEW j \in Nat, j \in T PROVE j + 1 \in T
  <2> SUFFICES ASSUME j + 1 <= m PROVE P(j + 1)
    OBVIOUS
  <2> DEFINE t == TwoTo[DigitBits * j]
             p == x[a]
             q == y[b]
             u == x[a + j]
             v == y[b + j]
             d == hex[a + (j + 1)]
             e == s[b + (j + 1)]
  <2>1. u + q * t = v + p * t
    <3>1. j <= m
      BY <1>1
    <3> HIDE DEF x, y
    <3> QED BY <1>4, <3>1
  <2>2. d = e /\ d \in Nat
    <3>1. j + 1 \in 1..m /\ a + (j + 1) \in 1..Len(hex)
      BY <1>1
    <3>2. hex[a + (j + 1)] \in Digits
      BY <1>1, <3>1
    <3>3. hex[a + (j + 1)] = s[b + (j + 1)]
      BY <1>1, <3>1
    <3> QED BY <3>2, <3>3, BaseIs
  <2>3. u \in Nat /\ v \in Nat /\ p \in Nat /\ q \in Nat
    BY <1>1, <1>2
  <2>4. t \in Nat \ {0} /\ TwoTo[DigitBits * (j + 1)] = t * Base /\ Base \in Nat
    BY BaseTo, BaseIs
  <2>5. x[a + (j + 1)] = u * Base + d
    <3>1. a + j \in 0..(Len(hex) - 1) /\ (a + j) + 1 = a + (j + 1)
      BY <1>1
    <3> QED BY <1>1, <3>1, NumbersAre
  <2>6. y[b + (j + 1)] = v * Base + e
    <3>1. b + j \in 0..(Len(s) - 1) /\ (b + j) + 1 = b + (j + 1)
      BY <1>1
    <3> QED BY <1>1, <3>1, NumbersAre
  <2>7. x[a + (j + 1)] + q * (t * Base) = y[b + (j + 1)] + p * (t * Base)
    <3> HIDE DEF t, p, q, u, v, d, e, x, y
    <3>1. (u + q * t) * Base = (v + p * t) * Base
      BY <2>1
    <3>2. (u + q * t) * Base = u * Base + q * (t * Base) /\ (v + p * t) * Base = v * Base + p * (t * Base)
      BY <2>3, <2>4
    <3> DEFINE a1 == u * Base
               a2 == q * (t * Base)
               a3 == v * Base
               a4 == p * (t * Base)
    <3>3. a1 \in Int /\ a2 \in Int /\ a3 \in Int /\ a4 \in Int /\ a1 + a2 = a3 + a4
      BY <2>3, <2>4, <3>1, <3>2
    <3>4. x[a + (j + 1)] = a1 + d /\ y[b + (j + 1)] = a3 + d
      BY <2>2, <2>5, <2>6
    <3> HIDE DEF a1, a2, a3, a4
    <3>5. x[a + (j + 1)] + a2 = y[b + (j + 1)] + a4
      BY <2>2, <3>3, <3>4
    <3> QED BY <3>5 DEF a2, a4
  <2> HIDE DEF x, y
  <2> QED BY <2>4, <2>7 DEF t, p, q
<1> HIDE DEF T
<1>5. m \in T
  BY <1>1, <1>3, <1>4, Induction
<1> QED BY <1>1, <1>5 DEF T

LEMMA ZerosAreZero ==
  ASSUME NEW s \in Seq(Digits), NEW b \in 0..Len(s), \A j \in 1..b : s[j] = 0
  PROVE  Numbers(s)[b] = 0
<1> DEFINE T == {j \in Nat : j <= b => Numbers(s)[j] = 0}
<1>1. 0 \in T
  BY NumbersAre
<1>2. ASSUME NEW j \in Nat, j \in T PROVE j + 1 \in T
  <2> SUFFICES ASSUME j + 1 <= b PROVE Numbers(s)[j + 1] = 0
    OBVIOUS
  <2>1. j \in 0..(Len(s) - 1) /\ Numbers(s)[j] = 0 /\ s[j + 1] = 0
    BY <1>2
  <2>2. Numbers(s)[j + 1] = Numbers(s)[j] * Base + s[j + 1]
    BY <2>1, NumbersAre
  <2> QED BY <2>1, <2>2, BaseIs
<1> HIDE DEF T
<1>3. \A j \in Nat : j \in T
  BY <1>1, <1>2, Induction
<1> QED BY <1>3 DEF T

-----------------------------------------------------------------------------
(* uint256_create_from_hex *)

LEMMA StrtoulIs ==
  ASSUME NEW s \in Seq(Digits), Len(s) = DigitsPerWord
  PROVE  /\ strtoul(s, NotADigit) = Numbers(s)[DigitsPerWord]
         /\ strtoul(s, NotADigit) \in Word
<1>1. Numbers(s)[DigitsPerWord] \in 0..(TwoTo[DigitBits * DigitsPerWord] - 1)
  BY NumbersAre, BaseIs
<1>2. Numbers(s)[DigitsPerWord] \in Word
  BY <1>1, BaseIs DEF Word, WordSize
<1> QED BY <1>2 DEF strtoul, Evaluate

(* the word i that a string is read as, and the number that its digits from *)
(* that word on are                                                         *)
HexWord(hex, i, after) ==
  IF i < Len(hex) \div DigitsPerWord
    THEN strtoul(SubSeq(hex, Len(hex) - DigitsPerWord * (i + 1) + 1, Len(hex) - DigitsPerWord * i), after)
  ELSE IF i = Len(hex) \div DigitsPerWord
    THEN strtoul(LastSegment(hex, Len(hex) % DigitsPerWord), after)
  ELSE 0
HexFrom(hex, i) ==
  IF i <= Len(hex) \div DigitsPerWord THEN Numbers(hex)[Len(hex) - DigitsPerWord * i] ELSE 0

LEMMA CreateIs ==
  ASSUME NEW hex, NEW after
  PROVE  uint256_create_from_hex(hex, after)
           = <<HexWord(hex, 0, after), HexWord(hex, 1, after), HexWord(hex, 2, after), HexWord(hex, 3, after)>>
BY DEF uint256_create_from_hex, Words, HexWord

(* what strtoul returns is a word, whatever follows the segment             *)
LEMMA CreateType ==
  ASSUME NEW hex, NEW after
  PROVE  uint256_create_from_hex(hex, after) \in Values
<1>1. \A segment : strtoul(segment, after) \in Word
  <2>1. WordSize - 1 \in Word
    BY Sizes DEF Word
  <2> QED BY <2>1 DEF strtoul
<1>2. 0 \in Word
  BY Sizes DEF Word
<1>3. \A i : HexWord(hex, i, after) \in Word
  BY <1>1, <1>2 DEF HexWord
<1> QED BY <1>3, CreateIs, ValueOf

LEMMA HexLength ==
  ASSUME NEW hex \in Seq(Digits)
  PROVE  LET len == Len(hex)
             index == len \div DigitsPerWord
             mod == len % DigitsPerWord
         IN  /\ len \in Nat /\ index \in Nat /\ mod \in 0..(DigitsPerWord - 1)
             /\ len = DigitsPerWord * index + mod
             /\ \A i \in Nat : i < index => len - DigitsPerWord * (i + 1) \in Nat
<1> DEFINE len == Len(hex)
           dp == DigitsPerWord
           index == len \div dp
           mod == len % dp
<1>1. len \in Nat /\ dp \in Nat \ {0}
  BY BaseIs
<1>2. index \in Int /\ mod \in 0..(dp - 1) /\ len = dp * index + mod
  <2> HIDE DEF len, dp
  <2> QED BY <1>1, DivMod, len \in Int
<1> HIDE DEF len, dp, index, mod
<1>3. ~(index < 0)
  <2> SUFFICES ASSUME index < 0 PROVE FALSE
    OBVIOUS
  <2>1. dp * (-index) >= dp
    BY <1>1, <1>2, Grows, -index \in Nat \ {0}
  <2>2. dp * (-index) = -(dp * index)
    BY <1>1, <1>2
  <2> QED BY <1>1, <1>2, <2>1, <2>2
<1>4. ASSUME NEW i \in Nat, i < index PROVE len - dp * (i + 1) \in Nat
  <2>1. dp * (index - (i + 1)) \in Nat
    BY <1>1, <1>2, <1>4
  <2>2. dp * (index - (i + 1)) = dp * index - dp * (i + 1) /\ dp * (i + 1) \in Nat /\ dp * index \in Int
    BY <1>1, <1>2, <1>4
  <2> QED BY <1>1, <1>2, <2>1, <2>2
<1> QED BY <1>1, <1>2, <1>3, <1>4 DEF len, dp, index, mod

LEMMA WordOfHex ==
  ASSUME NEW hex \in Seq(Digits), NEW i \in Nat
  PROVE  /\ HexWord(hex, i, NotADigit) \in Word
         /\ HexFrom(hex, i + 1) \in Nat
         /\ HexFrom(hex, i) = HexWord(hex, i, NotADigit) + WordSize * HexFrom(hex, i + 1)
<1> DEFINE len == Len(hex)
           dp == DigitsPerWord
           index == len \div dp
           mod == len % dp
<1>1. /\ len \in Nat /\ index \in Nat /\ mod \in 0..(dp - 1) /\ len = dp * index + mod
      /\ \A k \in Nat : k < index => len - dp * (k + 1) \in Nat
  BY HexLength
<1>2. dp \in Nat \ {0} /\ WordSize = TwoTo[DigitBits * dp] /\ WordSize \in Nat
  BY BaseIs, Sizes DEF WordSize
<1>3. \A k \in 0..len : Numbers(hex)[k] \in Nat
  <2>1. \A k \in 0..len : Numbers(hex)[k] \in 0..(TwoTo[DigitBits * k] - 1)
    BY NumbersAre
  <2> QED BY <2>1
<1>4. CASE i < index
  <2> DEFINE a == len - dp * (i + 1)
             s == SubSeq(hex, a + 1, len - dp * i)
  <2>1. a \in Nat /\ len - dp * i = a + dp /\ a + dp <= len
    <3>1. dp * (i + 1) = dp * i + dp /\ dp * i \in Nat
      BY <1>2
    <3>2. a \in Nat
      BY <1>1, <1>4
    <3> QED BY <1>1, <1>2, <3>1, <3>2
  <2> HIDE DEF a
  <2>2. s \in Seq(Digits) /\ Len(s) = dp /\ \A j \in 1..dp : s[j] = hex[a + j]
    <3>1. s = SubSeq(hex, a + 1, a + dp)
      BY <2>1
    <3>2. Len(SubSeq(hex, a + 1, a + dp)) = dp
      BY <1>1, <1>2, <2>1, SubSeqProperties
    <3> QED BY <1>1, <1>2, <2>1, <3>1, <3>2, SubSeqProperties
  <2>3. HexWord(hex, i, NotADigit) = strtoul(s, NotADigit)
    BY <1>4 DEF HexWord, a
  <2> HIDE DEF s
  <2>4. HexWord(hex, i, NotADigit) = Numbers(s)[dp] /\ HexWord(hex, i, NotADigit) \in Word
    BY <2>2, <2>3, StrtoulIs
  <2>5. Numbers(hex)[a + dp] + Numbers(s)[0] * TwoTo[DigitBits * dp]
          = Numbers(s)[0 + dp] + Numbers(hex)[a] * TwoTo[DigitBits * dp]
    <3>1. SameDigits(hex, a, s, 0, dp)
      BY <1>1, <1>2, <2>1, <2>2 DEF SameDigits
    <3> QED BY <3>1, SameDigitsAdd
  <2>6. HexFrom(hex, i) = Numbers(hex)[a + dp] /\ HexFrom(hex, i + 1) = Numbers(hex)[a]
    BY <1>1, <1>4, <2>1 DEF HexFrom, a
  <2>7. Numbers(hex)[a + dp] \in Nat /\ Numbers(hex)[a] \in Nat /\ Numbers(s)[0] = 0 /\ 0 + dp = dp
    BY <1>1, <1>2, <1>3, <2>1, <2>2, NumbersAre
  <2>8. Numbers(s)[dp] \in Nat
    BY <2>4 DEF Word
  <2> DEFINE x == Numbers(hex)[a + dp]
             y == Numbers(hex)[a]
             z == Numbers(s)[dp]
  <2>9. x = z + WordSize * y
    <3>1. x + 0 * WordSize = z + y * WordSize
      BY <1>2, <2>5, <2>7
    <3> HIDE DEF x, y, z
    <3> QED BY <1>2, <2>7, <2>8, <3>1 DEF x, y, z
  <2> QED BY <2>4, <2>6, <2>7, <2>9
<1>5. CASE i = index
  <2> DEFINE s == LastSegment(hex, mod)
             b == dp - mod
  <2>1. b \in Nat /\ b + mod = dp /\ mod \in Nat /\ mod <= len /\ len - dp * i = mod
    BY <1>1, <1>2, <1>5
  <2>2. s \in Seq(Digits) /\ Len(s) = dp /\ \A m \in 1..dp : s[m] = IF m <= b THEN 0 ELSE hex[m + mod - dp]
    <3>1. \A m \in 1..dp : IF m <= b THEN 0 \in Digits ELSE hex[m + mod - dp] \in Digits
      <4>1. \A m \in 1..dp : ~(m <= b) => m + mod - dp \in 1..len
        BY <1>1, <1>2, <2>1
      <4>2. \A k \in 1..len : hex[k] \in Digits
        OBVIOUS
      <4> HIDE DEF len, mod, b
      <4> QED BY <4>1, <4>2, BaseIs
    <3>2. s = [m \in 1..dp |-> IF m <= b THEN 0 ELSE hex[m + mod - dp]]
      BY DEF LastSegment
    <3> HIDE DEF s, b, mod
    <3>3. s \in [1..dp -> Digits]
      BY <3>1, <3>2
    <3> QED BY <1>2, <3>2, <3>3
  <2>3. HexWord(hex, i, NotADigit) = strtoul(s, NotADigit)
    BY <1>5 DEF HexWord
  <2> HIDE DEF s
  <2>4. HexWord(hex, i, NotADigit) = Numbers(s)[dp] /\ HexWord(hex, i, NotADigit) \in Word
    BY <2>2, <2>3, StrtoulIs
  <2>5. Numbers(hex)[0 + mod] + Numbers(s)[b] * TwoTo[DigitBits * mod]
          = Numbers(s)[b + mod] + Numbers(hex)[0] * TwoTo[DigitBits * mod]
    <3>1. \A j \in 1..mod : hex[0 + j] = s[b + j]
      <4>1. ASSUME NEW j \in 1..mod PROVE hex[0 + j] = s[b + j]
        <5>1. b + j \in 1..dp /\ ~(b + j <= b) /\ (b + j) + mod - dp = j /\ 0 + j = j
          BY <1>1, <1>2, <2>1
        <5> HIDE DEF b, mod, dp
        <5> QED BY <2>2, <5>1
      <4> QED BY <4>1
    <3>2. SameDigits(hex, 0, s, b, mod)
      <4> HIDE DEF b, mod
      <4> QED BY <1>1, <1>2, <2>1, <2>2, <3>1 DEF SameDigits
    <3> QED BY <3>2, SameDigitsAdd
  <2>6. Numbers(s)[b] = 0 /\ Numbers(hex)[0] = 0
    <3>1. b \in 0..Len(s) /\ \A j \in 1..b : s[j] = 0
      BY <1>1, <1>2, <2>1, <2>2
    <3> HIDE DEF b
    <3> QED BY <2>2, <3>1, ZerosAreZero, NumbersAre
  <2>7. HexFrom(hex, i) = Numbers(hex)[mod] /\ HexFrom(hex, i + 1) = 0
    <3>1. i <= index /\ ~(i + 1 <= index) /\ Len(hex) - DigitsPerWord * i = mod
      <4>1. len - dp * i = mod
        BY <2>1
      <4>2. i \in Nat /\ i = index
        BY <1>5
      <4>3. i <= index /\ ~(i + 1 <= index)
        <5> HIDE DEF index
        <5> QED BY <4>2
      <4> QED BY <4>1, <4>3
    <3> HIDE DEF mod
    <3> QED BY <3>1 DEF HexFrom
  <2>8. Numbers(hex)[mod] = Numbers(s)[dp]
    <3>1. TwoTo[DigitBits * mod] \in Nat /\ 0 + mod = mod
      <4>1. mod \in Nat
        BY <2>1
      <4> HIDE DEF mod
      <4>2. TwoTo[DigitBits * mod] \in Nat \ {0}
        BY <4>1, BaseTo
      <4> QED BY <4>1, <4>2
    <3>2. Numbers(hex)[mod] \in Nat /\ Numbers(s)[dp] \in Nat
      <4>1. mod \in 0..len
        BY <1>1, <2>1
      <4> HIDE DEF mod, len
      <4> QED BY <1>3, <2>4, <4>1 DEF Word
    <3> DEFINE x == Numbers(hex)[mod]
               y == Numbers(s)[dp]
               t == TwoTo[DigitBits * mod]
    <3>3. x + 0 * t = y + 0 * t /\ x \in Nat /\ y \in Nat /\ t \in Nat
      BY <2>1, <2>5, <2>6, <3>1, <3>2
    <3> HIDE DEF x, y, t
    <3>4. x = y
      BY <3>3
    <3> QED BY <3>4 DEF x, y
  <2>9. Numbers(s)[dp] \in Nat
    BY <2>4 DEF Word
  <2> QED BY <1>2, <2>4, <2>7, <2>8, <2>9
<1>6. CASE i > index
  <2>1. HexWord(hex, i, NotADigit) = 0 /\ HexFrom(hex, i) = 0 /\ HexFrom(hex, i + 1) = 0
    BY <1>1, <1>6 DEF HexWord, HexFrom
  <2>2. 0 \in Word
    BY Sizes DEF Word
  <2> QED BY <1>2, <2>1, <2>2
<1> QED BY <1>1, <1>4, <1>5, <1>6

LEMMA CreateIsModular ==
  ASSUME NEW hex \in Seq(Digits)
  PROVE  Number(uint256_create_from_hex(hex, NotADigit)) = Evaluate(hex) % Modulus
<1> DEFINE w(i) == HexWord(hex, i, NotADigit)
           h(i) == HexFrom(hex, i)
           m == WordSize
           v == uint256_create_from_hex(hex, NotADigit)
<1>1. v = <<w(0), w(1), w(2), w(3)>> /\ v \in Values
  BY CreateIs, CreateType
<1>2. /\ h(0) = w(0) + m * h(1) /\ h(1) = w(1) + m * h(2)
      /\ h(2) = w(2) + m * h(3) /\ h(3) = w(3) + m * h(4)
      /\ w(0) \in Word /\ w(1) \in Word /\ w(2) \in Word /\ w(3) \in Word /\ h(4) \in Nat
  BY WordOfHex, 0 + 1 = 1, 1 + 1 = 2, 2 + 1 = 3, 3 + 1 = 4
<1>3. h(0) = Evaluate(hex)
  <2>1. DigitsPerWord * 0 = 0 /\ Len(hex) \in Nat
    BY BaseIs
  <2>2. 0 <= Len(hex) \div DigitsPerWord
    BY HexLength
  <2> QED BY <2>1, <2>2 DEF HexFrom, Evaluate
<1>4. Modulus = m * (m * (m * m)) /\ m \in Nat
  BY Sizes DEF Modulus
<1>5. h(0) = Number(v) + Modulus * h(4)
  <2> DEFINE a == w(0)
             b == w(1)
             c == w(2)
             d == w(3)
             e == h(4)
  <2>1. a \in Int /\ b \in Int /\ c \in Int /\ d \in Int /\ e \in Int
    BY <1>2 DEF Word
  <2>2. h(0) = a + m * (b + m * (c + m * (d + m * e)))
    BY <1>2
  <2>3. Number(v) = a + m * (b + m * (c + m * d))
    BY <1>1 DEF Number
  <2> HIDE DEF a, b, c, d, e, h, w, v, m
  <2> DEFINE x == m * e
             c1 == c + m * d
             b1 == b + m * c1
  <2>4. x \in Int /\ c1 \in Int /\ b1 \in Int
    <3>1. x \in Int /\ c1 \in Int
      BY <1>4, <2>1
    <3> HIDE DEF c1
    <3> QED BY <1>4, <2>1, <3>1
  <2>5. c + m * (d + x) = c1 + m * x
    BY <1>4, <2>1, <2>4
  <2>6. b + m * (c1 + m * x) = b1 + m * (m * x)
    <3> HIDE DEF c1, x
    <3> QED BY <1>4, <2>1, <2>4
  <2>7. a + m * (b1 + m * (m * x)) = (a + m * b1) + m * (m * (m * x))
    <3> HIDE DEF b1, x
    <3> DEFINE y == m * (m * x)
    <3>1. y \in Int
      BY <1>4, <2>4
    <3> HIDE DEF y
    <3>2. a + m * (b1 + y) = (a + m * b1) + m * y
      BY <1>4, <2>1, <2>4, <3>1
    <3> QED BY <3>2 DEF y
  <2>8. m * (m * (m * x)) = (m * (m * (m * m))) * e
    BY <1>4, <2>1
  <2> DEFINE f == m * (m * (m * x))
             k == a + m * b1
  <2>9. h(0) = k + f
    BY <2>2, <2>5, <2>6, <2>7
  <2>10. k = Number(v)
    BY <2>3
  <2>11. f = Modulus * e
    BY <1>4, <2>8
  <2> HIDE DEF f, k
  <2> QED BY <2>9, <2>10, <2>11 DEF e
<1> DEFINE p == Number(v)
           n == Evaluate(hex)
           M == Modulus
<1>6. M \in Nat \ {0} /\ p \in 0..(M - 1) /\ h(4) \in Int /\ n \in Int /\ n = M * h(4) + p
  <2>1. M \in Nat \ {0} /\ p \in 0..(M - 1)
    BY <1>1, NumberType
  <2>2. n = p + M * h(4) /\ h(4) \in Nat
    BY <1>2, <1>3, <1>5
  <2> HIDE DEF M, p, n, h
  <2> QED BY <2>1, <2>2
<1> HIDE DEF M, p, n, h
<1>7. n % M = p
  BY <1>6, DivModIs
<1> QED BY <1>7 DEF n, M, p, v

-----------------------------------------------------------------------------
(* uint256_format_as_hex *)

LEMMA DivDiv ==
  ASSUME NEW n \in Nat, NEW t \in Nat \ {0}, NEW g \in Nat \ {0}
  PROVE  n \div (t * g) = (n \div t) \div g
<1> DEFINE q == n \div t
           r == n % t
           a == q \div g
           b == q % g
<1>1. q \in Int /\ r \in 0..(t - 1) /\ n = t * q + r
  BY DivMod, n \in Int
<1>2. a \in Int /\ b \in 0..(g - 1) /\ q = g * a + b
  <2> HIDE DEF q
  <2> QED BY <1>1, DivMod
<1> HIDE DEF q, r, a, b
<1> DEFINE s == r + t * b
           m == t * g
<1>3. m \in Nat \ {0} /\ s \in 0..(m - 1)
  <2>1. m \in Nat \ {0}
    BY Grows
  <2>2. s \in 0..(m - 1)
    BY <1>1, <1>2, HornerBound
  <2> QED BY <2>1, <2>2
<1>4. n = m * a + s
  <2>1. t * q = t * (g * a) + t * b /\ t * (g * a) = m * a
    BY <1>2
  <2>2. t * (g * a) \in Int /\ t * b \in Int
    BY <1>2
  <2> QED BY <1>1, <2>1, <2>2
<1>5. n \div m = a
  <2> HIDE DEF m, s
  <2> QED BY <1>2, <1>3, <1>4, DivModIs, n \in Int
<1> QED BY <1>5 DEF m, a, q

LEMMA DigitOfNumber ==
  ASSUME NEW v \in Values, NEW k \in 1..(4 * DigitsPerWord)
  PROVE  /\ AllDigits(v)[k] \in Digits
         /\ 4 * DigitsPerWord - k \in Nat
         /\ AllDigits(v)[k] = (Number(v) \div TwoTo[DigitBits * (4 * DigitsPerWord - k)]) % Base
<1> DEFINE dp == DigitsPerWord
           place == 4 * dp - k
           i == place \div dp
           j == place % dp
           t == TwoTo[DigitBits * j]
           h == TwoTo[DigitBits * ((dp - j) - 1)]
<1>1. dp \in Nat \ {0} /\ place \in 0..(4 * dp - 1) /\ DigitBits \in Nat \ {0}
  BY BaseIs
<1>2. i \in Int /\ j \in 0..(dp - 1) /\ place = dp * i + j
  <2>1. place \in Int
    BY <1>1
  <2> HIDE DEF place, dp
  <2> QED BY <1>1, <2>1, DivMod
<1>3. i \in 0..3
  <2> HIDE DEF place, dp, i, j
  <2>1. ~(i < 0)
    <3> SUFFICES ASSUME i < 0 PROVE FALSE
      OBVIOUS
    <3>1. dp * (-i) >= dp
      BY <1>1, <1>2, Grows, -i \in Nat \ {0}
    <3>2. dp * (-i) = -(dp * i)
      BY <1>1, <1>2
    <3> QED BY <1>1, <1>2, <3>1, <3>2
  <2>2. ~(i >= 4)
    <3> SUFFICES ASSUME i >= 4 PROVE FALSE
      OBVIOUS
    <3>1. dp * (i - 3) >= dp
      BY <1>1, <1>2, Grows, i - 3 \in Nat \ {0}
    <3>2. dp * (i - 3) = dp * i - dp * 3
      BY <1>1, <1>2
    <3> QED BY <1>1, <1>2, <3>1, <3>2
  <2> QED BY <1>2, <2>1, <2>2
<1>4. AllDigits(v)[k] = (v[i + 1] \div t) % Base
  <2>1. AllDigits(v)[k] = (v[1 + i] \div t) % Base
    BY DEF AllDigits, Base
  <2>2. 1 + i = i + 1
    BY <1>2
  <2> QED BY <2>1, <2>2
<1>5. SplitsWord(Base, t, h)
  <2>1. j \in Nat /\ dp - j \in Nat /\ (dp - j) - 1 \in Nat /\ ((dp - j) - 1) + 1 = dp - j
    BY <1>1, <1>2
  <2> HIDE DEF j, dp
  <2>2. DigitBits * j \in Nat /\ DigitBits * (dp - j) \in Nat
        /\ DigitBits * j + DigitBits * (dp - j) = DigitBits * dp
    BY <1>1, <2>1
  <2>3. t \in Nat \ {0} /\ h \in Nat \ {0} /\ TwoTo[DigitBits * (dp - j)] = h * Base
    <3>1. t \in Nat \ {0}
      BY <2>1, BaseTo
    <3>2. h \in Nat \ {0} /\ TwoTo[DigitBits * (((dp - j) - 1) + 1)] = h * Base
      BY <2>1, BaseTo
    <3> QED BY <2>1, <3>1, <3>2
  <2>4. TwoTo[DigitBits * dp] = t * TwoTo[DigitBits * (dp - j)]
    BY <2>2, TwoToSum
  <2>5. WordSize = t * (Base * h)
    <3>1. WordSize = TwoTo[DigitBits * dp]
      BY BaseIs DEF WordSize, dp
    <3>2. h * Base = Base * h
      BY <2>3, BaseIs
    <3> QED BY <2>3, <2>4, <3>1, <3>2
  <2> QED BY <2>3, <2>5, BaseIs DEF SplitsWord
<1>6. TwoTo[i * WordBits] * t = TwoTo[DigitBits * place]
  <2>1. i \in Nat /\ j \in Nat /\ WordBits = DigitBits * dp /\ place = dp * i + j
    BY <1>2, <1>3, BaseIs
  <2> HIDE DEF i, j, dp, place
  <2>2. dp * i \in Nat /\ DigitBits * (dp * i) \in Nat /\ DigitBits * j \in Nat
        /\ DigitBits * (dp * i + j) = DigitBits * (dp * i) + DigitBits * j
        /\ i * (DigitBits * dp) = DigitBits * (dp * i)
    BY <1>1, <2>1
  <2>3. TwoTo[DigitBits * (dp * i) + DigitBits * j] = TwoTo[DigitBits * (dp * i)] * t
    BY <2>2, TwoToSum
  <2> QED BY <2>1, <2>2, <2>3
<1>7. (v[i + 1] \div t) % Base = (Number(v) \div (TwoTo[i * WordBits] * t)) % Base
  <2> HIDE DEF i, t, h
  <2> QED BY <1>3, <1>5, DigitOfWord
<1>8. (v[i + 1] \div t) % Base \in Digits
  <2>1. t \in Nat \ {0} /\ v[i + 1] \in Nat
    <3>1. i + 1 \in 1..4 /\ (i + 1 = 1 \/ i + 1 = 2 \/ i + 1 = 3 \/ i + 1 = 4)
      BY <1>3
    <3>2. v[i + 1] \in Word
      <4> HIDE DEF i
      <4> QED BY <3>1, ValueIs
    <3>3. t \in Nat \ {0}
      BY <1>5 DEF SplitsWord
    <3> QED BY <3>2, <3>3 DEF Word
  <2> DEFINE x == v[i + 1]
             y == x \div t
  <2>2. y \in Int
    <3>1. x \in Int /\ t \in Nat \ {0}
      BY <2>1
    <3> HIDE DEF x, t
    <3> QED BY <3>1, DivMod
  <2> HIDE DEF y
  <2>3. y % Base \in 0..(Base - 1)
    BY <2>2, BaseIs, DivMod
  <2> QED BY <2>3, BaseIs DEF y
<1> QED BY <1>1, <1>4, <1>6, <1>7, <1>8

LEMMA AllDigitsAre ==
  ASSUME NEW v \in Values
  PROVE  /\ AllDigits(v) \in Seq(Digits)
         /\ Len(AllDigits(v)) = 4 * DigitsPerWord
         /\ Evaluate(AllDigits(v)) = Number(v)
<1> DEFINE n == 4 * DigitsPerWord
           d == AllDigits(v)
           x == Number(v)
           P(k) == Numbers(d)[k] = x \div TwoTo[DigitBits * (n - k)]
           T == {k \in Nat : k <= n => P(k)}
<1>1. n \in Nat /\ x \in Nat /\ x \in Int
  BY BaseIs, NumberType
<1>2. d \in [1..n -> Digits]
  <2>1. \E f : d = [k \in 1..n |-> f[k]]
    <3> DEFINE f == [k \in 1..n |-> d[k]]
    <3>1. d = [k \in 1..n |-> f[k]]
      BY DEF AllDigits
    <3> QED BY <3>1
  <2>2. \A k \in 1..n : d[k] \in Digits
    BY DigitOfNumber
  <2> HIDE DEF d, n
  <2> QED BY <2>1, <2>2
<1>3. d \in Seq(Digits) /\ Len(d) = n
  <2> HIDE DEF d, n
  <2> QED BY <1>1, <1>2
<1>4. 0 \in T
  <2>1. n - 0 = n /\ DigitBits * n = 4 * WordBits
    BY BaseIs
  <2>2. TwoTo[DigitBits * n] = Modulus
    BY <2>1, TwoToModulus
  <2>3. Numbers(d)[0] = 0
    BY <1>3, NumbersAre
  <2> DEFINE M == Modulus
  <2>4. M \in Nat \ {0} /\ x \in 0..(M - 1)
    BY NumberType
  <2>5. x \div M = 0
    <3> HIDE DEF M, x
    <3>1. x = M * 0 + x
      BY <2>4
    <3> QED BY <1>1, <2>4, <3>1, DivModIs, 0 \in Int
  <2> HIDE DEF n, d, x
  <2> QED BY <2>1, <2>2, <2>3, <2>5
<1>5. ASSUME NEW k \in Nat, k \in T PROVE k + 1 \in T
  <2> SUFFICES ASSUME k + 1 <= n PROVE P(k + 1)
    OBVIOUS
  <2> DEFINE place == n - (k + 1)
             t == TwoTo[DigitBits * place]
             q == x \div t
  <2>1. place \in Nat /\ n - k = place + 1 /\ k + 1 \in 1..n /\ k \in 0..(n - 1) /\ k <= n
    BY <1>1
  <2> HIDE DEF n
  <2>2. t \in Nat \ {0} /\ TwoTo[DigitBits * (place + 1)] = t * Base
    BY <2>1, BaseTo
  <2>3. Numbers(d)[k] = x \div (t * Base)
    BY <1>5, <2>1, <2>2
  <2>4. d[k + 1] = q % Base
    BY <2>1, DigitOfNumber DEF n
  <2>5. Numbers(d)[k + 1] = Numbers(d)[k] * Base + d[k + 1]
    BY <1>3, <2>1, NumbersAre
  <2> HIDE DEF d, x, t, place
  <2>6. x \div (t * Base) = q \div Base
    BY <1>1, <2>2, BaseIs, DivDiv
  <2>7. q \in Int
    BY <1>1, <2>2, DivMod
  <2> HIDE DEF q
  <2>8. q \div Base \in Int /\ q % Base \in Int /\ q = Base * (q \div Base) + (q % Base)
    <3>1. Base \in Nat \ {0}
      BY BaseIs
    <3>2. q \div Base \in Int /\ q % Base \in 0..(Base - 1) /\ q = Base * (q \div Base) + (q % Base)
      BY <2>7, <3>1, DivMod
    <3> QED BY <3>1, <3>2
  <2> DEFINE a == q \div Base
             b == q % Base
  <2>9. Numbers(d)[k + 1] = a * Base + b /\ a \in Int /\ b \in Int /\ q = Base * a + b
    BY <2>3, <2>4, <2>5, <2>6, <2>8
  <2> HIDE DEF a, b
  <2>10. Numbers(d)[k + 1] = q
    BY <2>9, BaseIs
  <2> QED BY <2>10 DEF q, t, place
<1> HIDE DEF T
<1>6. n \in T
  BY <1>1, <1>4, <1>5, Induction
<1>7. Numbers(d)[n] = x
  <2>1. n - n = 0 /\ DigitBits * 0 = 0
    BY <1>1, BaseIs
  <2>2. Numbers(d)[n] = x \div 1
    BY <1>1, <1>6, <2>1, TwoToLaws DEF T
  <2>3. x \div 1 = x
    <3> HIDE DEF x
    <3>1. x = 1 * x + 0 /\ 0 \in 0..(1 - 1) /\ 1 \in Nat \ {0}
      BY <1>1
    <3> QED BY <1>1, <3>1, DivModIs
  <2> QED BY <2>2, <2>3
<1> QED BY <1>3, <1>7 DEF Evaluate

LEMMA MinIs ==
  ASSUME NEW S \in SUBSET Nat, S # {}
  PROVE  Min(S) \in S /\ \A k \in S : Min(S) <= k
<1>1. PICK x \in S : \A y \in S : ~(y < x)
  BY LeastElement
<1>2. \E y \in S : \A k \in S : y <= k
  BY <1>1
<1> QED BY <1>2 DEF Min

(* The leading zeros are left out, so that the number is the same and the   *)
(* first digit, unless it is the only one, is not zero.                     *)
LEMMA FormatIs ==
  ASSUME NEW v \in Values
  PROVE  LET written == uint256_format_as_hex(v)
         IN  /\ written \in Seq(Digits) /\ Len(written) >= 1
             /\ Len(written) > 1 => written[1] # 0
             /\ Evaluate(written) = Number(v)
<1> DEFINE d == AllDigits(v)
           n == 4 * DigitsPerWord
           nonzero == {k \in DOMAIN d : d[k] # 0}
           w == uint256_format_as_hex(v)
<1>1. d \in Seq(Digits) /\ Len(d) = n /\ Numbers(d)[n] = Number(v)
  BY AllDigitsAre DEF Evaluate
<1>2. n \in Nat \ {0}
  BY BaseIs
<1>3. w = IF nonzero = {} THEN <<0>> ELSE SubSeq(d, Min(nonzero), Len(d))
  BY DEF uint256_format_as_hex
<1> HIDE DEF d, n, w
<1>4. DOMAIN d = 1..n
  BY <1>1
<1>5. CASE nonzero = {}
  <2>1. w = <<0>> /\ w \in Seq(Digits) /\ Len(w) = 1 /\ w[1] = 0
    BY <1>3, <1>5, BaseIs
  <2>2. n \in 0..Len(d) /\ \A j \in 1..n : d[j] = 0
    BY <1>1, <1>2, <1>4, <1>5
  <2>3. Numbers(d)[n] = 0
    BY <1>1, <2>2, ZerosAreZero
  <2>4. 1 \in 0..Len(w) /\ \A j \in 1..1 : w[j] = 0
    BY <2>1
  <2>5. Numbers(w)[1] = 0
    BY <2>1, <2>4, ZerosAreZero
  <2> QED BY <1>1, <2>1, <2>3, <2>5 DEF Evaluate, w
<1>6. CASE nonzero # {}
  <2> DEFINE first == Min(nonzero)
             a == first - 1
             m == n - a
  <2>1. first \in nonzero /\ \A k \in nonzero : first <= k
    <3>1. nonzero \in SUBSET Nat
      BY <1>2, <1>4
    <3> HIDE DEF nonzero
    <3> QED BY <1>6, <3>1, MinIs
  <2> HIDE DEF first
  <2>2. first \in 1..n /\ d[first] # 0 /\ \A j \in 1..a : d[j] = 0
    BY <1>2, <1>4, <2>1
  <2>3. a \in Nat /\ m \in Nat \ {0} /\ a + m = n /\ first = a + 1 /\ a \in 0..Len(d)
    BY <1>1, <1>2, <2>2
  <2>4. w = SubSeq(d, a + 1, a + m)
    BY <1>1, <1>3, <1>6, <2>3 DEF first
  <2> HIDE DEF a, m
  <2>5. Len(SubSeq(d, a + 1, a + m)) = m
    BY <1>1, <2>3, SubSeqProperties
  <2>6. w \in Seq(Digits) /\ Len(w) = m /\ \A j \in 1..m : w[j] = d[a + j]
    <3>1. 1..m = 1..(((a + m) - (a + 1)) + 1)
      BY <2>3
    <3> QED BY <1>1, <2>3, <2>4, <2>5, <3>1, SubSeqProperties
  <2>7. w[1] # 0
    BY <2>2, <2>3, <2>6
  <2>8. Numbers(d)[a + m] + Numbers(w)[0] * TwoTo[DigitBits * m]
          = Numbers(w)[0 + m] + Numbers(d)[a] * TwoTo[DigitBits * m]
    <3>1. SameDigits(d, a, w, 0, m)
      BY <1>1, <2>3, <2>6 DEF SameDigits
    <3> QED BY <3>1, SameDigitsAdd
  <2>9. Numbers(d)[a] = 0
    BY <1>1, <2>2, <2>3, ZerosAreZero DEF a
  <2>10. Numbers(w)[0] = 0 /\ Numbers(w)[m] \in 0..(TwoTo[DigitBits * m] - 1)
    BY <2>3, <2>6, NumbersAre
  <2>11. Number(v) \in Nat /\ TwoTo[DigitBits * m] \in Nat /\ 0 + m = m
    <3>1. Number(v) \in Nat
      BY NumberType
    <3>2. TwoTo[DigitBits * m] \in Nat \ {0}
      BY <2>3, BaseTo
    <3> QED BY <2>3, <3>1, <3>2
  <2> DEFINE x == Number(v)
             y == Numbers(w)[m]
             t == TwoTo[DigitBits * m]
  <2>12. x + 0 * t = y + 0 * t /\ x \in Nat /\ y \in Nat /\ t \in Nat
    BY <1>1, <2>3, <2>8, <2>9, <2>10, <2>11
  <2> HIDE DEF x, y, t
  <2>13. x = y
    BY <2>12
  <2> QED BY <2>3, <2>6, <2>7, <2>13 DEF x, y, Evaluate, w
<1> QED BY <1>5, <1>6

LEMMA TwoToMonotone ==
  ASSUME NEW a \in Nat, NEW b \in Nat, a <= b
  PROVE  TwoTo[a] <= TwoTo[b]
<1>1. b - a \in Nat /\ a + (b - a) = b
  OBVIOUS
<1>2. TwoTo[a + (b - a)] = TwoTo[a] * TwoTo[b - a] /\ TwoTo[a] \in Nat \ {0} /\ TwoTo[b - a] \in Nat \ {0}
  BY <1>1, TwoToSum, TwoToLaws
<1> DEFINE x == TwoTo[a]
           y == TwoTo[b - a]
<1>3. x * y >= x
  <2>1. x \in Nat \ {0} /\ y \in Nat \ {0}
    BY <1>2
  <2> HIDE DEF x, y
  <2> QED BY <2>1, Grows
<1> QED BY <1>1, <1>2, <1>3

(* a string whose first digit is not zero is the shortest of its number     *)
LEMMA Shortest ==
  ASSUME NEW w \in Seq(Digits), Len(w) > 1 => w[1] # 0,
         NEW hex \in Seq(Digits), Len(hex) >= 1, Evaluate(hex) = Evaluate(w)
  PROVE  Len(w) <= Len(hex)
<1> SUFFICES ASSUME ~(Len(w) <= Len(hex)) PROVE FALSE
  OBVIOUS
<1> DEFINE n == Len(w)
           m == n - 1
           l == Len(hex)
           rest == SubSeq(w, 1 + 1, 1 + m)
           t == TwoTo[DigitBits * m]
<1>1. n \in Nat /\ l \in Nat /\ n > 1 /\ m \in Nat \ {0} /\ l <= m /\ 1 + m = n /\ l >= 1
  OBVIOUS
<1>2. w[1] \in Nat /\ w[1] >= 1
  <2>1. w[1] \in Digits /\ w[1] # 0
    BY <1>1
  <2> QED BY <2>1, BaseIs
<1> HIDE DEF m
<1>3. rest \in Seq(Digits) /\ Len(rest) = m /\ \A j \in 1..m : rest[j] = w[1 + j]
  <2>1. Len(rest) = m
    BY <1>1, SubSeqProperties
  <2>2. 1..m = 1..(((1 + m) - (1 + 1)) + 1)
    BY <1>1
  <2> QED BY <1>1, <2>1, <2>2, SubSeqProperties
<1> HIDE DEF rest
<1>4. Numbers(w)[1 + m] + Numbers(rest)[0] * t = Numbers(rest)[0 + m] + Numbers(w)[1] * t
  <2>1. SameDigits(w, 1, rest, 0, m)
    BY <1>1, <1>3 DEF SameDigits
  <2> QED BY <2>1, SameDigitsAdd
<1>5. Numbers(w)[1] = w[1]
  <2>1. Numbers(w)[0 + 1] = Numbers(w)[0] * Base + w[0 + 1]
    <3>1. 0 \in 0..(n - 1)
      BY <1>1
    <3> QED BY <3>1, NumbersAre
  <2>2. Numbers(w)[0] = 0
    BY NumbersAre
  <2> QED BY <1>2, <2>1, <2>2, BaseIs
<1>6. Numbers(rest)[0] = 0 /\ Numbers(rest)[m] \in Nat /\ t \in Nat \ {0}
  <2>1. Numbers(rest)[0] = 0 /\ Numbers(rest)[m] \in 0..(TwoTo[DigitBits * m] - 1)
    BY <1>1, <1>3, NumbersAre
  <2>2. t \in Nat \ {0}
    BY <1>1, BaseTo
  <2> QED BY <2>1, <2>2
<1>7. Evaluate(w) >= t
  <2> DEFINE x == Numbers(w)[n]
             y == Numbers(rest)[m]
             z == w[1]
  <2>1. x + 0 * t = y + z * t /\ y \in Nat /\ z \in Nat \ {0} /\ t \in Nat \ {0}
    BY <1>1, <1>2, <1>4, <1>5, <1>6
  <2>2. x \in Nat
    <3>1. x \in 0..(TwoTo[DigitBits * n] - 1)
      BY <1>1, NumbersAre
    <3> QED BY <3>1
  <2> HIDE DEF x, y, z, t
  <2>3. t * z >= t /\ t * z = z * t
    BY <2>1, Grows
  <2>4. x >= t
    BY <2>1, <2>2, <2>3
  <2> QED BY <2>4 DEF x, Evaluate
<1>8. Evaluate(hex) < t
  <2>1. Evaluate(hex) \in 0..(TwoTo[DigitBits * l] - 1)
    BY <1>1, NumbersAre DEF Evaluate
  <2>2. TwoTo[DigitBits * l] <= t
    <3>1. DigitBits * l \in Nat /\ DigitBits * m \in Nat /\ DigitBits * l <= DigitBits * m
      <4>1. DigitBits * (m - l) \in Nat
        BY <1>1, BaseIs
      <4>2. DigitBits * (m - l) = DigitBits * m - DigitBits * l /\ DigitBits * m \in Nat /\ DigitBits * l \in Nat
        BY <1>1, BaseIs
      <4> QED BY <4>1, <4>2
    <3> QED BY <3>1, TwoToMonotone
  <2>3. TwoTo[DigitBits * l] \in Nat
    BY <1>1, BaseTo
  <2> HIDE DEF t
  <2> QED BY <1>6, <2>1, <2>2, <2>3
<1>9. Evaluate(w) \in Nat
  <2>1. Numbers(w)[n] \in 0..(TwoTo[DigitBits * n] - 1)
    BY <1>1, NumbersAre
  <2> QED BY <2>1 DEF Evaluate
<1> QED BY <1>6, <1>7, <1>8, <1>9

LEMMA StringIs ==
  ASSUME NEW hex \in Strings
  PROVE  hex \in Seq(Digits) /\ Len(hex) >= 1
BY UInt256Assumption DEF Strings

(* the value that a string is read as is that of its number *)
LEMMA CreateIsValue ==
  ASSUME NEW v \in Values, NEW hex \in Seq(Digits), Evaluate(hex) % Modulus = Number(v)
  PROVE  uint256_create_from_hex(hex, NotADigit) = v
<1>1. uint256_create_from_hex(hex, NotADigit) \in Values
  BY CreateType
<1>2. Number(uint256_create_from_hex(hex, NotADigit)) = Number(v)
  BY CreateIsModular
<1> QED BY <1>1, <1>2, NumberUnique
-----------------------------------------------------------------------------
(* The specification *)

(* what every function is given *)
ValInv == val \in Values

(* Every function returns four words: those of uint256_create_from_hex are  *)
(* words whatever strtoul met after the sixteen digits of a segment, and    *)
(* the sums, complements and shifts drop what a word cannot hold.           *)
THEOREM ValuesOnly == Spec => []ValInv
<1>1. Init => ValInv
  <2> SUFFICES ASSUME Init PROVE val \in Values
    BY DEF ValInv
  <2>1. CASE \E word \in Word : val = uint256_create_from_u64(word)
    <3>1. 0 \in Word
      BY Sizes DEF Word
    <3> QED BY <2>1, <3>1, ValueOf DEF uint256_create_from_u64
  <2>2. CASE \E data \in Values : val = uint256_create(data)
    BY <2>2 DEF uint256_create
  <2>3. CASE \E hex \in Strings, after \in After : val = uint256_create_from_hex(hex, after)
    BY <2>3, CreateType
  <2> QED BY <2>1, <2>2, <2>3 DEF Init
<1>2. ValInv /\ [Next]_val => ValInv'
  <2> SUFFICES ASSUME val \in Values, [Next]_val PROVE val' \in Values
    BY DEF ValInv
  <2>1. CASE Add
    BY <2>1, AddIsModular DEF Add
  <2>2. CASE Sub
    BY <2>2, SubIsModular DEF Sub
  <2>3. CASE Mul
    BY <2>3, MulIsProduct DEF Mul
  <2>4. CASE UNCHANGED val
    BY <2>4
  <2> QED BY <2>1, <2>2, <2>3, <2>4 DEF Next
<1> QED BY <1>1, <1>2, PTL DEF Spec

(* uint256_add adds modulo 2^256 and uint256_sub, which adds the two's      *)
(* complement, subtracts modulo 2^256, for every width of the words: the    *)
(* carry that the code computes bit by bit crosses the words and is lost    *)
(* only at the top.                                                         *)
THEOREM SumsCorrect == Spec => []SumsAreModular
<1>1. ValInv => SumsAreModular
  <2> SUFFICES ASSUME val \in Values, NEW x \in Values
               PROVE  /\ Number(uint256_add(val, x)) = (Number(val) + Number(x)) % Modulus
                      /\ Number(uint256_sub(val, x)) = (Number(val) - Number(x)) % Modulus
    BY DEF ValInv, SumsAreModular
  <2> QED BY AddIsModular, SubIsModular
<1> QED BY <1>1, ValuesOnly, PTL

(* uint256_mul, which adds up the shifted right values that the bits of the *)
(* left one select, is the product modulo 2^256, for every width of the     *)
(* words.                                                                   *)
THEOREM MulCorrect == Spec => []MulIsModular
<1>1. ValInv => MulIsModular
  BY MulIsProduct DEF ValInv, MulIsModular
<1> QED BY <1>1, ValuesOnly, PTL

(* uint256_create_from_hex reads back what uint256_format_as_hex writes,    *)
(* and every other string of the same number modulo 2^256, and the string   *)
(* written is the shortest of its number, for every size of the digits and  *)
(* of the words and for strings of every length.                            *)
THEOREM HexCorrect == Spec => []HexRoundTrip
<1>1. ValInv => HexRoundTrip
  <2> SUFFICES ASSUME val \in Values PROVE HexRoundTrip
    BY DEF ValInv
  <2> DEFINE written == uint256_format_as_hex(val)
  <2>1. /\ written \in Seq(Digits) /\ Len(written) >= 1
        /\ Len(written) > 1 => written[1] # 0
        /\ Evaluate(written) = Number(val)
    BY FormatIs
  <2>2. Evaluate(written) % Modulus = Number(val)
    <3> DEFINE n == Number(val)
               m == Modulus
    <3>1. n \in 0..(m - 1) /\ m \in Nat \ {0}
      BY NumberType
    <3>2. n % m = n
      <4> HIDE DEF n, m
      <4>1. n = m * 0 + n /\ n \in Int
        BY <3>1
      <4> QED BY <3>1, <4>1, DivModIs, 0 \in Int
    <3> QED BY <2>1, <3>2
  <2> HIDE DEF written
  <2>3. uint256_create_from_hex(written, NotADigit) = val
    BY <2>1, <2>2, CreateIsValue
  <2>4. ASSUME NEW hex \in Strings, Evaluate(hex) % Modulus = Number(val)
        PROVE  /\ uint256_create_from_hex(hex, NotADigit) = val
               /\ Evaluate(hex) = Number(val) => Len(written) <= Len(hex)
    <3>1. hex \in Seq(Digits) /\ Len(hex) >= 1
      BY StringIs
    <3>2. uint256_create_from_hex(hex, NotADigit) = val
      BY <2>4, <3>1, CreateIsValue
    <3>3. Evaluate(hex) = Number(val) => Len(written) <= Len(hex)
      BY <2>1, <3>1, Shortest
    <3> QED BY <3>2, <3>3
  <2> QED BY <2>3, <2>4 DEF HexRoundTrip, written
<1> QED BY <1>1, ValuesOnly, PTL
=============================================================================

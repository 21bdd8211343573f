---------------------------- MODULE HexDumpProofs ----------------------------
(***************************************************************************)
(* Proofs about HexDump, for any input, any number of bytes of a row and   *)
(* of an offset and any number of reads that fail: what the buffer holds,  *)
(* what the rows show, and what the digits of an offset are.               *)
(*                                                                         *)
(* What the digits are worth is a recursive function, reasoned about by    *)
(* induction, taken from the library's theorem that every set of naturals  *)
(* has a least element.                                                    *)
(***************************************************************************)
EXTENDS HexDump, FiniteSetTheorems, SequenceTheorems, WellFoundedInduction, TLAPS

(* The buffer holds, from its start, the last bytes that were read, and     *)
(* what is shown is what was read before them.                              *)
ReadInv ==
  /\ pc = "start" => pos = 0 /\ placeCount = 0 /\ numDataRead = 0 /\ failures = 0 /\ row = << >>
  /\ numDataRead < 0 => failures > 0
  /\ numDataRead <= pos
  /\ \A i \in 1..numDataRead : data[i] = Byte(pos - numDataRead + i)
  /\ pc # "crashed" => shown = IF numDataRead < 0 THEN pos ELSE pos - numDataRead
  /\ pc # "start" /\ numDataRead = 0 => pos = length
  /\ pc = "done" => numDataRead = 0

RowInv ==
  LET k == Cardinality(PairsShown(row))
  IN  row # << >> /\ pc # "crashed" =>
        /\ k <= shown
        /\ HexShown(row) = [i \in 1..k |-> Byte(shown - k + i)]
        /\ k > 0 => TextShown(row) = [i \in 1..k |-> hex_to_printable(Byte(shown - k + i))]

(* Only the last read of a file is not full, and no row is printed after it *)
OffsetInv ==
  /\ pc # "start" => place = hex_format_offset(placeCount)
  /\ source = "file" /\ failures = 0 /\ pc = "loop" /\ numDataRead > 0 =>
       /\ placeCount = (pos - numDataRead) % CountLimit
       /\ numDataRead < ROW => pos = length

IInv == TypeOK /\ ReadInv /\ RowInv /\ OffsetInv
-----------------------------------------------------------------------------
(* Induction over the naturals, for sets *)

LEMMA LeastElement ==
  ASSUME NEW T \in SUBSET Nat, T # {}
  PROVE  \E x \in T : \A y \in T : ~(y < x)
<1> DEFINE R == {pair \in Nat \X Nat : pair[1] < pair[2]}
<1>1. IsWellFoundedOn(R, Nat)
  BY NatLessThanWellFounded DEF OpToRel
<1>2. \A x, y \in Nat : y < x => <<y, x>> \in R
  OBVIOUS
<1> HIDE DEF R
<1>3. PICK x \in T : \A y \in T : ~(<<y, x>> \in R)
  BY <1>1, WFMin
<1> QED BY <1>2, <1>3

LEMMA Induction ==
  ASSUME NEW T, 0 \in T, \A n \in Nat : n \in T => n + 1 \in T
  PROVE  \A n \in Nat : n \in T
<1> SUFFICES ASSUME NEW n \in Nat, n \notin T PROVE FALSE
  OBVIOUS
<1>1. PICK x \in Nat \ T : \A y \in Nat \ T : ~(y < x)
  BY LeastElement, Nat \ T \in SUBSET Nat, Nat \ T # {}
<1>2. x # 0
  OBVIOUS
<1>3. x - 1 \in Nat /\ x - 1 \in T
  BY <1>1, <1>2
<1>4. (x - 1) + 1 \in T
  BY <1>3
<1> QED BY <1>4

-----------------------------------------------------------------------------
(* Quotients and remainders *)

LEMMA DivMod ==
  ASSUME NEW x \in Int, NEW m \in Nat \ {0}
  PROVE  /\ x \div m \in Int
         /\ x % m \in 0..(m - 1)
         /\ x = m * (x \div m) + (x % m)
<1>1. x \div m \in Int /\ x % m \in Int /\ x % m >= 0 /\ x % m < m
  OBVIOUS
<1>2.  x = m * (x \div m) + (x % m)
  OBVIOUS
<1> QED BY <1>1, <1>2

LEMMA Grows ==
  ASSUME NEW m \in Nat \ {0}, NEW d \in Nat \ {0}
  PROVE  m * d >= m
OBVIOUS

LEMMA DivModIs ==
  ASSUME NEW m \in Nat \ {0}, NEW q \in Int, NEW r \in 0..(m - 1), NEW x \in Int, x = m * q + r
  PROVE  x \div m = q /\ x % m = r
<1>1. x \div m \in Int /\ x % m \in 0..(m - 1) /\ x = m * (x \div m) + (x % m)
  BY DivMod
<1> DEFINE p == x \div m
           s == x % m
<1> HIDE DEF p, s
<1>2. p \in Int /\ s \in 0..(m - 1) /\ m * p + s = m * q + r
  BY <1>1 DEF p, s
<1>3. m * (p - q) = r - s
  BY <1>2
<1>4. ~(p - q >= 1)
  <2> SUFFICES ASSUME p - q >= 1 PROVE FALSE
    OBVIOUS
  <2>1. m * (p - q) >= m
    BY <1>2, Grows, p - q \in Nat \ {0}
  <2> QED BY <2>1, <1>3, <1>2
<1>5. ~(q - p >= 1)
  <2> SUFFICES ASSUME q - p >= 1 PROVE FALSE
    OBVIOUS
  <2>1. m * (q - p) >= m
    BY <1>2, Grows, q - p \in Nat \ {0}
  <2>2. m * (q - p) = s - r
    BY <1>2
  <2> QED BY <2>1, <2>2, <1>2
<1>6. p = q
  BY <1>4, <1>5, <1>2
<1>7. s = r
  BY <1>6, <1>3, <1>2
<1> QED BY <1>6, <1>7 DEF p, s

-----------------------------------------------------------------------------
(* Recursive functions are what their definitions say *)

(* the function with the first value base and the steps step *)
Follows(f, base, step, k) == f[k] = IF k = 0 THEN base ELSE step[k][f[k - 1]]
FollowsTo(f, base, step, n) == \A k \in 0..n : Follows(f, base, step, k)

LEMMA Recursion ==
  ASSUME NEW n \in Nat, NEW S, NEW base \in S, NEW step \in [1..n -> [S -> S]]
  PROVE  \E f \in [0..n -> S] : FollowsTo(f, base, step, n)
<1> DEFINE T == {m \in Nat : m <= n => \E f \in [0..m -> S] : FollowsTo(f, base, step, m)}
<1>1. 0 \in T
  <2> DEFINE f == [k \in 0..0 |-> base]
  <2>1. f \in [0..0 -> S] /\ FollowsTo(f, base, step, 0)
    BY DEF FollowsTo, Follows
  <2> QED BY <2>1
<1>2. ASSUME NEW m \in Nat, m \in T PROVE m + 1 \in T
  <2> SUFFICES ASSUME m + 1 <= n
               PROVE  \E f \in [0..(m + 1) -> S] : FollowsTo(f, base, step, m + 1)
    OBVIOUS
  <2>1. PICK f \in [0..m -> S] : FollowsTo(f, base, step, m)
    BY <1>2
  <2> DEFINE g == [k \in 0..(m + 1) |-> IF k <= m THEN f[k] ELSE step[m + 1][f[m]]]
  <2>2. step[m + 1][f[m]] \in S
    BY m + 1 \in 1..n, f[m] \in S
  <2>3. g \in [0..(m + 1) -> S]
    BY <2>2
  <2>4. ASSUME NEW k \in 0..(m + 1)
        PROVE  g[k] = IF k = 0 THEN base ELSE step[k][g[k - 1]]
    <3>1. CASE k = 0
      BY <3>1, <2>1 DEF FollowsTo, Follows
    <3>2. CASE k \in 1..m
      <4>1. g[k] = f[k] /\ g[k - 1] = f[k - 1] /\ k \in 0..m
        BY <3>2
      <4>2. f[k] = step[k][f[k - 1]]
        BY <3>2, <2>1 DEF FollowsTo, Follows
      <4> QED BY <3>2, <4>1, <4>2
    <3>3. CASE k = m + 1
      <4>1. g[k] = step[m + 1][f[m]] /\ g[k - 1] = f[m]
        BY <3>3
      <4> QED BY <3>3, <4>1
    <3> QED BY <3>1, <3>2, <3>3
  <2>5. FollowsTo(g, base, step, m + 1)
    BY <2>4 DEF FollowsTo, Follows
  <2> QED BY <2>3, <2>5
<1> HIDE DEF T
<1>3. n \in T
  BY <1>1, <1>2, Induction
<1> QED BY <1>3 DEF T

LEMMA RecursionUnique ==
  ASSUME NEW base, NEW step, NEW m \in Nat, NEW n \in Nat, m <= n, NEW f, NEW g,
         FollowsTo(f, base, step, m), FollowsTo(g, base, step, n)
  PROVE  \A k \in 0..m : f[k] = g[k]
<1> DEFINE T == {k \in Nat : k <= m => f[k] = g[k]}
<1>1. 0 \in T
  BY DEF FollowsTo, Follows
<1>2. ASSUME NEW k \in Nat, k \in T PROVE k + 1 \in T
  <2> SUFFICES ASSUME k + 1 <= m PROVE f[k + 1] = g[k + 1]
    OBVIOUS
  <2>1. f[k] = g[k] /\ (k + 1) - 1 = k /\ k + 1 # 0 /\ k + 1 \in 0..m /\ k + 1 \in 0..n
    BY <1>2
  <2>2. f[k + 1] = step[k + 1][f[k]] /\ g[k + 1] = step[k + 1][g[k]]
    BY <2>1 DEF FollowsTo, Follows
  <2> QED BY <2>1, <2>2
<1> HIDE DEF T
<1>3. \A k \in Nat : k \in T
  BY <1>1, <1>2, Induction
<1> QED BY <1>3 DEF T

LEMMA NatRecursion ==
  ASSUME NEW S, NEW base \in S, NEW step \in [Nat -> [S -> S]]
  PROVE  \E f \in [Nat -> S] : \A k \in Nat : Follows(f, base, step, k)
<1> DEFINE first(m) == CHOOSE f \in [0..m -> S] : FollowsTo(f, base, step, m)
           g == [k \in Nat |-> first(k)[k]]
<1>1. ASSUME NEW m \in Nat
      PROVE  first(m) \in [0..m -> S] /\ FollowsTo(first(m), base, step, m)
  <2> DEFINE st == [k \in 1..m |-> step[k]]
  <2>1. st \in [1..m -> [S -> S]]
    OBVIOUS
  <2>2. PICK f \in [0..m -> S] : FollowsTo(f, base, st, m)
    <3> HIDE DEF st
    <3> QED BY <2>1, Recursion
  <2>3. \A k \in 0..m : k # 0 => st[k] = step[k]
    OBVIOUS
  <2>4. FollowsTo(f, base, step, m)
    <3> HIDE DEF st
    <3>1. \A k \in 0..m : f[k] = IF k = 0 THEN base ELSE st[k][f[k - 1]]
      BY <2>2 DEF FollowsTo, Follows
    <3>2. \A k \in 0..m : f[k] = IF k = 0 THEN base ELSE step[k][f[k - 1]]
      BY <2>3, <3>1
    <3> QED BY <3>2 DEF FollowsTo, Follows
  <2> QED BY <2>4
<1> HIDE DEF first
<1>2. g \in [Nat -> S]
  BY <1>1
<1>3. ASSUME NEW k \in Nat PROVE g[k] = IF k = 0 THEN base ELSE step[k][g[k - 1]]
  <2>1. CASE k = 0
    BY <1>1, <2>1 DEF FollowsTo, Follows
  <2>2. CASE k # 0
    <3>1. k - 1 \in Nat /\ k - 1 <= k /\ k - 1 \in 0..(k - 1)
      BY <2>2
    <3>2. FollowsTo(first(k), base, step, k) /\ FollowsTo(first(k - 1), base, step, k - 1)
      BY <1>1, <3>1
    <3>3. \A i \in 0..(k - 1) : first(k - 1)[i] = first(k)[i]
      <4> DEFINE f1 == first(k - 1)
                 f2 == first(k)
                 j == k - 1
      <4>1. FollowsTo(f1, base, step, j) /\ FollowsTo(f2, base, step, k) /\ j \in Nat /\ j <= k
        BY <3>1, <3>2
      <4> HIDE DEF f1, f2, j
      <4>2. \A i \in 0..j : f1[i] = f2[i]
        BY <4>1, RecursionUnique
      <4> QED BY <4>2 DEF f1, f2, j
    <3>4. g[k - 1] = first(k)[k - 1]
      BY <3>1, <3>3
    <3>5. first(k)[k] = step[k][first(k)[k - 1]]
      BY <3>2, <2>2 DEF FollowsTo, Follows
    <3> QED BY <3>4, <3>5, <2>2
  <2> QED BY <2>1, <2>2
<1>4. \A k \in Nat : Follows(g, base, step, k)
  BY <1>3 DEF Follows
<1> QED BY <1>2, <1>4
-----------------------------------------------------------------------------
(* Powers of 256 *)

LEMMA BytesIs ==
  /\ Bytes \in [Nat -> Nat \ {0}]
  /\ Bytes = [n \in Nat |-> IF n = 0 THEN 1 ELSE 256 * Bytes[n - 1]]
<1> DEFINE S == Nat \ {0}
           step == [k \in Nat |-> [x \in S |-> 256 * x]]
<1>1. step \in [Nat -> [S -> S]] /\ 1 \in S
  OBVIOUS
<1>2. PICK f \in [Nat -> S] : \A k \in Nat : Follows(f, 1, step, k)
  <2> HIDE DEF step, S
  <2> QED BY <1>1, NatRecursion
<1>3. f = [n \in Nat |-> IF n = 0 THEN 1 ELSE 256 * f[n - 1]]
  <2>1. ASSUME NEW n \in Nat PROVE f[n] = IF n = 0 THEN 1 ELSE 256 * f[n - 1]
    <3>1. f[n] = IF n = 0 THEN 1 ELSE step[n][f[n - 1]]
      BY <1>2 DEF Follows
    <3>2. n # 0 => f[n - 1] \in Nat \ {0}
      OBVIOUS
    <3> QED BY <3>1, <3>2
  <2> QED BY <2>1
<1>4. Bytes = [n \in Nat |-> IF n = 0 THEN 1 ELSE 256 * Bytes[n - 1]]
  BY <1>3 DEF Bytes
<1>5. \A n \in Nat : Bytes[n] \in Nat \ {0}
  <2> DEFINE T == {n \in Nat : Bytes[n] \in Nat \ {0}}
  <2>1. 0 \in T
    BY <1>4
  <2>2. ASSUME NEW n \in Nat, n \in T PROVE n + 1 \in T
    <3>1. Bytes[n + 1] = 256 * Bytes[n]
      BY <1>4, n + 1 # 0, (n + 1) - 1 = n
    <3> QED BY <2>2, <3>1
  <2> HIDE DEF T
  <2>3. \A n \in Nat : n \in T
    BY <2>1, <2>2, Induction
  <2> QED BY <2>3 DEF T
<1> QED BY <1>4, <1>5

LEMMA BytesLaws ==
  /\ Bytes[0] = 1
  /\ \A n \in Nat : Bytes[n] \in Nat \ {0} /\ Bytes[n + 1] = 256 * Bytes[n]
<1>1. Bytes[0] = 1
  BY BytesIs
<1>2. ASSUME NEW n \in Nat PROVE Bytes[n] \in Nat \ {0} /\ Bytes[n + 1] = 256 * Bytes[n]
  BY BytesIs, n + 1 # 0, (n + 1) - 1 = n
<1> QED BY <1>1, <1>2

LEMMA BytesSum ==
  \A a, b \in Nat : Bytes[a + b] = Bytes[a] * Bytes[b]
<1> SUFFICES ASSUME NEW a \in Nat PROVE \A b \in Nat : Bytes[a + b] = Bytes[a] * Bytes[b]
  OBVIOUS
<1> DEFINE T == {b \in Nat : Bytes[a + b] = Bytes[a] * Bytes[b]}
<1>1. 0 \in T
  BY BytesLaws, a + 0 = a
<1>2. ASSUME NEW b \in Nat, b \in T PROVE b + 1 \in T
  <2>1. Bytes[a + (b + 1)] = 256 * Bytes[a + b] /\ Bytes[b + 1] = 256 * Bytes[b]
    BY BytesLaws, a + b \in Nat, a + (b + 1) = (a + b) + 1
  <2>2. Bytes[a] \in Nat /\ Bytes[b] \in Nat /\ Bytes[a + b] = Bytes[a] * Bytes[b]
    BY <1>2, BytesLaws
  <2>3. Bytes[a + (b + 1)] = Bytes[a] * Bytes[b + 1]
    BY <2>1, <2>2
  <2> QED BY <2>3
<1> HIDE DEF T
<1>3. \A b \in Nat : b \in T
  BY <1>1, <1>2, Induction
<1> QED BY <1>3 DEF T

LEMMA HornerBound ==
  ASSUME NEW m \in Nat \ {0}, NEW n \in Nat \ {0}, NEW w \in 0..(m - 1), NEW x \in 0..(n - 1)
  PROVE  w + m * x \in 0..(m * n - 1)
<1>1. m * x \in Nat /\ m * n \in Nat
  OBVIOUS
<1>2. m * x <= m * (n - 1)
  <2>1. m * ((n - 1) - x) \in Nat
    BY (n - 1) - x \in Nat
  <2>2. m * ((n - 1) - x) = m * (n - 1) - m * x
    OBVIOUS
  <2> QED BY <1>1, <2>1, <2>2
<1>3. m * (n - 1) = m * n - m
  OBVIOUS
<1> QED BY <1>1, <1>2, <1>3
-----------------------------------------------------------------------------
(* Characters *)

LEMMA ByteParts ==
  ASSUME NEW b \in Codes
  PROVE  b \div 16 \in 0..15 /\ b % 16 \in 0..15 /\ 16 * (b \div 16) + (b % 16) = b
<1> DEFINE q == b \div 16
           r == b % 16
<1>1. q \in Int /\ r \in 0..15 /\ b = 16 * q + r
  <2>1. 16 \in Nat \ {0} /\ b \in Int /\ 16 - 1 = 15
    BY DEF Codes
  <2> QED BY <2>1, DivMod
<1> HIDE DEF q, r
<1>2. q \in 0..15
  BY <1>1 DEF Codes
<1> QED BY <1>1, <1>2 DEF q, r

LEMMA DigitIs ==
  ASSUME NEW d \in 0..15
  PROVE  /\ Digit(d) \in Codes /\ Digit(d) # NUL /\ Digit(d) # Space
         /\ HexValue(Digit(d)) = d
BY DEF Digit, HexValue, Codes, NUL, Space

LEMMA PrintableIs ==
  ASSUME NEW b \in Codes
  PROVE  hex_to_printable(b) \in Codes /\ hex_to_printable(b) # NUL
BY DEF hex_to_printable, Codes, NUL

(* what strLen counts is what is in front of the first terminator           *)
LEMMA StrLenIs ==
  ASSUME NEW s, NEW n \in Nat, DOMAIN s \subseteq Nat \ {0}, n + 1 \in DOMAIN s,
         s[n + 1] = NUL, \A j \in 1..n : s[j] # NUL
  PROVE  strLen(s) = n
<1> DEFINE P(i) == s[i] = NUL /\ \A j \in 1..(i - 1) : s[j] # NUL
<1>1. P(n + 1)
  <2>1. (n + 1) - 1 = n
    OBVIOUS
  <2> QED BY <2>1
<1>2. ASSUME NEW i \in DOMAIN s, P(i) PROVE i = n + 1
  <2>1. i \in Nat \ {0}
    OBVIOUS
  <2>2. ~(i <= n)
    BY <1>2, <2>1
  <2>3. ~(n + 1 < i)
    <3>1. n + 1 < i => n + 1 \in 1..(i - 1)
      BY <2>1
    <3> QED BY <1>2, <3>1
  <2> QED BY <2>1, <2>2, <2>3
<1> HIDE DEF P
<1>3. (CHOOSE i \in DOMAIN s : P(i)) = n + 1
  BY <1>1, <1>2
<1>4. strLen(s) = (n + 1) - 1
  BY <1>3 DEF strLen, P
<1> QED BY <1>4

LEMMA WrittenIs ==
  ASSUME NEW s \in Seq(Codes), NEW n \in Nat, n < Len(s), s[n + 1] = NUL, \A j \in 1..n : s[j] # NUL
  PROVE  /\ hex_write_string(s) \in Seq(Codes)
         /\ Len(hex_write_string(s)) = n
         /\ \A j \in 1..n : hex_write_string(s)[j] = s[j]
<1>1. strLen(s) = n
  <2>1. DOMAIN s = 1..Len(s) /\ Len(s) \in Nat
    OBVIOUS
  <2>2. DOMAIN s \subseteq Nat \ {0} /\ n + 1 \in DOMAIN s
    BY <2>1
  <2> QED BY <2>2, StrLenIs
<1>2. Len(SubSeq(s, 1, n)) = n
  BY SubSeqProperties
<1>3. \A j \in 1..n : SubSeq(s, 1, n)[j] = s[j]
  BY SubSeqProperties
<1>4. SubSeq(s, 1, n) \in Seq(Codes)
  BY SubSeqProperties
<1> QED BY <1>1, <1>2, <1>3, <1>4 DEF hex_write_string

LEMMA PairOfByte ==
  ASSUME NEW b \in Codes
  PROVE  hex_write_string(hex_format_byte_as_hex(b)) = <<Digit(b \div 16), Digit(b % 16)>>
<1> DEFINE h == Digit(b \div 16)
           l == Digit(b % 16)
           s == hex_format_byte_as_hex(b)
           w == hex_write_string(s)
<1>1. h \in Codes /\ l \in Codes /\ h # NUL /\ l # NUL
  BY ByteParts, DigitIs
<1>2. s = <<h, l, NUL>>
  BY DEF hex_format_byte_as_hex
<1> HIDE DEF h, l, s
<1>3. s \in Seq(Codes) /\ Len(s) = 3 /\ s[1] = h /\ s[2] = l /\ s[3] = NUL
  BY <1>1, <1>2 DEF Codes, NUL
<1>4. 2 < Len(s) /\ s[2 + 1] = NUL /\ \A j \in 1..2 : s[j] # NUL
  BY <1>1, <1>3
<1>5. w \in Seq(Codes) /\ Len(w) = 2 /\ w[1] = h /\ w[2] = l
  <2>1. 2 \in Nat /\ 1 \in 1..2 /\ 2 \in 1..2
    OBVIOUS
  <2>2. w \in Seq(Codes) /\ Len(w) = 2 /\ \A j \in 1..2 : w[j] = s[j]
    BY <1>3, <1>4, <2>1, WrittenIs
  <2> QED BY <1>3, <2>1, <2>2
<1> HIDE DEF w
<1>6. w = <<h, l>>
  BY <1>5
<1> QED BY <1>6 DEF w, h, l, s
-----------------------------------------------------------------------------
(* The row that is printed *)

(* what the row is made from *)
BufferOK ==
  /\ ROW \in Nat \ {0} /\ OffsetBytes \in Nat \ {0}
  /\ data \in [1..ROW -> Codes]
  /\ place \in [1..(2 * OffsetBytes) -> Codes]
  /\ numDataRead \in -1..ROW

(* and when the program gets to the end of one *)
ReadOK ==
  /\ BufferOK
  /\ numDataRead > 0 \/ (main = "c" /\ numDataRead = -1)

LEMMA WithBlank ==
  ASSUME NEW h \in Codes, NEW l \in Codes, NEW c \in Codes
  PROVE  Append(<<h, l>>, c) = <<h, l, c>>
<1>1. <<h, l>> \in Seq(Codes)
  OBVIOUS
<1> DEFINE t == Append(<<h, l>>, c)
<1>2. t \in Seq(Codes) /\ Len(t) = 3 /\ t[1] = h /\ t[2] = l /\ t[3] = c
  BY <1>1
<1> HIDE DEF t
<1>3. t = <<h, l, c>>
  BY <1>2
<1> QED BY <1>3 DEF t

LEMMA HexPairIs ==
  ASSUME BufferOK, NEW i \in 1..ROW
  PROVE  HexPair(i) = IF i <= PairsWritten
                      THEN <<Digit(data[i] \div 16), Digit(data[i] % 16), Space>>
                      ELSE <<Space, Space, Space>>
<1>1. CASE i <= PairsWritten
  <2>1. data[i] \in Codes
    BY DEF BufferOK
  <2>2. HexPair(i) = Append(<<Digit(data[i] \div 16), Digit(data[i] % 16)>>, Space)
    BY <1>1, <2>1, PairOfByte DEF HexPair
  <2> DEFINE h == Digit(data[i] \div 16)
             l == Digit(data[i] % 16)
             pair == <<h, l>>
  <2>3. h \in Codes /\ l \in Codes /\ Space \in Codes
    <3> DEFINE q == data[i] \div 16
               r == data[i] % 16
    <3>1. q \in 0..15 /\ r \in 0..15
      BY <2>1, ByteParts
    <3> HIDE DEF q, r
    <3>2. Digit(q) \in Codes /\ Digit(r) \in Codes
      BY <3>1, DigitIs
    <3> QED BY <3>2 DEF q, r, Space, Codes
  <2> HIDE DEF h, l
  <2>4. Append(pair, Space) = <<h, l, Space>>
    BY <2>3, WithBlank
  <2> QED BY <1>1, <2>2, <2>4 DEF h, l
<1>2. CASE ~(i <= PairsWritten)
  <2>1. HexPair(i) = Spaces(3)
    BY <1>2 DEF HexPair
  <2>2. Spaces(3) = <<Space, Space, Space>>
    <3>1. 1..3 = {1, 2, 3}
      OBVIOUS
    <3> QED BY <3>1 DEF Spaces
  <2> QED BY <1>2, <2>1, <2>2
<1> QED BY <1>1, <1>2

LEMMA HexPairType ==
  ASSUME BufferOK, NEW i \in 1..ROW
  PROVE  \A j \in 1..3 : HexPair(i)[j] \in Codes
<1>1. Space \in Codes
  BY DEF Space, Codes
<1>2. Digit(data[i] \div 16) \in Codes /\ Digit(data[i] % 16) \in Codes
  BY ByteParts, DigitIs DEF BufferOK
<1> QED BY <1>1, <1>2, HexPairIs

LEMMA HexColumnIs ==
  ASSUME BufferOK
  PROVE  /\ HexColumn \in Seq(Codes) /\ Len(HexColumn) = 3 * ROW
         /\ \A i \in 1..ROW : HexColumn[3 * i - 2] = HexPair(i)[1] /\ HexColumn[3 * i - 1] = HexPair(i)[2]
<1>1. ASSUME NEW c \in 1..(3 * ROW)
      PROVE  (c + 2) \div 3 \in 1..ROW /\ 1 + ((c - 1) % 3) \in 1..3
  <2>1. ROW \in Nat
    BY DEF BufferOK
  <2> QED BY <2>1
<1>2. HexColumn \in [1..(3 * ROW) -> Codes]
  BY <1>1, HexPairType DEF HexColumn
<1>3. 3 * ROW \in Nat /\ ROW \in Nat
  BY DEF BufferOK
<1>4. HexColumn \in Seq(Codes) /\ Len(HexColumn) = 3 * ROW
  BY <1>2, <1>3
<1>5. ASSUME NEW i \in 1..ROW
      PROVE  HexColumn[3 * i - 2] = HexPair(i)[1] /\ HexColumn[3 * i - 1] = HexPair(i)[2]
  <2>1. /\ 3 * i - 2 \in 1..(3 * ROW) /\ 3 * i - 1 \in 1..(3 * ROW)
        /\ ((3 * i - 2) + 2) \div 3 = i /\ 1 + (((3 * i - 2) - 1) % 3) = 1
        /\ ((3 * i - 1) + 2) \div 3 = i /\ 1 + (((3 * i - 1) - 1) % 3) = 2
    BY <1>3
  <2>2. HexColumn[3 * i - 2] = HexPair(((3 * i - 2) + 2) \div 3)[1 + (((3 * i - 2) - 1) % 3)]
    BY <2>1 DEF HexColumn
  <2>3. HexColumn[3 * i - 1] = HexPair(((3 * i - 1) + 2) \div 3)[1 + (((3 * i - 1) - 1) % 3)]
    BY <2>1 DEF HexColumn
  <2> QED BY <2>1, <2>2, <2>3
<1> QED BY <1>4, <1>5

(* The text is what was read; a row for a failed read has none of it, but   *)
(* the first blank of the buffer.                                           *)
LEMMA TextIs ==
  ASSUME ReadOK
  PROVE  /\ hex_write_string(dataPrint) \in Seq(Codes)
         /\ numDataRead > 0 =>
              hex_write_string(dataPrint) = [i \in 1..numDataRead |-> hex_to_printable(data[i])]
<1> DEFINE t == dataPrint
           w == hex_write_string(t)
<1>0. ROW \in Nat \ {0} /\ numDataRead \in Int /\ numDataRead <= ROW
  BY DEF ReadOK, BufferOK
<1>1. t \in Seq(Codes) /\ Len(t) = ROW + 1
  <2>1. ASSUME NEW i \in 1..(ROW + 1) PROVE t[i] \in Codes
    <3>1. Space \in Codes /\ NUL \in Codes
      BY DEF Space, NUL, Codes
    <3>2. CASE i <= numDataRead
      <4>1. data[i] \in Codes
        BY <1>0, <3>2 DEF ReadOK, BufferOK
      <4>2. t[i] = hex_to_printable(data[i])
        BY <1>0, <3>2 DEF dataPrint
      <4> QED BY <4>1, <4>2, PrintableIs
    <3>3. CASE ~(i <= numDataRead)
      BY <3>1, <3>3 DEF dataPrint
    <3> QED BY <3>2, <3>3
  <2>2. t = [i \in 1..(ROW + 1) |-> t[i]]
    BY DEF dataPrint
  <2> HIDE DEF t
  <2> QED BY <1>0, <2>1, <2>2
<1>2. CASE numDataRead > 0
  <2> DEFINE n == numDataRead
  <2>1. n \in Nat /\ n < Len(t) /\ n + 1 \in 1..(ROW + 1)
    BY <1>0, <1>1, <1>2
  <2>2. t[n + 1] = NUL
    BY <1>0, <2>1 DEF dataPrint
  <2>3. ASSUME NEW j \in 1..n PROVE t[j] = hex_to_printable(data[j]) /\ t[j] # NUL
    <3>1. j \in 1..ROW /\ j \in 1..(ROW + 1) /\ j <= n
      BY <1>0
    <3>2. t[j] = hex_to_printable(data[j])
      BY <1>0, <3>1 DEF dataPrint
    <3> QED BY <3>1, <3>2, PrintableIs DEF ReadOK, BufferOK
  <2> HIDE DEF n, t
  <2>4. w \in Seq(Codes) /\ Len(w) = n /\ \A j \in 1..n : w[j] = t[j]
    BY <1>1, <2>1, <2>2, <2>3, WrittenIs
  <2> HIDE DEF w
  <2>5. w = [i \in 1..n |-> hex_to_printable(data[i])]
    BY <2>1, <2>3, <2>4
  <2> QED BY <2>4, <2>5 DEF w, t, n
<1>3. CASE numDataRead = -1 /\ main = "c"
  <2>1. t[1] = Space /\ t[1 + 1] = NUL
    BY <1>0, <1>3 DEF dataPrint
  <2>2. 1 < Len(t) /\ \A j \in 1..1 : t[j] # NUL
    BY <1>0, <1>1, <2>1 DEF Space, NUL
  <2> HIDE DEF t
  <2>3. w \in Seq(Codes)
    BY <1>1, <2>1, <2>2, WrittenIs
  <2> QED BY <1>3, <2>3 DEF w, t
<1> QED BY <1>2, <1>3 DEF ReadOK, BufferOK

LEMMA Joined ==
  ASSUME NEW a \in Seq(Codes), NEW b \in Seq(Codes)
  PROVE  /\ a \o b \in Seq(Codes) /\ Len(a \o b) = Len(a) + Len(b)
         /\ \A i \in 1..Len(a) : (a \o b)[i] = a[i]
         /\ \A j \in 1..Len(b) : (a \o b)[Len(a) + j] = b[j]
<1>1. a \o b \in Seq(Codes) /\ Len(a \o b) = Len(a) + Len(b)
      /\ \A i \in 1..Len(a) + Len(b) : (a \o b)[i] = IF i <= Len(a) THEN a[i] ELSE b[i - Len(a)]
  BY ConcatProperties
<1> DEFINE c == a \o b
           m == Len(a)
           n == Len(b)
<1>2. m \in Nat /\ n \in Nat /\ \A i \in 1..(m + n) : c[i] = IF i <= m THEN a[i] ELSE b[i - m]
  BY <1>1
<1> HIDE DEF c, m, n
<1>3. ASSUME NEW i \in 1..m PROVE c[i] = a[i]
  BY <1>2, i \in 1..(m + n)
<1>4. ASSUME NEW j \in 1..n PROVE c[m + j] = b[j]
  BY <1>2, m + j \in 1..(m + n), (m + j) - m = j
<1> QED BY <1>1, <1>3, <1>4 DEF c, m, n

LEMMA RowIs ==
  ASSUME ReadOK
  PROVE  /\ Row \in Seq(Codes) /\ Row # << >>
         /\ \A i \in 1..ROW :
              Row[PairColumn(i)] = HexPair(i)[1] /\ Row[PairColumn(i) + 1] = HexPair(i)[2]
         /\ numDataRead > 0 =>
              TextShown(Row) = [i \in 1..numDataRead |-> hex_to_printable(data[i])]
<1> DEFINE A == <<58, Space>>
           H == HexColumn
           E == IF numDataRead < 0 THEN Spaces(3) ELSE << >>
           B == <<Space>>
           X == hex_write_string(dataPrint)
           r1 == place \o A
           r2 == r1 \o H
           r3 == r2 \o E
           r4 == r3 \o B
           n == 2 * OffsetBytes
<1>1. ROW \in Nat \ {0} /\ n \in Nat \ {0} /\ numDataRead \in Int
  BY DEF ReadOK, BufferOK
<1>2. place \in Seq(Codes) /\ Len(place) = n
  BY <1>1 DEF ReadOK, BufferOK
<1>3. A \in Seq(Codes) /\ Len(A) = 2 /\ B \in Seq(Codes) /\ Len(B) = 1
  BY DEF Codes, Space
<1>4. E \in Seq(Codes) /\ (numDataRead > 0 => Len(E) = 0)
  <2>1. Spaces(3) \in Seq(Codes)
    BY DEF Spaces, Space, Codes
  <2> QED BY <1>1, <2>1
<1>5. H \in Seq(Codes) /\ Len(H) = 3 * ROW /\ X \in Seq(Codes)
  BY HexColumnIs, TextIs DEF ReadOK
<1>6. Row = r4 \o X
  BY DEF Row
<1> HIDE DEF A, H, E, B, X, n
<1>7. r1 \in Seq(Codes) /\ Len(r1) = n + 2
  <2>1. r1 \in Seq(Codes) /\ Len(r1) = Len(place) + Len(A)
    BY <1>2, <1>3, Joined, Zenon
  <2> QED BY <1>2, <1>3, <2>1
<1> HIDE DEF r1
<1>8. /\ r2 \in Seq(Codes) /\ Len(r2) = (n + 2) + 3 * ROW
      /\ \A j \in 1..(3 * ROW) : r2[(n + 2) + j] = H[j]
  <2>1. r2 \in Seq(Codes) /\ Len(r2) = (n + 2) + 3 * ROW
    BY <1>5, <1>7, Joined
  <2>2. \A j \in 1..Len(H) : r2[Len(r1) + j] = H[j]
    BY <1>5, <1>7, Joined
  <2> QED BY <1>5, <1>7, <2>1, <2>2
<1> HIDE DEF r2
<1>9. r3 \in Seq(Codes) /\ Len(r3) = Len(r2) + Len(E) /\ \A c \in 1..Len(r2) : r3[c] = r2[c]
  BY <1>4, <1>8, Joined, Zenon
<1> HIDE DEF r3
<1>10. r4 \in Seq(Codes) /\ Len(r4) = Len(r3) + 1 /\ \A c \in 1..Len(r3) : r4[c] = r3[c]
  <2>1. r4 \in Seq(Codes) /\ Len(r4) = Len(r3) + Len(B) /\ \A c \in 1..Len(r3) : r4[c] = r3[c]
    BY <1>3, <1>9, Joined, Zenon
  <2> QED BY <1>3, <2>1
<1> HIDE DEF r4
<1>11. /\ Row \in Seq(Codes) /\ Len(Row) = Len(r4) + Len(X)
       /\ \A c \in 1..Len(r4) : Row[c] = r4[c]
       /\ \A j \in 1..Len(X) : Row[Len(r4) + j] = X[j]
  <2>1. /\ r4 \o X \in Seq(Codes) /\ Len(r4 \o X) = Len(r4) + Len(X)
        /\ \A c \in 1..Len(r4) : (r4 \o X)[c] = r4[c]
        /\ \A j \in 1..Len(X) : (r4 \o X)[Len(r4) + j] = X[j]
    BY <1>5, <1>10, Joined, Zenon
  <2> QED BY <1>6, <2>1, Zenon
<1>12. ASSUME NEW c \in 1..Len(r2) PROVE Row[c] = r2[c]
  <2>1. Len(r2) \in Nat /\ Len(E) \in Nat
    BY <1>4, <1>8
  <2>2. c \in 1..Len(r3) /\ c \in 1..Len(r4)
    BY <1>9, <1>10, <2>1
  <2> QED BY <1>9, <1>10, <1>11, <2>2
<1>13. Row # << >>
  BY <1>4, <1>5, <1>8, <1>9, <1>10, <1>11
<1>14. ASSUME NEW i \in 1..ROW
       PROVE  Row[PairColumn(i)] = HexPair(i)[1] /\ Row[PairColumn(i) + 1] = HexPair(i)[2]
  <2>1. PairColumn(i) = (n + 2) + (3 * i - 2) /\ PairColumn(i) + 1 = (n + 2) + (3 * i - 1)
    BY <1>1 DEF PairColumn, n
  <2>2. 3 * i - 2 \in 1..(3 * ROW) /\ 3 * i - 1 \in 1..(3 * ROW)
        /\ PairColumn(i) \in 1..Len(r2) /\ PairColumn(i) + 1 \in 1..Len(r2)
    BY <1>1, <1>8, <2>1
  <2>3. Row[PairColumn(i)] = H[3 * i - 2] /\ Row[PairColumn(i) + 1] = H[3 * i - 1]
    BY <1>8, <1>12, <2>1, <2>2
  <2> QED BY <2>3, HexColumnIs DEF H, ReadOK
<1>15. ASSUME numDataRead > 0 PROVE TextShown(Row) = X
  <2> DEFINE t == TextShown(Row)
  <2>1. TextColumn = Len(r4) + 1
    <3>1. Len(r4) = ((n + 2) + 3 * ROW) + 1
      BY <1>1, <1>4, <1>8, <1>9, <1>10, <1>15
    <3> QED BY <1>1, <3>1 DEF TextColumn, PairColumn, n
  <2>2. Len(r4) \in Nat /\ Len(X) \in Nat
    BY <1>5, <1>10
  <2>3. t = SubSeq(Row, Len(r4) + 1, Len(r4) + Len(X))
    BY <1>11, <2>1 DEF TextShown
  <2>4. Len(t) = Len(X)
    BY <1>11, <2>2, <2>3, SubSeqProperties
  <2>5. \A j \in 1..Len(X) : t[j] = Row[Len(r4) + j]
    <3>1. 1..Len(X) = 1..(((Len(r4) + Len(X)) - (Len(r4) + 1)) + 1)
      BY <2>2
    <3> QED BY <1>11, <2>2, <2>3, <3>1, SubSeqProperties
  <2>6. t \in Seq(Codes)
    BY <1>11, <2>2, <2>3, SubSeqProperties
  <2> HIDE DEF t
  <2>7. t = X
    BY <1>5, <1>11, <2>4, <2>5, <2>6
  <2> QED BY <2>7 DEF t
<1> QED BY <1>11, <1>13, <1>14, <1>15, TextIs DEF X

(* What a reader finds in the row is what was read, in both columns.        *)
LEMMA ShownIs ==
  ASSUME ReadOK
  PROVE  LET k == IF numDataRead > 0 THEN numDataRead ELSE 0
         IN  /\ k \in 0..ROW
             /\ PairsShown(Row) = 1..k
             /\ Cardinality(PairsShown(Row)) = k
             /\ HexShown(Row) = [i \in 1..k |-> data[i]]
<1> DEFINE k == IF numDataRead > 0 THEN numDataRead ELSE 0
<1>1. ROW \in Nat /\ k \in 0..ROW /\ \A i \in 1..ROW : i <= PairsWritten <=> i <= k
  BY DEF ReadOK, BufferOK, PairsWritten
<1> USE DEF ReadOK
<1>2. ASSUME NEW i \in 1..ROW
      PROVE  /\ i <= k => /\ Row[PairColumn(i)] # Space
                          /\ 16 * HexValue(Row[PairColumn(i)]) + HexValue(Row[PairColumn(i) + 1]) = data[i]
             /\ ~(i <= k) => Row[PairColumn(i)] = Space
  <2>1. Row[PairColumn(i)] = HexPair(i)[1] /\ Row[PairColumn(i) + 1] = HexPair(i)[2]
    BY RowIs
  <2>2. CASE i <= k
    <3> DEFINE h == data[i] \div 16
               l == data[i] % 16
    <3>1. h \in 0..15 /\ l \in 0..15 /\ 16 * h + l = data[i]
      BY ByteParts DEF ReadOK, BufferOK
    <3>2. Row[PairColumn(i)] = Digit(h) /\ Row[PairColumn(i) + 1] = Digit(l)
      BY <1>1, <2>1, <2>2, HexPairIs
    <3> HIDE DEF h, l
    <3> QED BY <2>2, <3>1, <3>2, DigitIs
  <2>3. CASE ~(i <= k)
    BY <1>1, <2>1, <2>3, HexPairIs
  <2> QED BY <2>2, <2>3
<1> HIDE DEF k
<1>3. PairsShown(Row) = 1..k
  BY <1>1, <1>2 DEF PairsShown
<1>4. Cardinality(1..k) = k
  BY <1>1, FS_Interval
<1>5. HexShown(Row) = [i \in 1..k |-> data[i]]
  <2>1. \A i \in 1..k : 16 * HexValue(Row[PairColumn(i)]) + HexValue(Row[PairColumn(i) + 1]) = data[i]
    BY <1>1, <1>2
  <2> QED BY <1>3, <2>1 DEF HexShown
<1> QED BY <1>1, <1>3, <1>4, <1>5 DEF k
-----------------------------------------------------------------------------
(* The digits of an offset *)

LEMMA DivDiv ==
  ASSUME NEW n \in Nat, NEW t \in Nat \ {0}, NEW g \in Nat \ {0}
  PROVE  n \div (t * g) = (n \div t) \div g
<1> DEFINE q == n \div t
           r == n % t
           a == q \div g
           b == q % g
<1>1. q \in Int /\ r \in 0..(t - 1) /\ n = t * q + r
  BY DivMod, n \in Int
<1>2. a \in Int /\ b \in 0..(g - 1) /\ q = g * a + b
  <2> HIDE DEF q
  <2> QED BY <1>1, DivMod
<1> HIDE DEF q, r, a, b
<1> DEFINE s == r + t * b
           m == t * g
<1>3. m \in Nat \ {0} /\ s \in 0..(m - 1)
  <2>1. m \in Nat \ {0}
    BY Grows
  <2>2. s \in 0..(m - 1)
    BY <1>1, <1>2, HornerBound
  <2> QED BY <2>1, <2>2
<1>4. n = m * a + s
  <2>1. t * q = t * (g * a) + t * b /\ t * (g * a) = m * a
    BY <1>2
  <2>2. t * (g * a) \in Int /\ t * b \in Int
    BY <1>2
  <2> QED BY <1>1, <2>1, <2>2
<1>5. n \div m = a
  <2> HIDE DEF m, s
  <2> QED BY <1>2, <1>3, <1>4, DivModIs, n \in Int
<1> QED BY <1>5 DEF m, a, q

(* a remainder by a product, made of the remainders by its factors *)
RemainderSplits(x, g, m) == x % (g * m) = g * ((x \div g) % m) + (x % g)

LEMMA RemainderOfQuotient ==
  ASSUME NEW x \in Nat, NEW g \in Nat \ {0}, NEW m \in Nat \ {0}
  PROVE  RemainderSplits(x, g, m)
<1> DEFINE q == x \div g
           r == x % g
           a == q \div m
           b == q % m
<1>1. q \in Int /\ r \in 0..(g - 1) /\ x = g * q + r
  BY DivMod, x \in Int
<1>2. a \in Int /\ b \in 0..(m - 1) /\ q = m * a + b
  <2> HIDE DEF q
  <2> QED BY <1>1, DivMod
<1> HIDE DEF q, r, a, b
<1> DEFINE n == g * m
           s == r + g * b
<1>3. n \in Nat \ {0} /\ s \in 0..(n - 1)
  <2>1. n \in Nat \ {0}
    BY Grows
  <2>2. s \in 0..(n - 1)
    BY <1>1, <1>2, HornerBound
  <2> QED BY <2>1, <2>2
<1>4. x = n * a + s
  <2>1. g * q = g * (m * a) + g * b /\ g * (m * a) = n * a
    BY <1>2
  <2>2. g * (m * a) \in Int /\ g * b \in Int
    BY <1>2
  <2> QED BY <1>1, <2>1, <2>2
<1>5. x % n = s
  <2> HIDE DEF n, s
  <2> QED BY <1>2, <1>3, <1>4, DivModIs, x \in Int
<1> QED BY <1>1, <1>2, <1>5 DEF n, s, b, q, r, RemainderSplits

(* what is multiplied before a division and a remainder                     *)
ScaleOut(x, a, m) ==
  (x * a) % (a * m) = a * (x % m) /\ (a * x) \div (a * m) = x \div m

LEMMA Scaled ==
  ASSUME NEW x \in Nat, NEW a \in Nat \ {0}, NEW m \in Nat \ {0}
  PROVE  ScaleOut(x, a, m)
<1> DEFINE q == x \div m
           r == x % m
           n == a * m
           s == a * r
<1>1. q \in Int /\ r \in 0..(m - 1) /\ x = m * q + r
  BY DivMod, x \in Int
<1> HIDE DEF q, r
<1>2. n \in Nat \ {0}
  BY Grows
<1>3. s \in 0..(n - 1)
  <2>1. 0 + a * r \in 0..(a * m - 1)
    <3>1. 0 \in 0..(a - 1)
      OBVIOUS
    <3> QED BY <1>1, <3>1, HornerBound
  <2>2. 0 + a * r = a * r
    BY <1>1
  <2> QED BY <2>1, <2>2
<1>4. a * x = n * q + s /\ x * a = a * x /\ a * x \in Int
  <2>1. a * (m * q + r) = a * (m * q) + a * r /\ a * (m * q) = n * q
    BY <1>1
  <2> QED BY <1>1, <2>1
<1>5. (a * x) \div n = q /\ (a * x) % n = s
  <2> DEFINE y == a * x
  <2>1. y \in Int /\ y = n * q + s
    BY <1>4
  <2> HIDE DEF y, n, s
  <2>2. y \div n = q /\ y % n = s
    BY <1>1, <1>2, <1>3, <2>1, DivModIs
  <2> QED BY <2>2 DEF y
<1> QED BY <1>4, <1>5 DEF n, s, q, r, ScaleOut

LEMMA CountLimitIs ==
  \E spare \in Nat : CountLimit = Bytes[OffsetBytes + spare]
<1>1. OffsetBytes \in Nat /\ SpareBytes \in Nat /\ OffsetBytes + 0 = OffsetBytes
  BY SizesAssumption
<1>2. CASE main = "c"
  BY <1>1, <1>2 DEF CountLimit
<1>3. CASE main # "c"
  BY <1>1, <1>3 DEF CountLimit
<1> QED BY <1>2, <1>3

LEMMA CountLimitType == CountLimit \in Nat \ {0}
<1>1. PICK spare \in Nat : CountLimit = Bytes[OffsetBytes + spare]
  BY CountLimitIs
<1>2. OffsetBytes + spare \in Nat
  BY SizesAssumption
<1> QED BY <1>1, <1>2, BytesLaws

(* the k-th of the bytes from the top, shifted into place in a wider        *)
(* register or not                                                          *)
LEMMA TopByteIs ==
  ASSUME NEW offset \in Nat, NEW k \in 1..OffsetBytes
  PROVE  /\ TopByte(offset, k) = (offset \div Bytes[OffsetBytes - k]) % 256
         /\ TopByte(offset, k) \in Codes
<1>1. PICK spare \in Nat : CountLimit = Bytes[OffsetBytes + spare]
  BY CountLimitIs
<1> DEFINE a == Bytes[k - 1]
           b == Bytes[OffsetBytes - k]
           c == Bytes[spare]
           m == b * (256 * c)
<1>2. OffsetBytes \in Nat /\ k - 1 \in Nat /\ OffsetBytes - k \in Nat /\ k \in Nat
  BY SizesAssumption
<1>3. a \in Nat \ {0} /\ b \in Nat \ {0} /\ c \in Nat \ {0}
  BY <1>1, <1>2, BytesLaws
<1>4. CountLimit = a * m
  <2>1. (OffsetBytes - k) + (spare + 1) \in Nat /\ spare + 1 \in Nat
        /\ (k - 1) + ((OffsetBytes - k) + (spare + 1)) = OffsetBytes + spare
    BY <1>1, <1>2
  <2>2. Bytes[spare + 1] = 256 * c
    BY <1>1, BytesLaws
  <2>3. Bytes[(OffsetBytes - k) + (spare + 1)] = m
    BY <1>2, <2>1, <2>2, BytesSum
  <2>4. Bytes[(k - 1) + ((OffsetBytes - k) + (spare + 1))] = a * Bytes[(OffsetBytes - k) + (spare + 1)]
    BY <1>2, <2>1, BytesSum
  <2> QED BY <1>1, <2>1, <2>3, <2>4
<1>5. Bytes[OffsetBytes - 1] = a * b
  <2>1. (k - 1) + (OffsetBytes - k) = OffsetBytes - 1
    BY <1>2
  <2>2. Bytes[(k - 1) + (OffsetBytes - k)] = a * b
    BY <1>2, BytesSum
  <2> QED BY <2>1, <2>2
<1>6. 256 * c \in Nat \ {0} /\ m \in Nat \ {0}
  <2> DEFINE d == 256 * c
  <2>1. d \in Nat \ {0}
    BY <1>3
  <2> HIDE DEF d, b
  <2>2. b * d \in Nat \ {0}
    BY <1>3, <2>1, Grows
  <2> QED BY <2>1, <2>2 DEF d
<1>7. TopByte(offset, k) = (((offset * a) % (a * m)) \div (a * b)) % 256
  BY <1>4, <1>5 DEF TopByte, Shifted
<1> DEFINE y == offset % m
<1>8. y \in Nat
  <2>1. offset \in Int
    OBVIOUS
  <2> HIDE DEF m
  <2>2. y \in 0..(m - 1)
    BY <1>6, <2>1, DivMod
  <2> QED BY <2>2
<1>9. (offset * a) % (a * m) = a * y
  <2> HIDE DEF a, m
  <2>1. ScaleOut(offset, a, m)
    BY <1>3, <1>6, Scaled
  <2> QED BY <2>1 DEF ScaleOut
<1>10. (a * y) \div (a * b) = y \div b
  <2> HIDE DEF a, b, y
  <2>1. ScaleOut(y, a, b)
    BY <1>3, <1>8, Scaled
  <2> QED BY <2>1 DEF ScaleOut
<1>11. (y \div b) % 256 = (offset \div b) % 256
  <2> DEFINE d == 256 * c
             q == offset \div b
  <2>1. q \in Nat
    <3>1. offset \in Int
      OBVIOUS
    <3> HIDE DEF b
    <3>2. q \in Int /\ offset % b \in 0..(b - 1) /\ offset = b * q + (offset % b)
      BY <1>3, <3>1, DivMod
    <3> DEFINE r == offset % b
    <3> HIDE DEF q, r
    <3>3. ~(q < 0)
      <4> SUFFICES ASSUME q < 0 PROVE FALSE
        OBVIOUS
      <4>1. b * (-q) >= b
        BY <1>3, <3>2, Grows, -q \in Nat \ {0}
      <4>2. b * (-q) = -(b * q)
        BY <1>3, <3>2
      <4>3. r \in 0..(b - 1) /\ offset = b * q + r
        BY <3>2 DEF r
      <4> QED BY <1>3, <3>2, <4>1, <4>2, <4>3
    <3> QED BY <3>2, <3>3
  <2>2. y \div b = q % d
    <3>1. y = b * (q % d) + (offset % b)
      <4> HIDE DEF b, d
      <4>1. RemainderSplits(offset, b, d)
        BY <1>3, <1>6, RemainderOfQuotient DEF d
      <4> QED BY <4>1 DEF d, RemainderSplits
    <3>2. offset % b \in 0..(b - 1)
      <4>1. offset \in Int
        OBVIOUS
      <4> HIDE DEF b
      <4> QED BY <1>3, <4>1, DivMod
    <3>3. q % d \in Int
      <4> HIDE DEF q, d
      <4>1. q \in Int /\ d \in Nat \ {0}
        BY <1>6, <2>1 DEF d
      <4> QED BY <4>1, DivMod
    <3> DEFINE u == q % d
               v == offset % b
    <3>4. u \in Int /\ v \in 0..(b - 1) /\ y = b * u + v /\ y \in Int
      BY <1>8, <3>1, <3>2, <3>3
    <3> HIDE DEF u, v, y, b
    <3>5. y \div b = u
      BY <1>3, <3>4, DivModIs
    <3> QED BY <3>5 DEF u
  <2>3. (q % d) % 256 = q % 256
    <3> HIDE DEF q
    <3>1. q % (256 * c) = 256 * ((q \div 256) % c) + (q % 256)
      <4> HIDE DEF c
      <4>1. RemainderSplits(q, 256, c)
        BY <1>3, <2>1, 256 \in Nat \ {0}, RemainderOfQuotient
      <4> QED BY <4>1 DEF RemainderSplits
    <3> DEFINE u == (q \div 256) % c
               v == q % 256
               e == q % d
    <3>2. u \in Int /\ v \in 0..(256 - 1)
      <4>1. q \div 256 \in Int /\ v \in 0..(256 - 1)
        <5>1. q \in Int /\ 256 \in Nat \ {0}
          BY <2>1
        <5> QED BY <5>1, DivMod
      <4> DEFINE w == q \div 256
      <4>2. w \in Int
        BY <4>1
      <4> HIDE DEF w, c
      <4>3. w % c \in 0..(c - 1)
        BY <1>3, <4>2, DivMod
      <4> QED BY <1>3, <4>1, <4>3 DEF w
    <3>3. e = 256 * u + v
      BY <3>1
    <3> HIDE DEF u, v, e
    <3>4. e % 256 = v
      <4>1. e \in Int /\ 256 \in Nat \ {0}
        BY <3>2, <3>3
      <4> QED BY <3>2, <3>3, <4>1, DivModIs
    <3> QED BY <3>4 DEF e, v
  <2> QED BY <2>2, <2>3
<1>12. TopByte(offset, k) = (offset \div b) % 256
  BY <1>7, <1>9, <1>10, <1>11
<1>13. (y \div b) % 256 \in Codes
  <2> DEFINE z == y \div b
  <2>1. z \in Int
    <3>1. y \in Int
      BY <1>8
    <3> HIDE DEF y, b
    <3> QED BY <1>3, <3>1, DivMod
  <2> HIDE DEF z
  <2>2. z % 256 \in 0..(256 - 1)
    <3>1. 256 \in Nat \ {0}
      OBVIOUS
    <3> QED BY <2>1, <3>1, DivMod
  <2>3. z % 256 \in Codes
    BY <2>2 DEF Codes
  <2> QED BY <2>3 DEF z
<1> QED BY <1>11, <1>12, <1>13

LEMMA OffsetDigits ==
  ASSUME NEW offset \in Nat
  PROVE  /\ hex_format_offset(offset) \in [1..(2 * OffsetBytes) -> Codes]
         /\ \A k \in 1..OffsetBytes :
              /\ hex_format_offset(offset)[2 * k - 1] = Digit(TopByte(offset, k) \div 16)
              /\ hex_format_offset(offset)[2 * k] = Digit(TopByte(offset, k) % 16)
<1> DEFINE f == hex_format_offset(offset)
<1>1. OffsetBytes \in Nat
  BY SizesAssumption
<1>2. ASSUME NEW d \in 1..(2 * OffsetBytes)
      PROVE  /\ (d + 1) \div 2 \in 1..OffsetBytes
             /\ 1 + ((d - 1) % 2) \in 1..2
  BY <1>1
<1>3. ASSUME NEW b \in Codes
      PROVE  /\ hex_format_byte_as_hex(b)[1] = Digit(b \div 16)
             /\ hex_format_byte_as_hex(b)[2] = Digit(b % 16)
             /\ \A j \in 1..2 : hex_format_byte_as_hex(b)[j] \in Codes
  <2>1. hex_format_byte_as_hex(b) = <<Digit(b \div 16), Digit(b % 16), NUL>>
    BY DEF hex_format_byte_as_hex
  <2>2. Digit(b \div 16) \in Codes /\ Digit(b % 16) \in Codes
    BY ByteParts, DigitIs
  <2> QED BY <2>1, <2>2
<1>4. f \in [1..(2 * OffsetBytes) -> Codes]
  BY <1>2, <1>3, TopByteIs DEF hex_format_offset
<1>5. ASSUME NEW k \in 1..OffsetBytes
      PROVE  f[2 * k - 1] = Digit(TopByte(offset, k) \div 16) /\ f[2 * k] = Digit(TopByte(offset, k) % 16)
  <2>1. /\ 2 * k - 1 \in 1..(2 * OffsetBytes) /\ 2 * k \in 1..(2 * OffsetBytes)
        /\ ((2 * k - 1) + 1) \div 2 = k /\ 1 + (((2 * k - 1) - 1) % 2) = 1
        /\ (2 * k + 1) \div 2 = k /\ 1 + ((2 * k - 1) % 2) = 2
    BY <1>1
  <2>2. f[2 * k - 1] = hex_format_byte_as_hex(TopByte(offset, ((2 * k - 1) + 1) \div 2))[1 + (((2 * k - 1) - 1) % 2)]
    BY <2>1 DEF hex_format_offset
  <2>3. f[2 * k] = hex_format_byte_as_hex(TopByte(offset, (2 * k + 1) \div 2))[1 + ((2 * k - 1) % 2)]
    BY <2>1 DEF hex_format_offset
  <2>4. TopByte(offset, k) \in Codes
    BY TopByteIs
  <2> QED BY <1>3, <2>1, <2>2, <2>3, <2>4
<1> QED BY <1>4, <1>5

LEMMA NumbersAre ==
  ASSUME NEW s \in Seq(Codes)
  PROVE  /\ Numbers(s)[0] = 0
         /\ \A k \in 0..(Len(s) - 1) : Numbers(s)[k + 1] = 16 * Numbers(s)[k] + HexValue(s[k + 1])
<1> DEFINE n == Len(s)
           step == [k \in 1..n |-> [x \in Int |-> 16 * x + HexValue(s[k])]]
           number == Numbers(s)
<1>0. n \in Nat /\ \A k \in 1..n : HexValue(s[k]) \in Int
  <2>1. n \in Nat /\ \A k \in 1..n : s[k] \in Codes
    OBVIOUS
  <2> HIDE DEF n
  <2>2. ASSUME NEW d \in Codes PROVE HexValue(d) \in Int
    BY DEF HexValue, Codes
  <2> QED BY <2>1, <2>2
<1>1. step \in [1..n -> [Int -> Int]]
  <2> HIDE DEF n
  <2>1. \A k \in 1..n, x \in Int : 16 * x + HexValue(s[k]) \in Int
    BY <1>0
  <2> QED BY <2>1
<1>2. PICK f \in [0..n -> Int] : FollowsTo(f, 0, step, n)
  <2>1. n \in Nat /\ 0 \in Int
    BY <1>0
  <2> HIDE DEF step, n
  <2> QED BY <1>1, <2>1, Recursion
<1>3. f = [k \in 0..n |-> IF k = 0 THEN 0 ELSE 16 * f[k - 1] + HexValue(s[k])]
  <2> HIDE DEF n
  <2>1. ASSUME NEW k \in 0..n
        PROVE  f[k] = IF k = 0 THEN 0 ELSE 16 * f[k - 1] + HexValue(s[k])
    <3>1. f[k] = IF k = 0 THEN 0 ELSE step[k][f[k - 1]]
      BY <1>2 DEF FollowsTo, Follows
    <3>2. k # 0 => k \in 1..n /\ f[k - 1] \in Int
      BY <1>0
    <3> QED BY <3>1, <3>2
  <2> QED BY <2>1
<1>4. number = [k \in 0..n |-> IF k = 0 THEN 0 ELSE 16 * number[k - 1] + HexValue(s[k])]
  BY <1>3 DEF Numbers
<1> HIDE DEF number, n
<1>5. number[0] = 0
  BY <1>4, <1>0
<1>6. ASSUME NEW k \in 0..(n - 1)
      PROVE  number[k + 1] = 16 * number[k] + HexValue(s[k + 1])
  <2>1. k + 1 \in 0..n /\ k + 1 # 0 /\ (k + 1) - 1 = k
    BY <1>0
  <2> QED BY <1>4, <2>1
<1> QED BY <1>5, <1>6 DEF number, n

(* the digits are those of the offset, as far as they go                    *)
LEMMA OffsetIs ==
  ASSUME NEW offset \in Nat
  PROVE  OffsetShown(hex_format_offset(offset)) = offset % Bytes[OffsetBytes]
<1> DEFINE f == hex_format_offset(offset)
           n == OffsetBytes
           number == Numbers(f)
           P(k) == number[2 * k] = (offset \div Bytes[n - k]) % Bytes[k]
           T == {k \in Nat : k <= n => P(k)}
<1>1. n \in Nat
  BY SizesAssumption
<1>2. f \in Seq(Codes) /\ Len(f) = 2 * n
  <2>1. f \in [1..(2 * n) -> Codes] /\ 2 * n \in Nat
    BY <1>1, OffsetDigits
  <2> HIDE DEF f
  <2> QED BY <2>1
<1> HIDE DEF n
<1>3. ASSUME NEW j \in 0..n
      PROVE  offset \div Bytes[j] \in Nat /\ Bytes[j] \in Nat \ {0}
  <2> DEFINE b == Bytes[j]
             q == offset \div b
             r == offset % b
  <2>1. b \in Nat \ {0}
    BY BytesLaws
  <2> HIDE DEF b
  <2>2. q \in Int /\ r \in 0..(b - 1) /\ offset = b * q + r
    <3>1. offset \in Int
      OBVIOUS
    <3> QED BY <2>1, <3>1, DivMod
  <2> HIDE DEF q, r
  <2>3. ~(q < 0)
    <3> SUFFICES ASSUME q < 0 PROVE FALSE
      OBVIOUS
    <3>1. b * (-q) >= b
      BY <2>1, <2>2, Grows, -q \in Nat \ {0}
    <3>2. b * (-q) = -(b * q)
      BY <2>1, <2>2
    <3> QED BY <2>1, <2>2, <3>1, <3>2
  <2> QED BY <2>1, <2>2, <2>3 DEF q, b
<1>4. 0 \in T
  <2>1. number[2 * 0] = 0
    BY <1>2, NumbersAre
  <2>2. Bytes[0] = 1 /\ n - 0 \in 0..n
    BY <1>1, BytesLaws
  <2> DEFINE x == offset \div Bytes[n - 0]
  <2>3. x \in Nat
    BY <1>3, <2>2
  <2> HIDE DEF x
  <2>4. x % 1 = 0
    BY <2>3
  <2> QED BY <2>1, <2>2, <2>4 DEF x
<1>5. ASSUME NEW k \in Nat, k \in T PROVE k + 1 \in T
  <2> SUFFICES ASSUME k + 1 <= n PROVE P(k + 1)
    OBVIOUS
  <2> DEFINE j == n - (k + 1)
             x == offset \div Bytes[j]
             b == TopByte(offset, k + 1)
             m == Bytes[k]
  <2>1. j \in 0..n /\ n - k = j + 1 /\ k + 1 \in 1..n /\ k <= n /\ j \in Nat
    BY <1>1
  <2>2. x \in Nat /\ Bytes[j] \in Nat \ {0} /\ m \in Nat \ {0}
        /\ Bytes[j + 1] = 256 * Bytes[j] /\ Bytes[k + 1] = 256 * m
    BY <1>3, <2>1, BytesLaws
  <2>3. b = x % 256 /\ b \in Codes
    BY <2>1, TopByteIs DEF n
  <2>4. f[2 * (k + 1) - 1] = Digit(b \div 16) /\ f[2 * (k + 1)] = Digit(b % 16)
    BY <2>1, OffsetDigits DEF n
  <2>5. number[2 * k + 1] = 16 * number[2 * k] + HexValue(f[2 * k + 1])
    <3>1. 2 * k \in 0..(Len(f) - 1)
      BY <1>1, <1>2
    <3> HIDE DEF f
    <3> QED BY <1>2, <3>1, NumbersAre
  <2>6. number[(2 * k + 1) + 1] = 16 * number[2 * k + 1] + HexValue(f[(2 * k + 1) + 1])
    <3>1. 2 * k + 1 \in 0..(Len(f) - 1)
      BY <1>1, <1>2
    <3> HIDE DEF f
    <3> QED BY <1>2, <3>1, NumbersAre
  <2>7. b \div 16 \in 0..15 /\ b % 16 \in 0..15 /\ 16 * (b \div 16) + (b % 16) = b
    <3> HIDE DEF b
    <3> QED BY <2>3, ByteParts
  <2>8. HexValue(f[2 * k + 1]) = b \div 16 /\ HexValue(f[(2 * k + 1) + 1]) = b % 16
    <3> HIDE DEF b, f
    <3>1. 2 * (k + 1) - 1 = 2 * k + 1 /\ 2 * (k + 1) = (2 * k + 1) + 1
      OBVIOUS
    <3> QED BY <2>4, <2>7, <3>1, DigitIs
  <2>9. number[2 * k] = (offset \div (256 * Bytes[j])) % m
    <3> HIDE DEF number
    <3> QED BY <1>5, <2>1, <2>2
  <2>10. offset \div (256 * Bytes[j]) = x \div 256
    <3> DEFINE t == Bytes[j]
    <3>1. t \in Nat \ {0} /\ 256 \in Nat \ {0}
      BY <2>2
    <3> HIDE DEF t
    <3>2. offset \div (t * 256) = (offset \div t) \div 256
      BY <3>1, DivDiv
    <3>3. t * 256 = 256 * t
      BY <3>1
    <3> QED BY <3>2, <3>3 DEF t
  <2>11. x % (256 * m) = 256 * ((x \div 256) % m) + (x % 256)
    <3> HIDE DEF x, m
    <3>1. RemainderSplits(x, 256, m)
      BY <2>2, 256 \in Nat \ {0}, RemainderOfQuotient
    <3> QED BY <3>1 DEF RemainderSplits
  <2> DEFINE u == (x \div 256) % m
             h == b \div 16
             l == b % 16
  <2>12. number[2 * k] = u
    BY <2>9, <2>10
  <2>13. u \in Int
    <3> DEFINE z == x \div 256
    <3>1. z \in Int
      <4>1. x \in Int /\ 256 \in Nat \ {0}
        BY <2>2
      <4> HIDE DEF x
      <4> QED BY <4>1, DivMod
    <3> HIDE DEF z, m
    <3>2. z % m \in 0..(m - 1)
      BY <2>2, <3>1, DivMod
    <3> QED BY <2>2, <3>2 DEF z
  <2>14. number[(2 * k + 1) + 1] = 16 * (16 * u + h) + l
    BY <2>5, <2>6, <2>8, <2>12
  <2>15. x % (256 * m) = 256 * u + b
    BY <2>3, <2>11
  <2>16. number[(2 * k + 1) + 1] = x % (256 * m)
    <3> HIDE DEF u, h, l, b, x, m, number
    <3>1. 16 * (16 * u + h) + l = 256 * u + (16 * h + l)
      BY <2>7, <2>13 DEF h, l
    <3>2. 16 * h + l = b
      BY <2>7 DEF h, l
    <3> QED BY <2>14, <2>15, <3>1, <3>2
  <2>17. (2 * k + 1) + 1 = 2 * (k + 1)
    OBVIOUS
  <2> HIDE DEF number
  <2> QED BY <2>2, <2>16, <2>17 DEF x, j
<1> HIDE DEF T
<1>6. n \in T
  BY <1>1, <1>4, <1>5, Induction
<1>7. number[2 * n] = offset % Bytes[n]
  <2>1. number[2 * n] = (offset \div Bytes[n - n]) % Bytes[n]
    BY <1>1, <1>6 DEF T
  <2>2. Bytes[n - n] = 1
    BY <1>1, BytesLaws, n - n = 0
  <2>3. offset \div 1 = offset
    OBVIOUS
  <2> QED BY <2>1, <2>2, <2>3
<1> QED BY <1>2, <1>7 DEF OffsetShown, n

Advances(m, x, y) == ((x % m) + y) % m = (x + y) % m

LEMMA RemainderAdds ==
  ASSUME NEW m \in Nat \ {0}, NEW x \in Int, NEW y \in Int
  PROVE  Advances(m, x, y)
<1> DEFINE q == x \div m
           r == x % m
           z == r + y
           p == z \div m
           s == z % m
           u == q + p
           v == x + y
<1>1. q \in Int /\ r \in 0..(m - 1) /\ x = m * q + r
  BY DivMod
<1>2. z \in Int
  <2> HIDE DEF r
  <2> QED BY <1>1
<1> HIDE DEF q, r, z
<1>3. p \in Int /\ s \in 0..(m - 1) /\ z = m * p + s
  BY <1>2, DivMod
<1> HIDE DEF p, s
<1>4. u \in Int /\ v \in Int /\ v = m * u + s
  <2>1. m * u = m * q + m * p /\ m * q \in Int /\ m * p \in Int
    BY <1>1, <1>3
  <2>2. v = (m * q + m * p) + s
    BY <1>1, <1>3, <2>1 DEF z
  <2> QED BY <1>1, <1>3, <2>1, <2>2
<1> HIDE DEF u, v
<1>5. v % m = s
  BY <1>3, <1>4, DivModIs
<1> QED BY <1>5 DEF s, z, r, v, Advances

LEMMA RemainderTwice ==
  ASSUME NEW x \in Nat, NEW a \in Nat \ {0}, NEW b \in Nat \ {0}
  PROVE  (x % (a * b)) % a = x % a
<1> DEFINE q == x \div a
           u == q % b
           v == x % a
           y == x % (a * b)
<1>1. q \in Int /\ v \in 0..(a - 1)
  BY DivMod, x \in Int
<1>2. u \in Int
  <2> HIDE DEF q
  <2>1. u \in 0..(b - 1)
    BY <1>1, DivMod
  <2> QED BY <2>1
<1>3. y = a * u + v
  BY RemainderOfQuotient DEF RemainderSplits
<1> HIDE DEF u, v, y
<1>4. y \in Int
  BY <1>1, <1>2, <1>3
<1>5. y % a = v
  BY <1>1, <1>2, <1>3, <1>4, DivModIs
<1> QED BY <1>5 DEF y, v
-----------------------------------------------------------------------------
(* The steps *)

LEMMA LengthType ==
  ASSUME TypeOK
  PROVE  /\ length \in Nat /\ pos \in Nat /\ pos <= length
         /\ \A p \in 1..length : Byte(p) \in Codes
BY InputAssumption DEF TypeOK, Codes

(* what a read leaves, of the file or of a pipe or when it fails            *)
Filled ==
  /\ pos' \in 0..length /\ failures' \in 0..MaxFailures
  /\ data' \in [1..ROW -> Codes] /\ numDataRead' \in -1..ROW
  /\ numDataRead' <= pos'
  /\ \A i \in 1..numDataRead' : data'[i] = Byte(pos' - numDataRead' + i)
  /\ pos = IF numDataRead' < 0 THEN pos' ELSE pos' - numDataRead'
  /\ numDataRead' = 0 => pos' = length
  /\ numDataRead' < 0 => failures' > 0
  /\ failures' = 0 => failures = 0
  /\ source = "file" /\ failures' = 0 =>
       (numDataRead' < ROW => pos' = length) /\ (pos = length => numDataRead' = 0)

LEMMA ReadFills ==
  ASSUME TypeOK, hex_read
  PROVE  Filled
<1>1. /\ length \in Nat /\ pos \in Nat /\ pos <= length
      /\ \A p \in 1..length : Byte(p) \in Codes
  BY LengthType
<1>2. ROW \in Nat \ {0} /\ MaxFailures \in Nat /\ PipeReads \subseteq 1..ROW
  BY SizesAssumption, InputAssumption
<1>3. data \in [1..ROW -> Codes] /\ failures \in 0..MaxFailures
  BY DEF TypeOK
<1>4. CASE \E n \in HandsOver :
             /\ numDataRead' = n
             /\ pos' = pos + n
             /\ data' = [i \in DOMAIN data |-> IF i <= n THEN Byte(pos + i) ELSE data[i]]
             /\ UNCHANGED failures
  <2>1. PICK n \in HandsOver :
             /\ numDataRead' = n
             /\ pos' = pos + n
             /\ data' = [i \in DOMAIN data |-> IF i <= n THEN Byte(pos + i) ELSE data[i]]
             /\ UNCHANGED failures
    BY <1>4
  <2>2. /\ n \in 0..ROW /\ n <= length - pos
        /\ n = 0 => pos = length
        /\ source = "file" => (n < ROW => n = length - pos)
    BY <1>1, <1>2, <2>1 DEF HandsOver
  <2>3. data' \in [1..ROW -> Codes]
    <3>1. ASSUME NEW i \in 1..ROW PROVE (IF i <= n THEN Byte(pos + i) ELSE data[i]) \in Codes
      <4>1. i <= n => pos + i \in 1..length
        BY <1>1, <2>2
      <4> QED BY <1>1, <1>3, <4>1
    <3>2. DOMAIN data = 1..ROW
      BY <1>3
    <3> QED BY <2>1, <3>1, <3>2
  <2>4. ASSUME NEW i \in 1..n PROVE data'[i] = Byte(pos' - numDataRead' + i)
    <3>1. i \in 1..ROW /\ i <= n
      BY <1>2, <2>2
    <3>2. i \in DOMAIN data
      BY <1>3, <3>1
    <3>3. data'[i] = Byte(pos + i)
      BY <2>1, <3>1, <3>2
    <3>4. (pos' - numDataRead') + i = pos + i
      BY <1>1, <2>1, <2>2
    <3> QED BY <3>3, <3>4
  <2> QED BY <1>1, <1>2, <1>3, <2>1, <2>2, <2>3, <2>4 DEF Filled
<1>5. CASE /\ failures < MaxFailures
           /\ failures' = failures + 1
           /\ numDataRead' = -1
           /\ UNCHANGED <<pos, data>>
  BY <1>1, <1>2, <1>3, <1>5 DEF Filled
<1> QED BY <1>4, <1>5 DEF hex_read

LEMMA SameFormat ==
  ASSUME main' = main
  PROVE  CountLimit' = CountLimit /\ hex_format_offset(placeCount)' = hex_format_offset(placeCount')
BY DEF hex_format_offset, TopByte, Shifted, CountLimit

LEMMA InitHolds == Init => IInv
<1> SUFFICES ASSUME Init PROVE IInv
  OBVIOUS
<1>1. ROW \in Nat \ {0} /\ OffsetBytes \in Nat \ {0} /\ MaxFailures \in Nat
      /\ FileLengths \cup PipeLengths \subseteq Nat
  BY SizesAssumption, InputAssumption
<1>2. TypeOK
  <2>1. placeCount \in 0..(CountLimit - 1)
    BY CountLimitType DEF Init
  <2>2. data \in [1..ROW -> Codes] /\ place \in [1..(2 * OffsetBytes) -> Codes]
    BY DEF Init, Codes, Space, NUL
  <2>3. length \in FileLengths \cup PipeLengths /\ pos \in 0..length
    BY <1>1 DEF Init
  <2>4. failures \in 0..MaxFailures /\ numDataRead \in -1..ROW /\ shown \in Nat
    BY <1>1 DEF Init
  <2>5. row \in Seq(Codes)
    <3>1. row = << >>
      BY DEF Init
    <3> HIDE DEF Codes
    <3> QED BY <3>1
  <2>6. main \in {"c", "asm"} /\ source \in {"file", "pipe"} /\ pc = "start"
    BY DEF Init
  <2> QED BY <2>1, <2>2, <2>3, <2>4, <2>5, <2>6 DEF TypeOK
<1>3. ReadInv
  BY DEF Init, ReadInv
<1>4. RowInv /\ OffsetInv
  BY DEF Init, RowInv, OffsetInv
<1> QED BY <1>2, <1>3, <1>4 DEF IInv

LEMMA FirstReadHolds == IInv /\ FirstRead => IInv'
<1> SUFFICES ASSUME IInv, FirstRead PROVE IInv'
  OBVIOUS
<1>1. TypeOK /\ ReadInv /\ pc = "start"
  BY DEF IInv, FirstRead
<1>2. Filled
  BY <1>1, ReadFills DEF FirstRead
<1>3. /\ main' = main /\ source' = source /\ length' = length /\ row' = row /\ shown' = shown
      /\ placeCount' = placeCount /\ pc' = "loop" /\ place' = hex_format_offset(placeCount)
  BY DEF FirstRead, input
<1>4. pos = 0 /\ placeCount = 0 /\ numDataRead = 0 /\ failures = 0 /\ row = << >> /\ shown = 0
  BY <1>1 DEF ReadInv
<1>5. CountLimit' = CountLimit /\ hex_format_offset(placeCount)' = hex_format_offset(placeCount')
  BY <1>3, SameFormat
<1>6. TypeOK'
  <2>1. place' \in [1..(2 * OffsetBytes) -> Codes]
    BY <1>3, <1>4, OffsetDigits
  <2> QED BY <1>1, <1>2, <1>3, <1>5, <2>1 DEF TypeOK, Filled
<1>7. ReadInv'
  BY <1>2, <1>3, <1>4 DEF ReadInv, Filled
<1>8. RowInv'
  BY <1>3, <1>4 DEF RowInv
<1>9. OffsetInv'
  <2>1. source = "file" /\ failures' = 0 /\ numDataRead' > 0 =>
          /\ placeCount' = (pos' - numDataRead') % CountLimit
          /\ numDataRead' < ROW => pos' = length
    <3>1. SUFFICES ASSUME source = "file", failures' = 0, numDataRead' > 0
                   PROVE  /\ placeCount' = (pos' - numDataRead') % CountLimit
                          /\ numDataRead' < ROW => pos' = length
      OBVIOUS
    <3>2. numDataRead' < ROW => pos' = length
      BY <1>2, <3>1 DEF Filled
    <3>3. pos' - numDataRead' = 0
      <4>1. numDataRead' \in -1..ROW /\ ~(numDataRead' < 0)
        BY <1>2, <3>1 DEF Filled
      <4> QED BY <1>2, <1>4, <4>1 DEF Filled
    <3> DEFINE m == CountLimit
    <3>4. m \in Nat \ {0}
      BY CountLimitType
    <3> HIDE DEF m
    <3>5. 0 % m = 0
      <4>1. 0 = m * 0 + 0 /\ 0 \in 0..(m - 1)
        BY <3>4
      <4> QED BY <3>4, <4>1, DivModIs, 0 \in Int
    <3> QED BY <1>3, <1>4, <3>2, <3>3, <3>5 DEF m
  <2> QED BY <1>3, <1>5, <2>1 DEF OffsetInv
<1> QED BY <1>6, <1>7, <1>8, <1>9 DEF IInv

LEMMA PrintRowHolds == IInv /\ PrintRow => IInv'
<1> SUFFICES ASSUME IInv, PrintRow PROVE IInv'
  OBVIOUS
<1>1. TypeOK /\ ReadInv /\ OffsetInv /\ pc = "loop" /\ numDataRead # 0 /\ (main = "c" \/ numDataRead > 0)
  BY DEF IInv, PrintRow
<1>2. Filled
  BY <1>1, ReadFills DEF PrintRow
<1>3. /\ main' = main /\ source' = source /\ length' = length /\ pc' = pc
      /\ row' = Row /\ shown' = shown + Cardinality(PairsShown(Row))
      /\ placeCount' = (placeCount + ROW) % CountLimit
      /\ place' = hex_format_offset(placeCount')
  BY DEF PrintRow, NextPlace, input
<1>4. CountLimit' = CountLimit /\ hex_format_offset(placeCount)' = hex_format_offset(placeCount')
  BY <1>3, SameFormat
<1>5. ReadOK
  BY <1>1, SizesAssumption DEF ReadOK, BufferOK, TypeOK
<1>6. ROW \in Nat \ {0} /\ numDataRead \in -1..ROW /\ pos \in Nat /\ length \in Nat
  BY <1>1, <1>5, LengthType DEF ReadOK, BufferOK
<1> DEFINE k == IF numDataRead > 0 THEN numDataRead ELSE 0
<1>7. /\ k \in 0..ROW /\ Cardinality(PairsShown(Row)) = k
      /\ HexShown(Row) = [i \in 1..k |-> data[i]]
  BY <1>5, ShownIs
<1>8. shown = pos - k /\ shown' = pos /\ k <= pos
  <2>1. shown = IF numDataRead < 0 THEN pos ELSE pos - numDataRead
    BY <1>1 DEF ReadInv
  <2>2. numDataRead <= pos
    BY <1>1 DEF ReadInv
  <2> QED BY <1>1, <1>3, <1>6, <1>7, <2>1, <2>2
<1>9. \A i \in 1..k : data[i] = Byte(pos - k + i)
  BY <1>1, <1>6 DEF ReadInv
<1>10. placeCount' \in Nat /\ placeCount' \in 0..(CountLimit - 1)
  <2> DEFINE m == CountLimit
             x == placeCount + ROW
  <2>1. m \in Nat \ {0} /\ x \in Int /\ placeCount' = x % m
    BY <1>1, <1>3, <1>6, CountLimitType DEF TypeOK
  <2> HIDE DEF m, x
  <2>2. x % m \in 0..(m - 1)
    BY <2>1, DivMod
  <2> QED BY <2>1, <2>2 DEF m
<1>11. TypeOK'
  <2>1. place' \in [1..(2 * OffsetBytes) -> Codes]
    BY <1>3, <1>10, OffsetDigits
  <2>2. row' \in Seq(Codes)
    BY <1>3, <1>5, RowIs
  <2>3. shown' \in Nat
    BY <1>6, <1>8
  <2> QED BY <1>1, <1>2, <1>3, <1>4, <1>10, <2>1, <2>2, <2>3 DEF TypeOK, Filled
<1>12. ReadInv'
  BY <1>1, <1>2, <1>3, <1>8 DEF ReadInv, Filled
<1>13. RowInv'
  <2>1. Cardinality(PairsShown(row')) = k /\ HexShown(row') = [i \in 1..k |-> data[i]]
    BY <1>3, <1>7
  <2>2. numDataRead > 0 => TextShown(row') = [i \in 1..numDataRead |-> hex_to_printable(data[i])]
    BY <1>3, <1>5, RowIs
  <2>3. k > 0 => TextShown(row') = [i \in 1..k |-> hex_to_printable(data[i])]
    BY <1>6, <2>2
  <2> HIDE DEF k
  <2>4. k <= shown'
    BY <1>8
  <2>5. HexShown(row') = [i \in 1..k |-> Byte(shown' - k + i)]
    BY <1>8, <1>9, <2>1
  <2>6. k > 0 => TextShown(row') = [i \in 1..k |-> hex_to_printable(Byte(shown' - k + i))]
    BY <1>8, <1>9, <2>3
  <2> QED BY <2>1, <2>4, <2>5, <2>6 DEF RowInv
<1>14. OffsetInv'
  <2>1. source = "file" /\ failures' = 0 /\ numDataRead' > 0 =>
          /\ placeCount' = (pos' - numDataRead') % CountLimit
          /\ numDataRead' < ROW => pos' = length
    <3>1. SUFFICES ASSUME source = "file", failures' = 0, numDataRead' > 0
                   PROVE  /\ placeCount' = (pos' - numDataRead') % CountLimit
                          /\ numDataRead' < ROW => pos' = length
      OBVIOUS
    <3>2. numDataRead' < ROW => pos' = length
      BY <1>2, <3>1 DEF Filled
    <3>3. pos' - numDataRead' = pos
      <4>1. numDataRead' \in -1..ROW /\ ~(numDataRead' < 0)
        BY <1>2, <3>1 DEF Filled
      <4> QED BY <1>2, <4>1 DEF Filled
    <3>4. failures = 0 /\ numDataRead > 0
      <4>1. failures = 0
        BY <1>2, <3>1 DEF Filled
      <4>2. ~(numDataRead < 0)
        BY <1>1, <4>1 DEF ReadInv
      <4> QED BY <1>1, <1>6, <4>1, <4>2
    <3>5. placeCount = (pos - numDataRead) % CountLimit /\ (numDataRead < ROW => pos = length)
      BY <1>1, <3>1, <3>4 DEF OffsetInv
    <3>6. numDataRead = ROW
      <4>1. ~(pos = length)
        BY <1>2, <3>1 DEF Filled
      <4> QED BY <1>6, <3>5, <4>1
    <3> DEFINE m == CountLimit
               x == pos - ROW
    <3>7. m \in Nat \ {0} /\ x \in Int /\ x + ROW = pos /\ placeCount = x % m
      BY <1>6, <3>5, <3>6, CountLimitType
    <3> HIDE DEF m, x
    <3>8. ((x % m) + ROW) % m = (x + ROW) % m
      <4>1. ROW \in Int
        BY <1>6
      <4>2. Advances(m, x, ROW)
        BY <3>7, <4>1, RemainderAdds
      <4> QED BY <4>2 DEF Advances
    <3>9. placeCount' = (placeCount + ROW) % m
      BY <1>3 DEF m
    <3> QED BY <3>2, <3>3, <3>7, <3>8, <3>9 DEF m
  <2> QED BY <1>1, <1>3, <1>4, <2>1 DEF OffsetInv
<1> QED BY <1>11, <1>12, <1>13, <1>14 DEF IInv

(* The row the assembly has started when it crashes is made of bytes, like  *)
(* any other; the rest of the invariant is about rows that were finished.   *)
LEMMA OverrunHolds == IInv /\ Overrun => IInv'
<1> SUFFICES ASSUME IInv, Overrun PROVE IInv'
  OBVIOUS
<1>1. /\ main' = main /\ source' = source /\ length' = length /\ pos' = pos /\ failures' = failures
      /\ data' = data /\ numDataRead' = numDataRead /\ placeCount' = placeCount /\ place' = place
      /\ pc = "loop" /\ pc' = "crashed" /\ numDataRead < 0
      /\ row' = (place \o <<58, Space>>) \o HexColumn
      /\ shown' = shown + Cardinality(PairsShown(row'))
  BY DEF Overrun, input
<1>2. TypeOK /\ ReadInv /\ OffsetInv
  BY DEF IInv
<1>3. BufferOK
  BY <1>2, SizesAssumption DEF BufferOK, TypeOK
<1>4. row' \in Seq(Codes)
  <2>1. place \in Seq(Codes) /\ <<58, Space>> \in Seq(Codes)
    BY <1>3 DEF BufferOK, Codes, Space
  <2>2. place \o <<58, Space>> \in Seq(Codes) /\ HexColumn \in Seq(Codes)
    BY <1>3, <2>1, HexColumnIs, Joined
  <2> QED BY <1>1, <2>2, Joined
<1>5. shown' \in Nat
  <2>1. PairsShown(row') \subseteq 1..ROW /\ IsFiniteSet(1..ROW)
    BY <1>3, FS_Interval DEF PairsShown, BufferOK
  <2>2. Cardinality(PairsShown(row')) \in Nat
    BY <2>1, FS_Subset, FS_CardinalityType
  <2> QED BY <1>1, <1>2, <2>2 DEF TypeOK
<1>6. CountLimit' = CountLimit /\ hex_format_offset(placeCount)' = hex_format_offset(placeCount')
  BY <1>1, SameFormat
<1>7. TypeOK'
  BY <1>1, <1>2, <1>4, <1>5, <1>6 DEF TypeOK
<1>8. ReadInv'
  BY <1>1, <1>2 DEF ReadInv
<1>9. RowInv'
  BY <1>1 DEF RowInv
<1>10. OffsetInv'
  BY <1>1, <1>2, <1>6 DEF OffsetInv
<1> QED BY <1>7, <1>8, <1>9, <1>10 DEF IInv

LEMMA StopHolds == IInv /\ (Finish \/ UNCHANGED vars) => IInv'
<1> SUFFICES ASSUME IInv, Finish \/ UNCHANGED vars PROVE IInv'
  OBVIOUS
<1>1. /\ main' = main /\ source' = source /\ length' = length /\ pos' = pos /\ failures' = failures
      /\ data' = data /\ numDataRead' = numDataRead /\ placeCount' = placeCount /\ place' = place
      /\ row' = row /\ shown' = shown
  BY DEF Finish, vars, dump, input
<1>2. /\ pc' \in {"start", "loop", "done", "crashed"}
      /\ pc' = "start" => pc = "start"
      /\ pc' = "loop" => pc = "loop"
      /\ pc' # "start" => pc # "start"
      /\ pc' = "crashed" <=> pc = "crashed"
      /\ pc' = "done" => numDataRead = 0
  <2>1. pc \in {"start", "loop", "done", "crashed"} /\ (pc = "done" => numDataRead = 0)
    BY DEF IInv, TypeOK, ReadInv
  <2>2. pc' = pc \/ (pc = "loop" /\ pc' = "done" /\ numDataRead = 0)
    BY DEF Finish, vars
  <2> QED BY <2>1, <2>2
<1>3. TypeOK /\ ReadInv /\ RowInv /\ OffsetInv
  BY DEF IInv
<1>4. CountLimit' = CountLimit /\ hex_format_offset(placeCount)' = hex_format_offset(placeCount')
  BY <1>1, SameFormat
<1>5. TypeOK'
  BY <1>1, <1>2, <1>3, <1>4 DEF TypeOK
<1>6. ReadInv'
  BY <1>1, <1>2, <1>3 DEF ReadInv
<1>7. RowInv'
  BY <1>1, <1>2, <1>3 DEF RowInv
<1>8. OffsetInv'
  BY <1>1, <1>2, <1>3, <1>4 DEF OffsetInv
<1> QED BY <1>5, <1>6, <1>7, <1>8 DEF IInv
-----------------------------------------------------------------------------
(* The theorems *)

(* Every step of both programs, reads that are short or fail included,      *)
(* keeps the buffer filled from its start by the last read and the offset   *)
(* formatted from the counter.                                              *)
THEOREM DumpInvariant == Spec => []IInv
<1>1. IInv /\ [Next]_vars => IInv'
  <2> SUFFICES ASSUME IInv, [Next]_vars PROVE IInv'
    OBVIOUS
  <2>1. CASE FirstRead
    BY <2>1, FirstReadHolds
  <2>2. CASE PrintRow
    BY <2>2, PrintRowHolds
  <2>3. CASE Overrun
    BY <2>3, OverrunHolds
  <2>4. CASE Finish \/ UNCHANGED vars
    BY <2>4, StopHolds
  <2> QED BY <2>1, <2>2, <2>3, <2>4 DEF Next
<1> QED BY <1>1, InitHolds, PTL DEF Spec

(* The buffers keep their sizes and hold bytes: a read never returns more   *)
(* than hex_read asks for, and every character of a row is a byte.          *)
THEOREM DumpTypeCorrect == Spec => []TypeOK
<1>1. IInv => TypeOK
  BY DEF IInv
<1> QED BY <1>1, DumpInvariant, PTL

(* c_hexmain.c:19-36, for every input and every way reads may cut it: each  *)
(* row a program finishes shows the next bytes, all of them and no stale    *)
(* ones, in hex and as text, and none are left when the program is done.    *)
(* Nothing is said of the row the assembly starts after a failed read, and  *)
(* crashes in.                                                              *)
THEOREM RowsCorrect == Spec => []RowsShowInput
<1>1. IInv => RowsShowInput
  <2> SUFFICES ASSUME IInv PROVE RowsShowInput
    OBVIOUS
  <2>1. pc # "crashed" => shown = IF numDataRead < 0 THEN pos ELSE pos - numDataRead
    BY DEF IInv, ReadInv
  <2>2. pc = "done" => shown = length
    <3>1. pc = "done" => numDataRead = 0 /\ pos = length
      BY DEF IInv, ReadInv
    <3>2. pos \in Nat
      BY LengthType DEF IInv
    <3> QED BY <2>1, <3>1, <3>2
  <2> QED BY <2>1, <2>2 DEF IInv, RowInv, RowsShowInput
<1> QED BY <1>1, DumpInvariant, PTL

(* c_hexmain.c:39-40, for an offset of any number of bytes and a counter    *)
(* that has as many or more: where reads are full the digits in front of a  *)
(* row are the position of its first byte, modulo what they can say.        *)
THEOREM OffsetsCorrect == Spec => []OffsetIsPosition
<1>1. IInv => OffsetIsPosition
  <2> SUFFICES ASSUME IInv, source = "file", failures = 0, pc = "loop", numDataRead > 0
               PROVE  OffsetShown(place) = (pos - numDataRead) % Bytes[OffsetBytes]
    BY DEF OffsetIsPosition
  <2>1. place = hex_format_offset(placeCount) /\ placeCount = (pos - numDataRead) % CountLimit
    BY DEF IInv, OffsetInv
  <2>2. placeCount \in Nat
    BY CountLimitType DEF IInv, TypeOK
  <2>3. OffsetShown(place) = placeCount % Bytes[OffsetBytes]
    BY <2>1, <2>2, OffsetIs
  <2>4. PICK spare \in Nat : CountLimit = Bytes[OffsetBytes + spare]
    BY CountLimitIs
  <2> DEFINE x == pos - numDataRead
             a == Bytes[OffsetBytes]
             b == Bytes[spare]
  <2>5. x \in Nat
    <3>1. pos \in Nat /\ numDataRead \in Int /\ numDataRead <= pos
      BY LengthType DEF IInv, TypeOK, ReadInv
    <3> QED BY <3>1
  <2>6. CountLimit = a * b /\ a \in Nat \ {0} /\ b \in Nat \ {0}
    <3>1. OffsetBytes \in Nat
      BY SizesAssumption
    <3>2. Bytes[OffsetBytes + spare] = Bytes[OffsetBytes] * Bytes[spare]
      BY <2>4, <3>1, BytesSum
    <3>3. Bytes[OffsetBytes] \in Nat \ {0} /\ Bytes[spare] \in Nat \ {0}
      BY <2>4, <3>1, BytesLaws
    <3> QED BY <2>4, <3>2, <3>3
  <2> HIDE DEF x, a, b
  <2>7. (x % (a * b)) % a = x % a
    BY <2>5, <2>6, RemainderTwice
  <2>8. placeCount = x % (a * b)
    BY <2>1, <2>6 DEF x
  <2> QED BY <2>3, <2>7, <2>8 DEF x, a
<1> QED BY <1>1, DumpInvariant, PTL
=============================================================================

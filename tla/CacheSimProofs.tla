---------------------------- MODULE CacheSimProofs ----------------------------
(***************************************************************************)
(* Proofs about CacheSim, for any geometry, trace and combination of the   *)
(* parameters: the time stamps of a set rank its slots.  If moreover the   *)
(* tags of the trace fit those of the slots, the simulated sets evict as   *)
(* the lists of Replacement do, and only a load that hits loses a store.   *)
(***************************************************************************)
EXTENDS CacheSim, FiniteSetTheorems, SequenceTheorems, TLAPS

SlotType == [tag : SlotTags, dirty : BOOLEAN, load_ts : Nat, access_ts : Nat]

(* The stamps of a list of slots are 0 .. n - 1, each once. *)
Ranks(s) ==
  /\ \A i \in DOMAIN s : Stamp(s[i]) \in 0..Len(s) - 1
  /\ \A k \in 0..Len(s) - 1 : \E i \in DOMAIN s : Stamp(s[i]) = k
  /\ \A i, j \in DOMAIN s : Stamp(s[i]) = Stamp(s[j]) => i = j

RankInv == \A x \in Indexes : Ranks(slots[x])

CountInv == \A c \in Counters : counts[c] <= accesses

(* A write-through cache leaves nothing to be saved. *)
SavedInv == unsaved # {} => params.write_back

IInv == TypeOK /\ RankInv /\ CountInv /\ SavedInv
-----------------------------------------------------------------------------
(* Parameters and addresses *)

LEMMA ParamsType ==
  ASSUME params \in Params
  PROVE  /\ params.num_set_cache \in Nat \ {0}
         /\ params.block_set \in Nat \ {0}
         /\ params.byte_block \in Nat \ {0}
         /\ params.lru \in BOOLEAN /\ params.write_allocate \in BOOLEAN
         /\ params.write_back \in BOOLEAN
         /\ num_byte_load \in Nat
<1>1. PICK g \in Geometries, l \in BOOLEAN, a \in BOOLEAN, b \in BOOLEAN :
        params = [num_set_cache |-> g[1], block_set |-> g[2], byte_block |-> g[3],
                  lru |-> l, write_allocate |-> a, write_back |-> b]
  BY DEF Params
<1>2. g[1] \in Nat \ {0} /\ g[2] \in Nat \ {0} /\ g[3] \in Nat /\ g[3] >= 4
  BY GeometriesAssumption
<1>3. g[3] \div 4 \in Nat /\ g[3] # 0
  BY <1>2
<1> QED BY <1>1, <1>2, <1>3 DEF num_byte_load

LEMMA Division ==
  ASSUME NEW b \in Nat, NEW n \in Nat \ {0}
  PROVE  /\ b \div n \in Nat
         /\ b - (b \div n) * n \in 0..n - 1
         /\ b - (b \div n) * n = b % n
         /\ (b \div n) * n + (b - (b \div n) * n) = b
OBVIOUS

LEMMA AddressType ==
  ASSUME params \in Params, NEW a \in Addresses
  PROVE  /\ Block(a) \in Nat /\ Tag(a) \in Nat /\ Tag(a) \in Tags
         /\ Index(a) \in Indexes /\ Index(a) = Block(a) % params.num_set_cache
         /\ BlockOf(Index(a), Tag(a)) = Block(a)
<1> DEFINE n == params.num_set_cache
<1>1. a \in Nat /\ n \in Nat \ {0} /\ params.byte_block \in Nat \ {0}
  BY ParamsType, TraceAssumption
<1>2. Block(a) \in Nat
  BY <1>1, Division DEF Block
<1>3. /\ Tag(a) \in Nat
      /\ Index(a) \in 0..n - 1 /\ Index(a) = Block(a) % n
      /\ BlockOf(Index(a), Tag(a)) = Block(a)
  BY <1>1, <1>2, Division DEF Tag, Index, BlockOf
<1> QED BY <1>2, <1>3 DEF Tags, Indexes

LEMMA TagsNat == params \in Params => Tags \subseteq Nat /\ SlotTags \subseteq Nat
<1> SUFFICES ASSUME params \in Params PROVE Tags \subseteq Nat /\ SlotTags \subseteq Nat
  OBVIOUS
<1>1. Tags \subseteq Nat
  BY AddressType DEF Tags
<1>2. \A tag \in Nat : tag % TagLimit \in Nat
  BY TagAssumption
<1> QED BY <1>1, <1>2 DEF SlotTags, Narrowed

(* where tags fit, the narrowed one is the whole one *)
LEMMA FitsWhole ==
  ASSUME TagsFit, params \in Params, NEW tag \in Tags
  PROVE  Narrowed(tag) = tag /\ tag \in SlotTags
<1>1. PICK g \in Geometries : params.num_set_cache = g[1] /\ params.byte_block = g[3]
  BY DEF Params
<1>2. PICK a \in Addresses : tag = Tag(a)
  BY DEF Tags
<1>3. tag < TagLimit
  BY <1>1, <1>2 DEF TagsFit, Tag, Block
<1>4. tag \in Nat
  BY TagsNat
<1>5. Narrowed(tag) = tag
  BY <1>3, <1>4, TagAssumption DEF Narrowed
<1> QED BY <1>5 DEF SlotTags
-----------------------------------------------------------------------------
(* How a slot is updated *)

LEMMA AgeSlot ==
  ASSUME NEW s \in SlotType, params.lru \in BOOLEAN
  PROVE  /\ Aged(s) \in SlotType /\ Aged(s).tag = s.tag /\ Aged(s).dirty = s.dirty
         /\ Stamp(Aged(s)) = Stamp(s) + 1
<1>1. CASE params.lru
  <2> DEFINE u == [s EXCEPT !.access_ts = @ + 1]
  <2>1. u \in SlotType /\ u.tag = s.tag /\ u.dirty = s.dirty /\ u.access_ts = s.access_ts + 1
    BY DEF SlotType
  <2>2. Aged(s) = u
    BY <1>1 DEF Aged
  <2> HIDE DEF u
  <2> QED BY <1>1, <2>1, <2>2 DEF Stamp
<1>2. CASE ~params.lru
  <2> DEFINE u == [s EXCEPT !.load_ts = @ + 1]
  <2>1. u \in SlotType /\ u.tag = s.tag /\ u.dirty = s.dirty /\ u.load_ts = s.load_ts + 1
    BY DEF SlotType
  <2>2. Aged(s) = u
    BY <1>2 DEF Aged
  <2> HIDE DEF u
  <2> QED BY <1>2, <2>1, <2>2 DEF Stamp
<1> QED BY <1>1, <1>2

LEMMA AgeBoth ==
  ASSUME NEW s \in SlotType, NEW u, u = [s EXCEPT !.access_ts = @ + 1, !.load_ts = @ + 1]
  PROVE  /\ u \in SlotType /\ u.tag = s.tag /\ u.dirty = s.dirty
         /\ u.load_ts = s.load_ts + 1 /\ u.access_ts = s.access_ts + 1
<1> DEFINE r == [s EXCEPT !.access_ts = @ + 1]
           q == [r EXCEPT !.load_ts = @ + 1]
<1>1. /\ r \in SlotType /\ r.tag = s.tag /\ r.dirty = s.dirty
      /\ r.load_ts = s.load_ts /\ r.access_ts = s.access_ts + 1
  BY DEF SlotType
<1> HIDE DEF r
<1>2. /\ q \in SlotType /\ q.tag = r.tag /\ q.dirty = r.dirty
      /\ q.load_ts = r.load_ts + 1 /\ q.access_ts = r.access_ts
  BY <1>1 DEF SlotType
<1>3. u = q
  BY DEF r, SlotType
<1> HIDE DEF q
<1> QED BY <1>1, <1>2, <1>3

LEMMA AgeAccess ==
  ASSUME NEW s \in SlotType, NEW u, u = [s EXCEPT !.access_ts = @ + 1]
  PROVE  /\ u \in SlotType /\ u.tag = s.tag /\ u.dirty = s.dirty
         /\ u.load_ts = s.load_ts /\ u.access_ts = s.access_ts + 1
BY DEF SlotType

LEMMA MakeSlot ==
  ASSUME params \in Params, NEW tag \in Tags, NEW store \in BOOLEAN
  PROVE  /\ NewSlot(tag, store) \in SlotType
         /\ NewSlot(tag, store).tag = Narrowed(tag)
         /\ NewSlot(tag, store).dirty = (store /\ params.write_back)
         /\ Stamp(NewSlot(tag, store)) = 0
<1>1. Narrowed(tag) \in SlotTags
  BY DEF SlotTags
<1> QED BY <1>1, ParamsType DEF NewSlot, SlotType, Stamp
-----------------------------------------------------------------------------
(* What the three operations on a set do to its slots *)

LEMMA SetType ==
  ASSUME TypeOK, NEW x \in Indexes
  PROVE  /\ slots[x] \in Seq(SlotType) /\ Len(slots[x]) \in Nat
         /\ DOMAIN slots[x] = 1..Len(slots[x])
         /\ \A i \in DOMAIN slots[x] :
              /\ slots[x][i] \in SlotType /\ Stamp(slots[x][i]) \in Nat
         /\ Len(slots[x]) <= params.block_set
<1>1. slots[x] \in Seq(SlotType) /\ Len(slots[x]) <= params.block_set
  BY DEF TypeOK, SlotType
<1>2. \A i \in DOMAIN slots[x] : slots[x][i] \in SlotType
  BY <1>1
<1>3. \A s \in SlotType : Stamp(s) \in Nat
  BY DEF SlotType, Stamp
<1> QED BY <1>1, <1>2, <1>3

LEMMA TouchSlots ==
  ASSUME TypeOK, RankInv, NEW x \in Indexes, NEW i \in DOMAIN slots[x],
         NEW store \in BOOLEAN, NEW t, t = Touch(x, i, store)
  PROVE  /\ t \in Seq(SlotType) /\ Len(t) = Len(slots[x])
         /\ \A j \in DOMAIN slots[x] : t[j].tag = slots[x][j].tag
         /\ t[i].dirty = (store /\ params.write_back)
         /\ \A j \in DOMAIN slots[x] : j # i => t[j].dirty = slots[x][j].dirty
         /\ ~params.lru => \A j \in DOMAIN slots[x] : Stamp(t[j]) = Stamp(slots[x][j])
         /\ params.lru =>
              /\ Stamp(t[i]) = 0
              /\ \A j \in DOMAIN slots[x] : j # i =>
                   Stamp(t[j]) = IF Stamp(slots[x][j]) < Stamp(slots[x][i])
                                 THEN Stamp(slots[x][j]) + 1 ELSE Stamp(slots[x][j])
<1> DEFINE s == slots[x]
<1>1. /\ s \in Seq(SlotType) /\ Len(s) \in Nat /\ DOMAIN s = 1..Len(s)
      /\ \A j \in DOMAIN s : s[j] \in SlotType
  BY SetType
<1>2. params.write_back \in BOOLEAN /\ params.lru \in BOOLEAN
  BY ParamsType DEF TypeOK
<1>3. \A j \in DOMAIN s :
        t[j] = IF j = i THEN [s[j] EXCEPT !.access_ts = 0, !.dirty = store /\ params.write_back]
               ELSE IF s[j].access_ts < s[i].access_ts
                    THEN [s[j] EXCEPT !.access_ts = @ + 1] ELSE s[j]
  BY DEF Touch
<1>4. /\ t[i] \in SlotType /\ t[i].tag = s[i].tag /\ t[i].load_ts = s[i].load_ts
      /\ t[i].dirty = (store /\ params.write_back) /\ t[i].access_ts = 0
  <2> DEFINE d == store /\ params.write_back
  <2>1. t[i] = [s[i] EXCEPT !.access_ts = 0, !.dirty = d]
    BY <1>3
  <2>2. d \in BOOLEAN /\ s[i] \in SlotType
    BY <1>1, <1>2
  <2> HIDE DEF d
  <2>3. /\ t[i] \in SlotType /\ t[i].tag = s[i].tag /\ t[i].load_ts = s[i].load_ts
        /\ t[i].dirty = d /\ t[i].access_ts = 0
    <3> SUFFICES ASSUME NEW r \in SlotType, NEW u, u = [r EXCEPT !.access_ts = 0, !.dirty = d]
                 PROVE  /\ u \in SlotType /\ u.tag = r.tag /\ u.load_ts = r.load_ts
                        /\ u.dirty = d /\ u.access_ts = 0
      BY <2>1, <2>2
    <3> QED BY <2>2 DEF SlotType
  <2> QED BY <2>3 DEF d
<1>5. ASSUME NEW j \in DOMAIN s, j # i
      PROVE  /\ t[j] \in SlotType /\ t[j].tag = s[j].tag /\ t[j].load_ts = s[j].load_ts
             /\ t[j].dirty = s[j].dirty
             /\ t[j].access_ts = IF s[j].access_ts < s[i].access_ts
                                 THEN s[j].access_ts + 1 ELSE s[j].access_ts
  <2>1. CASE s[j].access_ts < s[i].access_ts
    <3>1. t[j] = [s[j] EXCEPT !.access_ts = @ + 1]
      BY <1>3, <1>5, <2>1
    <3> QED BY <1>1, <2>1, <3>1, AgeAccess
  <2>2. CASE ~(s[j].access_ts < s[i].access_ts)
    <3>1. t[j] = s[j]
      BY <1>3, <1>5, <2>2
    <3> QED BY <1>1, <2>2, <3>1
  <2> QED BY <2>1, <2>2
<1>6. t \in Seq(SlotType) /\ Len(t) = Len(s)
  <2>1. t \in [1..Len(s) -> SlotType]
    <3>1. \A j \in DOMAIN s : t[j] \in SlotType
      BY <1>4, <1>5
    <3>2. DOMAIN t = 1..Len(s) /\ t = [j \in 1..Len(s) |-> t[j]]
      BY <1>1 DEF Touch
    <3> QED BY <1>1, <3>1, <3>2
  <2> QED BY <1>1, <2>1
<1> HIDE DEF s
<1>7. \A j \in DOMAIN s : j # i =>
        Stamp(t[j]) = IF params.lru
                      THEN IF Stamp(s[j]) < Stamp(s[i]) THEN Stamp(s[j]) + 1 ELSE Stamp(s[j])
                      ELSE Stamp(s[j])
  BY <1>5 DEF Stamp
<1>8. Stamp(t[i]) = IF params.lru THEN 0 ELSE Stamp(s[i])
  BY <1>4 DEF Stamp
<1> QED BY <1>4, <1>5, <1>6, <1>7, <1>8 DEF s

LEMMA FillSlots ==
  ASSUME TypeOK, NEW x \in Indexes, NEW tag \in Tags,
         NEW store \in BOOLEAN, NEW t, t = Fill(x, NewSlot(tag, store)),
         NEW n, n = Len(slots[x])
  PROVE  /\ t \in Seq(SlotType) /\ Len(t) = n + 1
         /\ \A j \in 1..n : t[j].tag = slots[x][j].tag
         /\ \A j \in 1..n : t[j].dirty = slots[x][j].dirty
         /\ \A j \in 1..n : Stamp(t[j]) = Stamp(slots[x][j]) + 1
         /\ t[n + 1].tag = Narrowed(tag) /\ t[n + 1].dirty = (store /\ params.write_back)
         /\ Stamp(t[n + 1]) = 0
<1> DEFINE s == slots[x]
           u == [j \in DOMAIN s |-> [s[j] EXCEPT !.access_ts = @ + 1, !.load_ts = @ + 1]]
           new == NewSlot(tag, store)
<1>1. /\ s \in Seq(SlotType) /\ n \in Nat /\ DOMAIN s = 1..n
      /\ \A j \in DOMAIN s : s[j] \in SlotType
  BY SetType
<1>2. params.write_back \in BOOLEAN /\ params.lru \in BOOLEAN
  BY ParamsType DEF TypeOK
<1>3. \A j \in 1..n :
        /\ u[j] \in SlotType /\ u[j].tag = s[j].tag /\ u[j].dirty = s[j].dirty
        /\ u[j].load_ts = s[j].load_ts + 1 /\ u[j].access_ts = s[j].access_ts + 1
  <2>1. \A j \in 1..n : u[j] = [s[j] EXCEPT !.access_ts = @ + 1, !.load_ts = @ + 1]
    BY <1>1
  <2> HIDE DEF u
  <2> QED BY <1>1, <2>1, AgeBoth
<1>4. u \in [1..n -> SlotType]
  BY <1>1, <1>3
<1>5. /\ new \in SlotType /\ new.tag = Narrowed(tag) /\ new.dirty = (store /\ params.write_back)
      /\ Stamp(new) = 0
  BY MakeSlot DEF TypeOK
<1>6. t = Append(u, new)
  BY DEF Fill
<1> HIDE DEF u, new
<1>7. u \in Seq(SlotType) /\ Len(u) = n
  BY <1>1, <1>4
<1>8. t \in Seq(SlotType) /\ Len(t) = n + 1 /\ t[n + 1] = new /\ \A j \in 1..n : t[j] = u[j]
  BY <1>1, <1>5, <1>6, <1>7
<1> QED BY <1>3, <1>5, <1>8 DEF Stamp

LEMMA EvictSlots ==
  ASSUME TypeOK, RankInv, NEW x \in Indexes, NEW tag \in Tags,
         NEW store \in BOOLEAN, NEW t, t = Evict(x, NewSlot(tag, store)),
         NEW n, n = Len(slots[x]), Full(x)
  PROVE  /\ t \in Seq(SlotType) /\ Len(t) = n /\ n = params.block_set
         /\ \E v \in 1..n :
              /\ Victims(x) = {v} /\ Stamp(slots[x][v]) = n - 1
              /\ t[v].tag = Narrowed(tag) /\ t[v].dirty = (store /\ params.write_back)
              /\ Stamp(t[v]) = 0
              /\ \A j \in 1..n : j # v =>
                   /\ t[j].tag = slots[x][j].tag
                   /\ t[j].dirty = slots[x][j].dirty
                   /\ Stamp(t[j]) = Stamp(slots[x][j]) + 1
<1> DEFINE s == slots[x]
           new == NewSlot(tag, store)
<1>1. /\ s \in Seq(SlotType) /\ n \in Nat /\ DOMAIN s = 1..n
      /\ \A j \in DOMAIN s : s[j] \in SlotType /\ Stamp(s[j]) \in Nat
      /\ n = params.block_set /\ n # 0
  <2>1. n >= params.block_set /\ params.block_set \in Nat \ {0}
    BY ParamsType DEF Full, TypeOK
  <2>2. n <= params.block_set /\ n \in Nat
    BY SetType
  <2>3. n = params.block_set /\ n # 0
    BY <2>1, <2>2
  <2> QED BY <2>3, SetType
<1>2. params.lru \in BOOLEAN
  BY ParamsType DEF TypeOK
<1>3. Ranks(s)
  BY DEF RankInv
<1>4. PICK v \in 1..n : Stamp(s[v]) = n - 1
  <2>1. n - 1 \in 0..Len(s) - 1
    BY <1>1
  <2> QED BY <1>1, <1>3, <2>1 DEF Ranks
<1>5. Victims(x) = {v}
  <2>1. \A j \in 1..n : Stamp(s[j]) \in 0..n - 1 /\ (Stamp(s[j]) = Stamp(s[v]) => j = v)
    BY <1>1, <1>3 DEF Ranks
  <2>2. \A j \in 1..n : Stamp(s[j]) >= n - 1 <=> j = v
    BY <1>1, <1>4, <2>1
  <2> QED BY <1>1, <2>2 DEF Victims
<1>6. /\ new \in SlotType /\ new.tag = Narrowed(tag) /\ new.dirty = (store /\ params.write_back)
      /\ Stamp(new) = 0
  BY MakeSlot DEF TypeOK
<1>7. \A j \in 1..n : t[j] = IF j = v THEN new ELSE Aged(s[j])
  BY <1>1, <1>5 DEF Evict
<1>8. \A j \in 1..n : /\ Aged(s[j]) \in SlotType
                      /\ Aged(s[j]).tag = s[j].tag /\ Aged(s[j]).dirty = s[j].dirty
                      /\ Stamp(Aged(s[j])) = Stamp(s[j]) + 1
  BY <1>1, <1>2, AgeSlot
<1>9. t \in Seq(SlotType) /\ Len(t) = n
  <2>1. \A j \in 1..n : t[j] \in SlotType
    BY <1>6, <1>7, <1>8
  <2>2. t = [j \in 1..n |-> t[j]]
    BY <1>1 DEF Evict
  <2>3. t \in [1..n -> SlotType]
    BY <2>1, <2>2
  <2> QED BY <1>1, <2>3
<1> HIDE DEF new
<1>10. /\ t[v].tag = Narrowed(tag) /\ t[v].dirty = (store /\ params.write_back) /\ Stamp(t[v]) = 0
       /\ \A j \in 1..n : j # v => /\ t[j].tag = s[j].tag /\ t[j].dirty = s[j].dirty
                                   /\ Stamp(t[j]) = Stamp(s[j]) + 1
  BY <1>6, <1>7, <1>8
<1> QED BY <1>1, <1>4, <1>5, <1>9, <1>10
-----------------------------------------------------------------------------
(* The stamps stay ranks *)

IsRank(f, n) ==
  /\ f \in [1..n -> 0..n - 1]
  /\ \A k \in 0..n - 1 : \E i \in 1..n : f[i] = k
  /\ \A i, j \in 1..n : f[i] = f[j] => i = j

(* One place becomes the first, those before it move back. *)
LEMMA RankToFront ==
  ASSUME NEW n \in Nat, NEW f, IsRank(f, n), NEW i \in 1..n,
         NEW g, DOMAIN g = 1..n, g = [j \in 1..n |-> g[j]], g[i] = 0,
         \A j \in 1..n : j # i => g[j] = IF f[j] < f[i] THEN f[j] + 1 ELSE f[j]
  PROVE  IsRank(g, n)
<1>1. f[i] \in Int /\ 0 <= f[i] /\ f[i] < n
      /\ \A j \in 1..n : f[j] \in Int /\ 0 <= f[j] /\ f[j] < n /\ (f[j] = f[i] => j = i)
  BY DEF IsRank
<1>2. \A j \in 1..n : g[j] \in 0..n - 1
  BY <1>1
<1>3. ASSUME NEW k \in 0..n - 1 PROVE \E j \in 1..n : g[j] = k
  <2>1. CASE k = 0
    BY <2>1
  <2>2. CASE 0 < k /\ k <= f[i]
    <3>1. k - 1 \in 0..n - 1
      BY <2>2
    <3>2. PICK j \in 1..n : f[j] = k - 1
      BY <3>1 DEF IsRank
    <3>3. j # i /\ f[j] < f[i] /\ f[j] + 1 = k
      BY <1>1, <2>2, <3>2
    <3> QED BY <3>3
  <2>3. CASE f[i] < k
    <3>1. PICK j \in 1..n : f[j] = k
      BY DEF IsRank
    <3>2. j # i /\ ~(f[j] < f[i])
      BY <1>1, <2>3, <3>1
    <3> QED BY <3>1, <3>2
  <2> QED BY <1>1, <2>1, <2>2, <2>3
<1>4. ASSUME NEW j \in 1..n, NEW k \in 1..n, g[j] = g[k] PROVE j = k
  <2>1. f[j] = f[k] => j = k
    BY DEF IsRank
  <2>2. f[i] \in Int /\ f[j] \in Int /\ f[k] \in Int /\ 0 <= f[j] /\ 0 <= f[k]
    BY <1>1
  <2>3. \A l \in {j, k} : l # i => /\ g[l] = IF f[l] < f[i] THEN f[l] + 1 ELSE f[l]
                                   /\ f[l] # f[i]
    BY <1>1
  <2>4. CASE j # i /\ k # i
    <3>1. f[j] = f[k]
      BY <1>4, <2>2, <2>3, <2>4
    <3> QED BY <2>1, <3>1
  <2>5. CASE j = i /\ k # i
    <3>1. g[k] # 0
      BY <1>1, <2>2, <2>3, <2>5
    <3> QED BY <1>4, <2>5, <3>1
  <2>6. CASE j # i /\ k = i
    <3>1. g[j] # 0
      BY <1>1, <2>2, <2>3, <2>6
    <3> QED BY <1>4, <2>6, <3>1
  <2> QED BY <2>4, <2>5, <2>6
<1>5. g \in [1..n -> 0..n - 1]
  BY <1>2
<1> QED BY <1>3, <1>4, <1>5 DEF IsRank

LEMMA RankAppend ==
  ASSUME NEW n \in Nat, NEW f, IsRank(f, n), NEW m, m = n + 1,
         NEW g, DOMAIN g = 1..m, g = [j \in 1..m |-> g[j]], g[m] = 0,
         \A j \in 1..n : g[j] = f[j] + 1
  PROVE  IsRank(g, m)
<1>1. \A j \in 1..n : f[j] \in 0..n - 1
  BY DEF IsRank
<1>2. \A j \in 1..n : f[j] \in Int /\ f[j] + 1 \in 1..n
  BY <1>1
<1>3. \A j \in 1..n : f[j] \in Int /\ g[j] = f[j] + 1 /\ g[j] \in 1..n
  BY <1>2
<1>4. m \in Nat /\ m # 0 /\ \A j \in 1..m : j \in 1..n \/ j = m
  OBVIOUS
<1>5. 1..n \subseteq 0..m - 1 /\ 0 \in 0..m - 1 /\ 1..n \subseteq 1..m /\ m \in 1..m
  BY <1>4
<1>6. \A j \in 1..m : g[j] \in 0..m - 1
  BY <1>3, <1>4, <1>5
<1>7. ASSUME NEW k \in 0..m - 1 PROVE \E j \in 1..m : g[j] = k
  <2>1. CASE k = 0
    BY <1>5, <2>1
  <2>2. CASE k # 0
    <3>1. k - 1 \in 0..n - 1 /\ k \in Int /\ (k - 1) + 1 = k
      BY <2>2
    <3>2. PICK j \in 1..n : f[j] = k - 1
      BY <3>1 DEF IsRank
    <3>3. g[j] = k
      BY <1>3, <3>1, <3>2
    <3> QED BY <1>5, <3>3
  <2> QED BY <2>1, <2>2
<1>8. ASSUME NEW j \in 1..m, NEW k \in 1..m, g[j] = g[k] PROVE j = k
  <2>1. CASE j \in 1..n /\ k \in 1..n
    <3>1. f[j] \in Int /\ f[k] \in Int /\ f[j] + 1 = f[k] + 1
      BY <1>3, <1>8, <2>1
    <3>2. f[j] = f[k]
      BY <3>1
    <3> QED BY <2>1, <3>2 DEF IsRank
  <2>2. \A l \in 1..n : g[l] # 0
    BY <1>3
  <2> QED BY <1>4, <1>8, <2>1, <2>2
<1>9. g \in [1..m -> 0..m - 1]
  BY <1>6
<1> QED BY <1>7, <1>8, <1>9 DEF IsRank

StampsOf(s) == [j \in 1..Len(s) |-> Stamp(s[j])]

LEMMA RanksIsRank ==
  ASSUME NEW s, DOMAIN s = 1..Len(s)
  PROVE  Ranks(s) <=> IsRank(StampsOf(s), Len(s))
<1> DEFINE f == StampsOf(s)
<1>1. \A j \in 1..Len(s) : f[j] = Stamp(s[j])
  BY DEF StampsOf
<1>2. f \in [1..Len(s) -> 0..Len(s) - 1] <=> \A j \in 1..Len(s) : Stamp(s[j]) \in 0..Len(s) - 1
  BY DEF StampsOf
<1> DEFINE n == Len(s)
<1> HIDE DEF f, n
<1>3. /\ \A j \in 1..n : f[j] = Stamp(s[j])
      /\ f \in [1..n -> 0..n - 1] <=> \A j \in 1..n : Stamp(s[j]) \in 0..n - 1
  BY <1>1, <1>2 DEF n
<1>4. (\A k \in 0..n - 1 : \E j \in 1..n : f[j] = k)
        <=> (\A k \in 0..n - 1 : \E j \in 1..n : Stamp(s[j]) = k)
  BY <1>3
<1>5. (\A j, k \in 1..n : f[j] = f[k] => j = k)
        <=> (\A j, k \in 1..n : Stamp(s[j]) = Stamp(s[k]) => j = k)
  BY <1>3
<1> QED BY <1>3, <1>4, <1>5 DEF Ranks, IsRank, f, n

LEMMA TouchRanks ==
  ASSUME TypeOK, RankInv, NEW x \in Indexes, NEW i \in DOMAIN slots[x],
         NEW store \in BOOLEAN
  PROVE  Ranks(Touch(x, i, store))
<1> DEFINE s == slots[x]
           n == Len(slots[x])
           t == Touch(x, i, store)
<1>0. t = Touch(x, i, store) /\ s = slots[x] /\ n = Len(slots[x])
  OBVIOUS
<1>1. n \in Nat /\ DOMAIN s = 1..n /\ i \in 1..n
  BY SetType
<1>2. IsRank(StampsOf(s), n)
  BY <1>1, RanksIsRank DEF RankInv
<1> HIDE DEF t, s, n
<1>3. /\ Len(t) = n /\ DOMAIN t = 1..n
      /\ ~params.lru => \A j \in 1..n : Stamp(t[j]) = Stamp(s[j])
      /\ params.lru =>
           /\ Stamp(t[i]) = 0
           /\ \A j \in 1..n : j # i =>
                Stamp(t[j]) = IF Stamp(s[j]) < Stamp(s[i]) THEN Stamp(s[j]) + 1 ELSE Stamp(s[j])
  <2>1. t \in Seq(SlotType) /\ Len(t) = n
    BY <1>0, TouchSlots
  <2> QED BY <1>0, <1>1, <2>1, TouchSlots
<1>4. /\ \A j \in 1..n : StampsOf(t)[j] = Stamp(t[j])
      /\ DOMAIN StampsOf(t) = 1..n /\ StampsOf(t) = [j \in 1..n |-> StampsOf(t)[j]]
  BY <1>3 DEF StampsOf
<1>5. \A j \in 1..n : StampsOf(s)[j] = Stamp(s[j])
  BY DEF StampsOf, n, s
<1>6. CASE params.lru
  <2>1. IsRank(StampsOf(t), n)
    BY <1>1, <1>2, <1>3, <1>4, <1>5, <1>6, RankToFront
  <2> QED BY <1>3, <2>1, RanksIsRank DEF t
<1>7. CASE ~params.lru
  <2>1. StampsOf(t) = StampsOf(s)
    BY <1>3, <1>7 DEF StampsOf, n, s
  <2> QED BY <1>2, <1>3, <2>1, RanksIsRank DEF t
<1> QED BY <1>6, <1>7

LEMMA FillRanks ==
  ASSUME TypeOK, RankInv, NEW x \in Indexes, NEW tag \in Tags, NEW store \in BOOLEAN
  PROVE  Ranks(Fill(x, NewSlot(tag, store)))
<1> DEFINE s == slots[x]
           n == Len(slots[x])
           t == Fill(x, NewSlot(tag, store))
<1>0. t = Fill(x, NewSlot(tag, store)) /\ s = slots[x] /\ n = Len(slots[x])
  OBVIOUS
<1>1. n \in Nat /\ DOMAIN s = 1..n
  BY SetType
<1>2. IsRank(StampsOf(s), n)
  BY <1>1, RanksIsRank DEF RankInv
<1> HIDE DEF t, s, n
<1>3. /\ Len(t) = n + 1 /\ t \in Seq(SlotType) /\ Stamp(t[n + 1]) = 0
      /\ \A j \in 1..n : Stamp(t[j]) = Stamp(s[j]) + 1
  BY <1>0, FillSlots
<1>4. DOMAIN t = 1..n + 1
  BY <1>1, <1>3
<1>5. /\ \A j \in 1..n + 1 : StampsOf(t)[j] = Stamp(t[j])
      /\ DOMAIN StampsOf(t) = 1..n + 1 /\ StampsOf(t) = [j \in 1..n + 1 |-> StampsOf(t)[j]]
  BY <1>3 DEF StampsOf
<1>6. \A j \in 1..n : StampsOf(s)[j] = Stamp(s[j]) /\ j \in 1..n + 1
  BY <1>1 DEF StampsOf, n, s
<1>7. n + 1 \in 1..n + 1
  BY <1>1
<1>8. IsRank(StampsOf(t), n + 1)
  BY <1>1, <1>2, <1>3, <1>5, <1>6, <1>7, RankAppend
<1> QED BY <1>3, <1>4, <1>8, RanksIsRank DEF t

LEMMA EvictRanks ==
  ASSUME TypeOK, RankInv, NEW x \in Indexes, NEW tag \in Tags, NEW store \in BOOLEAN,
         Full(x)
  PROVE  Ranks(Evict(x, NewSlot(tag, store)))
<1> DEFINE s == slots[x]
           n == Len(slots[x])
           t == Evict(x, NewSlot(tag, store))
<1>0. t = Evict(x, NewSlot(tag, store)) /\ s = slots[x] /\ n = Len(slots[x])
  OBVIOUS
<1>1. n \in Nat /\ DOMAIN s = 1..n
  BY SetType
<1>2. IsRank(StampsOf(s), n)
  BY <1>1, RanksIsRank DEF RankInv
<1> HIDE DEF t, s, n
<1>3. t \in Seq(SlotType) /\ Len(t) = n
  BY <1>0, EvictSlots
<1>4. PICK v \in 1..n : /\ Stamp(s[v]) = n - 1 /\ Stamp(t[v]) = 0
                        /\ \A j \in 1..n : j # v => Stamp(t[j]) = Stamp(s[j]) + 1
  BY <1>0, EvictSlots
<1>5. DOMAIN t = 1..n
  BY <1>1, <1>3
<1>6. /\ \A j \in 1..n : StampsOf(t)[j] = Stamp(t[j])
      /\ DOMAIN StampsOf(t) = 1..n /\ StampsOf(t) = [j \in 1..n |-> StampsOf(t)[j]]
  BY <1>3 DEF StampsOf
<1>7. \A j \in 1..n : StampsOf(s)[j] = Stamp(s[j])
  BY DEF StampsOf, n, s
<1>8. \A j \in 1..n : j # v => StampsOf(s)[j] < StampsOf(s)[v]
  <2>1. \A j \in 1..n : /\ StampsOf(s)[j] \in 0..n - 1
                        /\ StampsOf(s)[j] = StampsOf(s)[v] => j = v
    BY <1>2 DEF IsRank
  <2> QED BY <1>1, <1>4, <1>7, <2>1
<1>9. IsRank(StampsOf(t), n)
  BY <1>1, <1>2, <1>4, <1>6, <1>7, <1>8, RankToFront
<1> QED BY <1>3, <1>5, <1>9, RanksIsRank DEF t
-----------------------------------------------------------------------------
(* The invariant *)

LEMMA CacheInit == Init => IInv
<1> SUFFICES ASSUME Init PROVE IInv
  OBVIOUS
<1>1. params \in Params /\ params.num_set_cache \in Nat /\ params.block_set \in Nat
  BY ParamsType DEF Init
<1>2. /\ DOMAIN slots = Indexes
      /\ \A x \in Indexes : slots[x] = << >>
  BY DEF Init, Indexes
<1>3. TypeOK
  <2>1. counts \in [Counters -> 0..MaxAccesses] /\ accesses \in 0..MaxAccesses
    BY TraceAssumption DEF Init
  <2>2. /\ << >> \in Seq([tag : SlotTags, dirty : BOOLEAN, load_ts : Nat, access_ts : Nat])
        /\ Len(<< >>) = 0
    OBVIOUS
  <2> QED BY <1>1, <1>2, <2>1, <2>2 DEF TypeOK, Init
<1>4. RankInv
  BY <1>2 DEF RankInv, Ranks
<1>5. CountInv /\ SavedInv
  BY DEF Init, CountInv, SavedInv
<1> QED BY <1>3, <1>4, <1>5 DEF IInv

LEMMA SlotsStep ==
  ASSUME IInv, NEW x \in Indexes, NEW t, t \in Seq(SlotType), Len(t) <= params.block_set,
         Ranks(t), slots' = [slots EXCEPT ![x] = t], params' = params
  PROVE  /\ DOMAIN slots' = Indexes'
         /\ \A y \in Indexes' :
              /\ slots'[y] \in Seq([tag : SlotTags', dirty : BOOLEAN, load_ts : Nat, access_ts : Nat])
              /\ Len(slots'[y]) <= params'.block_set
         /\ RankInv'
<1>1. Indexes' = Indexes /\ SlotTags' = SlotTags /\ DOMAIN slots = Indexes
  BY DEF Indexes, SlotTags, Narrowed, Tags, Tag, Block, IInv, TypeOK
<1>2. DOMAIN slots' = Indexes /\ slots'[x] = t /\ \A y \in Indexes : y # x => slots'[y] = slots[y]
  BY <1>1
<1>3. \A y \in Indexes : /\ slots'[y] \in Seq(SlotType)
                         /\ Len(slots'[y]) <= params.block_set /\ Ranks(slots'[y])
  BY <1>2, SetType DEF IInv, RankInv
<1>5. RankInv'
  BY <1>1, <1>3 DEF RankInv, Ranks, Stamp
<1> QED BY <1>1, <1>2, <1>3, <1>5 DEF SlotType

LEMMA LineStep ==
  ASSUME IInv, NEW a \in Addresses, NEW miss \in BOOLEAN, NEW store \in BOOLEAN,
         ReadLine(a, miss, store)
  PROVE  /\ params' = params /\ line' = <<a, store>>
         /\ counts' \in [Counters -> 0..MaxAccesses]
         /\ accesses' \in 0..MaxAccesses
         /\ line' \in {<< >>} \cup (Addresses \X BOOLEAN)
         /\ CountInv'
         /\ Counter(miss, store) \in Counters
         /\ counts'[Counter(miss, store)] = counts[Counter(miss, store)] + 1
<1>1. Counter(miss, store) \in Counters
  BY DEF Counter, Counters
<1>2. /\ accesses \in 0..MaxAccesses /\ accesses < MaxAccesses /\ MaxAccesses \in Nat
      /\ \A c \in Counters : counts[c] \in 0..MaxAccesses /\ counts[c] <= accesses
      /\ counts \in [Counters -> 0..MaxAccesses]
  BY TraceAssumption DEF ReadLine, IInv, TypeOK, CountInv
<1>3. /\ accesses' = accesses + 1 /\ line' = <<a, store>> /\ params' = params
      /\ counts' = [counts EXCEPT ![Counter(miss, store)] = @ + 1]
  BY DEF ReadLine, CountOne
<1>4. accesses' \in 0..MaxAccesses
  BY <1>2, <1>3
<1>5. \A c \in Counters : /\ counts'[c] \in 0..MaxAccesses /\ counts'[c] <= accesses'
  <2> SUFFICES ASSUME NEW c \in Counters
               PROVE  counts'[c] \in 0..MaxAccesses /\ counts'[c] <= accesses'
    OBVIOUS
  <2>1. counts[c] \in Int /\ 0 <= counts[c] /\ counts[c] <= accesses /\ accesses \in Int
    BY <1>2
  <2>2. counts'[c] = counts[c] \/ counts'[c] = counts[c] + 1
    BY <1>2, <1>3
  <2> QED BY <1>2, <1>3, <2>1, <2>2
<1>6. counts' \in [Counters -> 0..MaxAccesses]
  BY <1>2, <1>3, <1>5
<1>7. counts'[Counter(miss, store)] = counts[Counter(miss, store)] + 1
  BY <1>1, <1>2, <1>3
<1> QED BY <1>1, <1>3, <1>4, <1>5, <1>6, <1>7 DEF CountInv

LEMMA CostType ==
  ASSUME IInv, NEW miss \in BOOLEAN, NEW store \in BOOLEAN
  PROVE  Cost(miss, store) \in Nat
<1>1. num_byte_load \in Nat /\ 1 + 100 * num_byte_load \in Nat
  BY ParamsType DEF IInv, TypeOK
<1>2. Cost(miss, store) \in {1, 101, 100, 1 + 100 * num_byte_load, 100 + (1 + 100 * num_byte_load)}
  BY DEF Cost
<1> QED BY <1>1, <1>2

(* A write-through cache never has anything to save. *)
LEMMA SavedStep ==
  ASSUME IInv, NEW a \in Addresses, NEW store \in BOOLEAN, params' = params,
         unsaved' \subseteq unsaved \cup Stored(a, store)
  PROVE  unsaved' \subseteq {Block(b) : b \in Addresses}' /\ SavedInv'
<1>1. {Block(b) : b \in Addresses}' = {Block(b) : b \in Addresses}
  BY DEF Block
<1>2. unsaved \subseteq {Block(b) : b \in Addresses}
  BY DEF IInv, TypeOK
<1> QED BY <1>1, <1>2 DEF Stored, SavedInv, IInv

LEMMA CacheStep == IInv /\ [Next]_vars => IInv'
<1> SUFFICES ASSUME IInv, [Next]_vars PROVE IInv'
  OBVIOUS
<1>0. TypeOK /\ RankInv /\ params \in Params /\ params.block_set \in Nat /\ cycles \in Nat
  BY ParamsType DEF IInv, TypeOK
<1>1. ASSUME NEW a \in Addresses, NEW store \in BOOLEAN, Hit(a, store) PROVE IInv'
  <2> DEFINE x == Index(a)
  <2>1. x \in Indexes
    BY <1>0, AddressType
  <2>2. PICK k \in DOMAIN slots[x] : slots' = [slots EXCEPT ![x] = Touch(x, k, store)]
    BY <1>1 DEF Hit, Lookup
  <2>3. /\ ReadLine(a, FALSE, store) /\ cycles' = cycles + Cost(FALSE, store)
        /\ unsaved' = unsaved \cup Stored(a, store)
    BY <1>1 DEF Hit
  <2> DEFINE t == Touch(x, k, store)
  <2>4. t \in Seq(SlotType) /\ Len(t) = Len(slots[x])
    BY <1>0, <2>1, TouchSlots
  <2>5. Len(t) <= params.block_set /\ Ranks(t)
    BY <1>0, <2>1, <2>4, SetType, TouchRanks
  <2> HIDE DEF t, x
  <2>6. params' = params /\ slots' = [slots EXCEPT ![x] = t]
    BY <2>2, <2>3, LineStep DEF t
  <2>7. cycles' \in Nat
    <3> DEFINE z == Cost(FALSE, store)
    <3>1. z \in Nat
      BY CostType, Zenon
    <3>2. cycles' = cycles + z
      BY <2>3
    <3> HIDE DEF z
    <3> QED BY <1>0, <3>1, <3>2
  <2> QED BY <1>0, <2>1, <2>3, <2>4, <2>5, <2>6, <2>7, SlotsStep, LineStep, SavedStep
          DEF IInv, TypeOK
<1>2. ASSUME NEW a \in Addresses, NEW store \in BOOLEAN, MissAround(a, store) PROVE IInv'
  <2>1. /\ ReadLine(a, TRUE, store) /\ cycles' = cycles + Cost(TRUE, store)
        /\ slots' = slots /\ unsaved' = unsaved
    BY <1>2 DEF MissAround
  <2>2. cycles' \in Nat
    <3> DEFINE z == Cost(TRUE, store)
    <3>1. z \in Nat
      BY CostType, Zenon
    <3>2. cycles' = cycles + z
      BY <2>1
    <3> HIDE DEF z
    <3> QED BY <1>0, <3>1, <3>2
  <2>3. params' = params /\ slots' = slots
    BY <2>1, LineStep
  <2>4. RankInv'
    BY <1>0, <2>3 DEF RankInv, Ranks, Stamp, Indexes
  <2>5. SavedInv' /\ unsaved' \subseteq {Block(b) : b \in Addresses}'
    BY <2>1, <2>3, SavedStep
  <2>6. Indexes' = Indexes /\ SlotTags' = SlotTags
    BY <2>3 DEF Indexes, SlotTags, Narrowed, Tags, Tag, Block
  <2> QED BY <1>0, <2>1, <2>2, <2>3, <2>4, <2>5, <2>6, LineStep DEF IInv, TypeOK
<1>3. ASSUME NEW a \in Addresses, NEW store \in BOOLEAN, MissFill(a, store) PROVE IInv'
  <2> DEFINE x == Index(a)
             t == Fill(x, NewSlot(Tag(a), store))
             n == Len(slots[x])
  <2>1. x \in Indexes /\ Tag(a) \in Tags
    BY <1>0, AddressType
  <2>2. /\ ReadLine(a, TRUE, store) /\ cycles' = cycles + Cost(TRUE, store)
        /\ slots' = [slots EXCEPT ![x] = t]
        /\ unsaved' = unsaved \cup Stored(a, store)
        /\ ~(Len(slots[x]) >= params.block_set)
    BY <1>3 DEF MissFill, Full
  <2>0. t = Fill(x, NewSlot(Tag(a), store)) /\ n = Len(slots[x])
    OBVIOUS
  <2>4. Len(slots[x]) \in Nat
    BY <1>0, <2>1, SetType
  <2>5. Ranks(t)
    BY <1>0, <2>1, FillRanks
  <2> HIDE DEF t, x, n
  <2>3. t \in Seq(SlotType) /\ Len(t) = Len(slots[x]) + 1
    BY <1>0, <2>0, <2>1, FillSlots
  <2>6. Len(t) <= params.block_set
    BY <1>0, <2>2, <2>3, <2>4
  <2>7. params' = params /\ cycles' \in Nat
    <3> DEFINE z == Cost(TRUE, store)
    <3>1. z \in Nat
      BY CostType, Zenon
    <3>2. cycles' = cycles + z
      BY <2>2
    <3> HIDE DEF z
    <3>3. cycles' \in Nat
      BY <1>0, <3>1, <3>2
    <3> QED BY <2>2, <3>3, LineStep
  <2> QED BY <1>0, <2>1, <2>2, <2>3, <2>5, <2>6, <2>7, SlotsStep, LineStep, SavedStep
          DEF IInv, TypeOK
<1>4. ASSUME NEW a \in Addresses, NEW store \in BOOLEAN, MissEvict(a, store) PROVE IInv'
  <2> DEFINE x == Index(a)
             t == Evict(x, NewSlot(Tag(a), store))
             n == Len(slots[x])
             saved == Dirty(x, Victims(x))
  <2>1. x \in Indexes /\ Tag(a) \in Tags
    BY <1>0, AddressType
  <2>2. /\ ReadLine(a, TRUE, store)
        /\ cycles' = cycles + Cost(TRUE, store) + Cardinality(saved) * 100 * num_byte_load
        /\ slots' = [slots EXCEPT ![x] = t]
        /\ unsaved' \subseteq unsaved \cup Stored(a, store)
        /\ Full(x)
    BY <1>4 DEF MissEvict
  <2>0. t = Evict(x, NewSlot(Tag(a), store)) /\ n = Len(slots[x])
    OBVIOUS
  <2>4. Ranks(t)
    BY <1>0, <2>1, <2>2, EvictRanks
  <2> HIDE DEF t, x, n
  <2>3. t \in Seq(SlotType) /\ Len(t) = Len(slots[x]) /\ \E v : Victims(x) = {v}
    <3> DEFINE tag == Tag(a)
    <3>1. tag \in Tags /\ t = Evict(x, NewSlot(tag, store)) /\ n = Len(slots[x]) /\ Full(x)
      BY <2>0, <2>1, <2>2
    <3> HIDE DEF tag
    <3>2. t \in Seq(SlotType) /\ Len(t) = n
      BY <1>0, <2>1, <3>1, EvictSlots
    <3>3. \E v \in 1..n : Victims(x) = {v}
      BY <1>0, <2>1, <3>1, EvictSlots
    <3> QED BY <3>1, <3>2, <3>3
  <2>5. Cardinality(saved) \in Nat
    <3>1. IsFiniteSet(Victims(x))
      BY <2>3, FS_Singleton
    <3>2. saved \subseteq Victims(x)
      BY DEF Dirty
    <3> QED BY <3>1, <3>2, FS_Subset, FS_CardinalityType
  <2>6. Len(t) <= params.block_set
    BY <1>0, <2>1, <2>3, SetType
  <2> HIDE DEF saved
  <2>7. params' = params
    BY <2>2, LineStep
  <2>8. cycles' \in Nat
    <3>1. Cost(TRUE, store) \in Nat
      BY CostType, Zenon
    <3>2. num_byte_load \in Nat
      BY <1>0, ParamsType
    <3>3. Cardinality(saved) * 100 * num_byte_load \in Nat
      BY <2>5, <3>2
    <3>4. cycles' = cycles + Cost(TRUE, store) + Cardinality(saved) * 100 * num_byte_load
      BY <2>2
    <3> DEFINE y == Cardinality(saved) * 100 * num_byte_load
               z == Cost(TRUE, store)
    <3> HIDE DEF y, z
    <3>5. y \in Nat /\ z \in Nat /\ cycles' = cycles + z + y
      BY <3>1, <3>3, <3>4 DEF y, z
    <3> QED BY <1>0, <3>5
  <2> QED BY <1>0, <2>1, <2>2, <2>3, <2>4, <2>6, <2>7, <2>8, SlotsStep, LineStep, SavedStep
          DEF IInv, TypeOK
<1>5. CASE UNCHANGED vars
  <2>1. /\ UNCHANGED <<params, slots, counts, cycles, accesses, line, unsaved>>
        /\ Indexes' = Indexes /\ SlotTags' = SlotTags
        /\ {Block(b) : b \in Addresses}' = {Block(b) : b \in Addresses}
    BY <1>5 DEF vars, Indexes, SlotTags, Narrowed, Tags, Tag, Block
  <2>2. TypeOK'
    BY <1>0, <2>1 DEF TypeOK
  <2>3. RankInv' /\ CountInv' /\ SavedInv'
    BY <2>1 DEF IInv, RankInv, Ranks, Stamp, CountInv, SavedInv
  <2> QED BY <2>2, <2>3 DEF IInv
<1> QED BY <1>1, <1>2, <1>3, <1>4, <1>5 DEF Next

THEOREM CacheInvariant == Spec => []IInv
BY CacheInit, CacheStep, PTL DEF Spec

(* Every variable of the simulator keeps its type, for any geometry and     *)
(* trace, tags that do not fit included; in particular a set never uses     *)
(* more slots than it has.                                                  *)
THEOREM CacheTypeCorrect == Spec => []TypeOK
<1>1. IInv => TypeOK
  BY DEF IInv
<1> QED BY <1>1, CacheInvariant, PTL

(* main.cpp:172 and 186 look for a stamp of at least occupancy - 1: for any *)
(* geometry, trace and policy the stamps of a set are 0 .. occupancy - 1,   *)
(* each once, so that a full set has one victim, whether tags fit or not.   *)
THEOREM StampsRank == Spec => []StampsAreRanks
<1>1. IInv => StampsAreRanks
  <2> SUFFICES ASSUME IInv, NEW x \in Indexes
               PROVE  {Stamp(slots[x][i]) : i \in DOMAIN slots[x]} = 0..Len(slots[x]) - 1
    BY DEF StampsAreRanks
  <2> QED BY DEF IInv, RankInv, Ranks
<1> QED BY <1>1, CacheInvariant, PTL
-----------------------------------------------------------------------------
(* What is stored is saved *)

Marked(b, x, i) ==
  /\ x \in Indexes /\ i \in DOMAIN slots[x]
  /\ BlockOf(x, slots[x][i].tag) = b /\ slots[x][i].dirty

LEMMA NewlyLost ==
  ASSUME params' = params, NEW b \in Lost' \ Lost
  PROVE  /\ b \in unsaved'
         /\ \A x, i : ~Marked(b, x, i)'
         /\ b \in unsaved => \E x, i : Marked(b, x, i)
<1>1. b \in unsaved' /\ \A x, i : ~Marked(b, x, i)'
  BY DEF Lost, Marked, BlockOf, Indexes
<1>2. ASSUME b \in unsaved PROVE \E x, i : Marked(b, x, i)
  BY <1>2 DEF Lost, Marked
<1> QED BY <1>1, <1>2

(* The operations on a set other than the one that hit keep what is marked. *)
LEMMA MarkedKept ==
  ASSUME params' = params, NEW b, NEW x, NEW i, Marked(b, x, i),
         NEW y, NEW t, DOMAIN slots = Indexes, slots' = [slots EXCEPT ![y] = t],
         x = y => i \in DOMAIN t /\ t[i].tag = slots[x][i].tag /\ t[i].dirty
  PROVE  Marked(b, x, i)'
<1>1. slots'[x] = IF x = y THEN t ELSE slots[x]
  BY DEF Marked
<1> QED BY <1>1 DEF Marked, BlockOf, Indexes

LEMMA MarkedNew ==
  ASSUME params \in Params, params' = params, DOMAIN slots = Indexes,
         NEW a \in Addresses, NEW b, b = Block(a), NEW x, x = Index(a),
         NEW t, slots' = [slots EXCEPT ![x] = t],
         NEW i \in DOMAIN t, t[i].tag = Tag(a), t[i].dirty,
         \A y, j : ~Marked(b, y, j)'
  PROVE  FALSE
<1>1. x \in Indexes /\ BlockOf(x, Tag(a)) = b
  BY AddressType
<1>2. slots'[x] = t
  BY <1>1
<1>3. Marked(b, x, i)'
  BY <1>1, <1>2 DEF Marked, BlockOf, Indexes
<1> QED BY <1>3

LEMMA LossByHit ==
  ASSUME IInv, NEW a \in Addresses, NEW store \in BOOLEAN, Hit(a, store),
         NEW b \in Lost' \ Lost
  PROVE  /\ Block(line'[1]) = b /\ ~line'[2]
         /\ counts'["load_hits"] > counts["load_hits"]
<1> DEFINE x == Index(a)
<1>0. TypeOK /\ RankInv /\ params \in Params /\ DOMAIN slots = Indexes
  BY DEF IInv, TypeOK
<1>1. x \in Indexes /\ Tag(a) \in Tags /\ BlockOf(x, Tag(a)) = Block(a)
  BY <1>0, AddressType
<1>2. PICK k \in DOMAIN slots[x] :
        slots[x][k].tag = Tag(a) /\ slots' = [slots EXCEPT ![x] = Touch(x, k, store)]
  BY DEF Hit, Lookup
<1>3. ReadLine(a, FALSE, store) /\ unsaved' = unsaved \cup Stored(a, store)
  BY DEF Hit
<1>4. params' = params /\ line' = <<a, store>>
  BY <1>3 DEF ReadLine
<1> DEFINE t == Touch(x, k, store)
<1>5. /\ DOMAIN t = DOMAIN slots[x]
      /\ \A j \in DOMAIN slots[x] : t[j].tag = slots[x][j].tag
      /\ t[k].dirty = (store /\ params.write_back)
      /\ \A j \in DOMAIN slots[x] : j # k => t[j].dirty = slots[x][j].dirty
  <2>1. DOMAIN t = DOMAIN slots[x] /\ t = Touch(x, k, store)
    BY DEF Touch
  <2> HIDE DEF t
  <2> QED BY <1>0, <1>1, <2>1, TouchSlots
<1> HIDE DEF t
<1>6. /\ b \in unsaved' /\ \A y, i : ~Marked(b, y, i)'
      /\ b \in unsaved => \E y, i : Marked(b, y, i)
  BY <1>4, NewlyLost
<1>7. slots' = [slots EXCEPT ![x] = t]
  BY <1>2 DEF t
<1>8. ~(store /\ params.write_back /\ b = Block(a))
  <2> SUFFICES ASSUME store /\ params.write_back /\ b = Block(a) PROVE FALSE
    OBVIOUS
  <2>1. t[k].dirty /\ t[k].tag = Tag(a) /\ k \in DOMAIN t
    BY <1>2, <1>5
  <2> QED BY <1>0, <1>4, <1>6, <1>7, <2>1, MarkedNew
<1>9. b \in unsaved
  BY <1>3, <1>6, <1>8 DEF Stored
<1>10. PICK y, i : Marked(b, y, i)
  BY <1>6, <1>9
<1>11. y = x /\ i = k
  <2> SUFFICES ASSUME ~(y = x /\ i = k) PROVE FALSE
    OBVIOUS
  <2>1. y = x => i \in DOMAIN t /\ t[i].tag = slots[y][i].tag /\ t[i].dirty
    BY <1>5, <1>10 DEF Marked
  <2>2. Marked(b, y, i)'
    BY <1>0, <1>4, <1>7, <1>10, <2>1, MarkedKept
  <2> QED BY <1>6, <2>2
<1>12. b = Block(a)
  BY <1>1, <1>2, <1>10, <1>11 DEF Marked
<1>13. ~store
  BY <1>8, <1>9, <1>12 DEF IInv, SavedInv
<1>14. counts'["load_hits"] = counts["load_hits"] + 1
  BY <1>3, <1>13 DEF ReadLine, CountOne, Counter, Counters, IInv, TypeOK
<1>15. counts["load_hits"] \in Int
  BY TraceAssumption DEF IInv, TypeOK, Counters
<1>16. counts'["load_hits"] > counts["load_hits"]
  BY <1>14, <1>15
<1>17. Block(line'[1]) = b
  BY <1>4, <1>12 DEF Block
<1> QED BY <1>4, <1>13, <1>16, <1>17

LEMMA NoLossByMiss ==
  ASSUME TagsFit, IInv, NEW a \in Addresses, NEW store \in BOOLEAN,
         MissAround(a, store) \/ MissFill(a, store) \/ MissEvict(a, store),
         NEW b \in Lost' \ Lost
  PROVE  FALSE
<1> DEFINE x == Index(a)
<1>0. TypeOK /\ RankInv /\ params \in Params /\ DOMAIN slots = Indexes
  BY DEF IInv, TypeOK
<1>1. x \in Indexes /\ Tag(a) \in Tags /\ Narrowed(Tag(a)) = Tag(a)
  BY <1>0, AddressType, FitsWhole
<1>2. params' = params
  BY DEF MissAround, MissFill, MissEvict, ReadLine
<1>3. /\ b \in unsaved' /\ \A y, i : ~Marked(b, y, i)'
      /\ b \in unsaved => \E y, i : Marked(b, y, i)
  BY <1>2, NewlyLost
<1>4. CASE MissAround(a, store)
  <2>1. slots' = slots /\ unsaved' = unsaved
    BY <1>4 DEF MissAround
  <2> QED BY <1>2, <1>3, <2>1 DEF Marked, BlockOf, Indexes
<1>5. CASE MissFill(a, store)
  <2> DEFINE t == Fill(x, NewSlot(Tag(a), store))
             n == Len(slots[x])
  <2>0. t = Fill(x, NewSlot(Tag(a), store)) /\ n = Len(slots[x])
    OBVIOUS
  <2>1. slots' = [slots EXCEPT ![x] = t] /\ unsaved' = unsaved \cup Stored(a, store)
    BY <1>5 DEF MissFill
  <2>2. n \in Nat /\ DOMAIN slots[x] = 1..n
    BY <1>0, <1>1, SetType
  <2> HIDE DEF t, n
  <2>3. /\ t \in Seq(SlotType) /\ Len(t) = n + 1
        /\ \A j \in 1..n : t[j].tag = slots[x][j].tag
        /\ \A j \in 1..n : t[j].dirty = slots[x][j].dirty
        /\ t[n + 1].tag = Tag(a) /\ t[n + 1].dirty = (store /\ params.write_back)
    <3>1. x \in Indexes /\ Tag(a) \in Tags
      BY <1>1
    <3>2. t = Fill(x, NewSlot(Tag(a), store))
      BY <2>0
    <3>3. n = Len(slots[x])
      BY <2>0
    <3> HIDE DEF x
    <3>4. t \in Seq(SlotType) /\ Len(t) = n + 1
      BY <1>0, <3>1, <3>2, <3>3, FillSlots
    <3>5. \A j \in 1..n : t[j].tag = slots[x][j].tag
      BY <1>0, <3>1, <3>2, <3>3, FillSlots
    <3>6. \A j \in 1..n : t[j].dirty = slots[x][j].dirty
      BY <1>0, <3>1, <3>2, <3>3, FillSlots
    <3>7. t[n + 1].tag = Narrowed(Tag(a)) /\ t[n + 1].dirty = (store /\ params.write_back)
      BY <1>0, <3>1, <3>2, <3>3, FillSlots
    <3> QED BY <1>1, <3>4, <3>5, <3>6, <3>7
  <2>4. n + 1 \in DOMAIN t /\ \A j \in 1..n : j \in DOMAIN t
    BY <2>2, <2>3
  <2>5. ~(store /\ params.write_back /\ b = Block(a))
    BY <1>0, <1>2, <1>3, <2>1, <2>3, <2>4, MarkedNew
  <2>6. b \in unsaved
    BY <1>3, <2>1, <2>5 DEF Stored
  <2>7. PICK y, i : Marked(b, y, i)
    BY <1>3, <2>6
  <2>8. y = x => i \in DOMAIN t /\ t[i].tag = slots[y][i].tag /\ t[i].dirty
    BY <2>2, <2>3, <2>4, <2>7 DEF Marked
  <2>9. Marked(b, y, i)'
    BY <1>0, <1>2, <2>1, <2>7, <2>8, MarkedKept
  <2> QED BY <1>3, <2>9
<1>6. CASE MissEvict(a, store)
  <2> DEFINE t == Evict(x, NewSlot(Tag(a), store))
             n == Len(slots[x])
             saved == Dirty(x, Victims(x))
  <2>0. t = Evict(x, NewSlot(Tag(a), store)) /\ n = Len(slots[x])
    OBVIOUS
  <2>1. /\ slots' = [slots EXCEPT ![x] = t] /\ Full(x)
        /\ unsaved' = (unsaved \ {BlockOf(x, slots[x][i].tag) : i \in saved})
                        \cup Stored(a, store)
    BY <1>6 DEF MissEvict
  <2>2. n \in Nat /\ DOMAIN slots[x] = 1..n
    BY <1>0, <1>1, SetType
  <2> HIDE DEF t, n
  <2>3. t \in Seq(SlotType) /\ Len(t) = n
    BY <1>0, <1>1, <2>0, <2>1, EvictSlots
  <2>4. PICK v \in 1..n :
          /\ Victims(x) = {v}
          /\ t[v].tag = Tag(a) /\ t[v].dirty = (store /\ params.write_back)
          /\ \A j \in 1..n : j # v =>
               t[j].tag = slots[x][j].tag /\ t[j].dirty = slots[x][j].dirty
    BY <1>0, <1>1, <2>0, <2>1, EvictSlots
  <2>5. \A j \in 1..n : j \in DOMAIN t
    BY <2>2, <2>3
  <2>6. ~(store /\ params.write_back /\ b = Block(a))
    BY <1>0, <1>2, <1>3, <2>1, <2>4, <2>5, MarkedNew
  <2>7. b \in unsaved /\ b \notin {BlockOf(x, slots[x][i].tag) : i \in saved}
    BY <1>3, <2>1, <2>6 DEF Stored
  <2>8. PICK y, i : Marked(b, y, i)
    BY <1>3, <2>7
  <2>9. ~(y = x /\ i = v)
    BY <2>4, <2>7, <2>8 DEF Marked, Dirty
  <2>10. y = x => i \in DOMAIN t /\ t[i].tag = slots[y][i].tag /\ t[i].dirty
    BY <2>2, <2>4, <2>5, <2>8, <2>9 DEF Marked
  <2>11. Marked(b, y, i)'
    BY <1>0, <1>2, <2>1, <2>8, <2>10, MarkedKept
  <2> QED BY <1>3, <2>11
<1> QED BY <1>4, <1>5, <1>6

(* main.cpp:174, 188 and 228: for any geometry and any trace whose tags fit *)
(* a slot (line 158 narrows them), what a store left unsaved stays marked   *)
(* dirty until it is charged for, unless a load hits its block.             *)
THEOREM StoresLostByLoadHits == ASSUME TagsFit PROVE Spec => OnlyLoadHitsLoseStores
<1> DEFINE A == \A b \in Lost' \ Lost :
                  /\ Block(line'[1]) = b /\ ~line'[2]
                  /\ counts'["load_hits"] > counts["load_hits"]
<1>1. IInv /\ [Next]_vars => [A]_vars
  BY LossByHit, NoLossByMiss DEF Next
<1> QED BY <1>1, CacheInvariant, PTL DEF Spec, OnlyLoadHitsLoseStores
-----------------------------------------------------------------------------
(* The lists of blocks that the stamps describe *)

RankedFacts ==
  \A x \in Indexes :
    /\ Ranked(x) \in Seq(Nat) /\ Len(Ranked(x)) = Len(slots[x])
    /\ \A i \in DOMAIN slots[x] :
         Ranked(x)[Stamp(slots[x][i]) + 1] = BlockOf(x, slots[x][i].tag)

LEMMA RankedAt == TypeOK /\ RankInv => RankedFacts
<1> SUFFICES ASSUME TypeOK, RankInv, NEW x \in Indexes
             PROVE  /\ Ranked(x) \in Seq(Nat) /\ Len(Ranked(x)) = Len(slots[x])
                    /\ \A i \in DOMAIN slots[x] :
                         Ranked(x)[Stamp(slots[x][i]) + 1] = BlockOf(x, slots[x][i].tag)
  BY DEF RankedFacts
<1> DEFINE s == slots[x]
           n == Len(slots[x])
           Place(k) == CHOOSE i \in DOMAIN s : Stamp(s[i]) = k - 1
<1>1. /\ s \in Seq(SlotType) /\ n \in Nat /\ DOMAIN s = 1..n
      /\ \A i \in DOMAIN s : s[i] \in SlotType
  BY SetType
<1>2. Ranks(s)
  BY DEF RankInv
<1>3. Ranked(x) = [k \in 1..n |-> BlockOf(x, s[Place(k)].tag)]
  BY <1>1 DEF Ranked
<1>4. \A k \in 1..n : Place(k) \in DOMAIN s /\ Stamp(s[Place(k)]) = k - 1
  <2> SUFFICES ASSUME NEW k \in 1..n
               PROVE  Place(k) \in DOMAIN s /\ Stamp(s[Place(k)]) = k - 1
    OBVIOUS
  <2>1. k - 1 \in 0..n - 1
    BY <1>1
  <2>2. \E i \in DOMAIN s : Stamp(s[i]) = k - 1
    BY <1>2, <2>1 DEF Ranks
  <2> QED BY <2>2
<1>5. \A i \in DOMAIN s : BlockOf(x, s[i].tag) \in Nat
  <2> SUFFICES ASSUME NEW i \in DOMAIN s PROVE BlockOf(x, s[i].tag) \in Nat
    OBVIOUS
  <2>1. s[i].tag \in Nat
    BY <1>1, TagsNat DEF SlotType, TypeOK
  <2>2. params.num_set_cache \in Nat /\ x \in Nat
    BY ParamsType DEF TypeOK, Indexes
  <2> QED BY <2>1, <2>2 DEF BlockOf
<1> HIDE DEF Place, s, n
<1>6. Ranked(x) \in [1..n -> Nat]
  BY <1>3, <1>4, <1>5
<1>7. Ranked(x) \in Seq(Nat) /\ Len(Ranked(x)) = n
  BY <1>1, <1>6
<1>8. ASSUME NEW i \in DOMAIN s
      PROVE  Ranked(x)[Stamp(s[i]) + 1] = BlockOf(x, s[i].tag)
  <2>1. Stamp(s[i]) \in 0..n - 1
    BY <1>2 DEF Ranks, n, s
  <2> DEFINE k == Stamp(s[i]) + 1
  <2>2. k \in 1..n /\ k - 1 = Stamp(s[i])
    BY <1>1, <2>1
  <2> HIDE DEF k
  <2>3. Place(k) = i
    BY <1>2, <1>4, <2>2 DEF Ranks
  <2>4. Ranked(x)[k] = BlockOf(x, s[i].tag)
    BY <1>3, <2>2, <2>3
  <2> QED BY <2>4 DEF k
<1> QED BY <1>7, <1>8 DEF s, n

LEMMA RankedAtNext == TypeOK' /\ RankInv' => RankedFacts'
BY RankedAt, PTL

(* Every place of a list is that of a slot. *)
PlaceFacts ==
  \A x \in Indexes : \A p \in 1..Len(slots[x]) :
    \E i \in DOMAIN slots[x] :
      Stamp(slots[x][i]) = p - 1 /\ Ranked(x)[p] = BlockOf(x, slots[x][i].tag)

LEMMA PlaceOfSlot == TypeOK /\ RankInv => PlaceFacts
<1> SUFFICES ASSUME TypeOK, RankInv, NEW x \in Indexes, NEW p \in 1..Len(slots[x])
             PROVE  \E i \in DOMAIN slots[x] :
                      /\ Stamp(slots[x][i]) = p - 1
                      /\ Ranked(x)[p] = BlockOf(x, slots[x][i].tag)
  BY DEF PlaceFacts
<1>1. Len(slots[x]) \in Nat
  BY SetType
<1>2. p - 1 \in 0..Len(slots[x]) - 1 /\ (p - 1) + 1 = p
  BY <1>1
<1>3. PICK i \in DOMAIN slots[x] : Stamp(slots[x][i]) = p - 1
  BY <1>2 DEF RankInv, Ranks
<1> QED BY <1>2, <1>3, RankedAt DEF RankedFacts

LEMMA PlaceOfSlotNext == TypeOK' /\ RankInv' => PlaceFacts'
BY PlaceOfSlot, PTL

LEMMA SameTag ==
  ASSUME NEW t \in Nat, NEW u \in Nat, NEW n \in Nat \ {0}, NEW x,
         x \in Nat, t * n + x = u * n + x
  PROVE  t = u
OBVIOUS

(* Two sequences that agree at every place. *)
LEMMA SameSequence ==
  ASSUME NEW S, NEW s \in Seq(S), NEW t \in Seq(S), Len(s) = Len(t),
         \A p \in 1..Len(s) : s[p] = t[p]
  PROVE  s = t
OBVIOUS

LEMMA Concat ==
  ASSUME NEW S, NEW s \in Seq(S), NEW t \in Seq(S)
  PROVE  s \o t \in Seq(S) /\ Len(s \o t) = Len(s) + Len(t)
OBVIOUS

(* the list with b in front in place of what is at k *)
MoveUp(list, b, k) == <<b>> \o RemoveAt(list, k)

LEMMA ToFront ==
  ASSUME NEW list \in Seq(Nat), NEW b \in Nat, NEW k \in 1..Len(list),
         NEW m, m = MoveUp(list, b, k)
  PROVE  /\ m \in Seq(Nat) /\ Len(m) = Len(list)
         /\ \A p \in 1..Len(list) :
              m[p] = IF p = 1 THEN b ELSE IF p <= k THEN list[p - 1] ELSE list[p]
<1> DEFINE n == Len(list)
           u == SubSeq(list, 1, k - 1)
           v == SubSeq(list, k + 1, Len(list))
<1>1. n \in Nat /\ k \in 1..n /\ k \in Int
  OBVIOUS
<1>2. u \in Seq(Nat) /\ Len(u) = k - 1 /\ \A p \in 1..k - 1 : u[p] = list[p]
  <2>1. 1 \in Int /\ k - 1 \in Int /\ \A p \in 1..k - 1 : list[p] \in Nat
    BY <1>1
  <2>2. /\ u \in Seq(Nat) /\ Len(u) = IF 1 <= k - 1 THEN (k - 1) - 1 + 1 ELSE 0
        /\ \A p \in 1..(k - 1) - 1 + 1 : u[p] = list[1 + p - 1]
    BY <2>1, SubSeqProperties
  <2>3. (k - 1) - 1 + 1 = k - 1 /\ \A p \in 1..k - 1 : 1 + p - 1 = p
    BY <1>1
  <2>4. Len(u) = k - 1
    BY <1>1, <2>2
  <2> QED BY <2>2, <2>3, <2>4
<1>3. v \in Seq(Nat) /\ Len(v) = n - k /\ \A p \in 1..n - k : v[p] = list[k + p]
  <2>1. k + 1 \in Int /\ n \in Int /\ \A p \in k + 1..n : list[p] \in Nat
    BY <1>1
  <2>2. /\ v \in Seq(Nat) /\ Len(v) = IF k + 1 <= n THEN n - (k + 1) + 1 ELSE 0
        /\ \A p \in 1..n - (k + 1) + 1 : v[p] = list[(k + 1) + p - 1]
    BY <2>1, SubSeqProperties
  <2>3. n - (k + 1) + 1 = n - k /\ \A p \in 1..n - k : (k + 1) + p - 1 = k + p
    BY <1>1
  <2>4. Len(v) = n - k
    <3>1. Len(v) = IF k + 1 <= n THEN n - (k + 1) + 1 ELSE 0
      BY <2>2
    <3>2. n \in Int /\ k \in Int /\ k <= n
      BY <1>1
    <3> HIDE DEF v, n
    <3> QED BY <3>1, <3>2
  <2> QED BY <2>2, <2>3, <2>4
<1>4. m = <<b>> \o (u \o v)
  BY DEF MoveUp, RemoveAt
<1> HIDE DEF u, v, n
<1>5. /\ u \o v \in Seq(Nat) /\ Len(u \o v) = n - 1
      /\ \A p \in 1..n - 1 : (u \o v)[p] = IF p <= k - 1 THEN list[p] ELSE list[p + 1]
  <2>1. u \o v \in Seq(Nat) /\ Len(u \o v) = n - 1
    <3>1. u \o v \in Seq(Nat) /\ Len(u \o v) = Len(u) + Len(v)
      <4>1. u \in Seq(Nat) /\ v \in Seq(Nat)
        BY <1>2, <1>3
      <4> QED BY <4>1, Concat
    <3>2. (k - 1) + (n - k) = n - 1
      BY <1>1
    <3> QED BY <1>2, <1>3, <3>1, <3>2
  <2>2. \A p \in 1..(Len(u) + Len(v)) :
          (u \o v)[p] = IF p <= Len(u) THEN u[p] ELSE v[p - Len(u)]
    BY <1>2, <1>3, ConcatProperties
  <2>3. ASSUME NEW p \in 1..n - 1
        PROVE  (u \o v)[p] = IF p <= k - 1 THEN list[p] ELSE list[p + 1]
    <3>1. p \in 1..((k - 1) + (n - k))
      BY <1>1
    <3>2. (u \o v)[p] = IF p <= k - 1 THEN u[p] ELSE v[p - (k - 1)]
      BY <1>2, <1>3, <2>2, <3>1
    <3>3. CASE p <= k - 1
      <4>1. p \in 1..k - 1
        BY <1>1, <3>3
      <4> QED BY <1>2, <3>2, <3>3, <4>1
    <3>4. CASE ~(p <= k - 1)
      <4>1. p - (k - 1) \in 1..n - k /\ k + (p - (k - 1)) = p + 1
        BY <1>1, <3>4
      <4> QED BY <1>3, <3>2, <3>4, <4>1
    <3> QED BY <3>3, <3>4
  <2> QED BY <2>1, <2>3
<1>6. m \in Seq(Nat) /\ Len(m) = n
  <2>1. m \in Seq(Nat) /\ Len(m) = 1 + Len(u \o v)
    <3>1. <<b>> \in Seq(Nat) /\ Len(<<b>>) = 1 /\ u \o v \in Seq(Nat)
      BY <1>5
    <3> QED BY <1>4, <3>1, Concat
  <2>2. 1 + (n - 1) = n
    BY <1>1
  <2> QED BY <1>5, <2>1, <2>2
<1>7. ASSUME NEW p \in 1..n
      PROVE  m[p] = IF p = 1 THEN b ELSE IF p <= k THEN list[p - 1] ELSE list[p]
  <2>1. CASE p = 1
    BY <1>1, <1>4, <1>5, <2>1
  <2>2. CASE p # 1
    <3>1. p - 1 \in 1..n - 1 /\ (p - 1 <= k - 1 <=> p <= k) /\ (p - 1) + 1 = p
      BY <1>1, <2>2
    <3>2. m[p] = (u \o v)[p - 1]
      <4> DEFINE g == <<b>>
                 f == u \o v
      <4>1. g \in Seq(Nat) /\ f \in Seq(Nat) /\ Len(g) = 1 /\ Len(f) = n - 1 /\ m = g \o f
        BY <1>4, <1>5
      <4> HIDE DEF f, g
      <4>2. \A i \in 1..(Len(g) + Len(f)) :
              (g \o f)[i] = IF i <= Len(g) THEN g[i] ELSE f[i - Len(g)]
        BY <4>1, ConcatProperties
      <4>3. p \in 1..(1 + (n - 1)) /\ ~(p <= 1)
        BY <1>1, <2>2
      <4> QED BY <4>1, <4>2, <4>3 DEF f
    <3> QED BY <1>5, <2>2, <3>1, <3>2
  <2> QED BY <2>1, <2>2
<1> QED BY <1>6, <1>7 DEF n

LEMMA InFront ==
  ASSUME NEW list \in Seq(Nat), NEW b \in Nat, NEW m, m = <<b>> \o list
  PROVE  /\ m \in Seq(Nat) /\ Len(m) = Len(list) + 1
         /\ \A p \in 1..Len(list) + 1 : m[p] = IF p = 1 THEN b ELSE list[p - 1]
OBVIOUS

LEMMA ButLast ==
  ASSUME NEW list \in Seq(Nat), Len(list) # 0
  PROVE  /\ Front(list) \in Seq(Nat) /\ Len(Front(list)) = Len(list) - 1
         /\ \A p \in 1..Len(list) - 1 : Front(list)[p] = list[p]
<1> DEFINE n == Len(list) - 1
<1>1. n \in Nat /\ Len(list) = n + 1 /\ \A p \in 1..n : list[p] \in Nat
  OBVIOUS
<1> HIDE DEF n
<1>2. /\ SubSeq(list, 1, n) \in Seq(Nat)
      /\ Len(SubSeq(list, 1, n)) = IF 1 <= n THEN n - 1 + 1 ELSE 0
      /\ \A p \in 1..n - 1 + 1 : SubSeq(list, 1, n)[p] = list[1 + p - 1]
  BY <1>1, SubSeqProperties
<1>3. Front(list) = SubSeq(list, 1, n)
  BY DEF Front, n
<1>4. Len(SubSeq(list, 1, n)) = n
  BY <1>1, <1>2
<1>5. \A p \in 1..n : SubSeq(list, 1, n)[p] = list[p]
  BY <1>1, <1>2
<1> QED BY <1>2, <1>3, <1>4, <1>5 DEF n

LEMMA BlockType ==
  ASSUME params \in Params, NEW x \in Indexes, NEW tag \in Tags
  PROVE  BlockOf(x, tag) \in Nat
<1>1. x \in Nat /\ tag \in Nat /\ params.num_set_cache \in Nat
  BY ParamsType, TagsNat DEF Indexes
<1> QED BY <1>1 DEF BlockOf

(* What the sets are to Replacement. *)
Order == [x \in Indexes |-> Ranked(x)]

(* A list that has each slot's block at the slot's stamp. *)
InOrder(x, t, list) ==
  /\ list \in Seq(Nat) /\ Len(list) = Len(t)
  /\ \A j \in DOMAIN t : list[Stamp(t[j]) + 1] = BlockOf(x, t[j].tag)

(* Such a list is that of the set. *)
LEMMA OrderStep ==
  ASSUME IInv, IInv', params' = params, NEW x \in Indexes,
         NEW t, slots' = [slots EXCEPT ![x] = t],
         NEW list, InOrder(x, t, list)
  PROVE  Order' = [Order EXCEPT ![x] = list]
<1>1. /\ Indexes' = Indexes /\ DOMAIN slots = Indexes
      /\ slots'[x] = t /\ \A y \in Indexes : y # x => slots'[y] = slots[y]
  BY DEF Indexes, IInv, TypeOK
<1>2. /\ \A i : Stamp(t[i])' = Stamp(t[i])
      /\ \A i : BlockOf(x, t[i].tag)' = BlockOf(x, t[i].tag)
  BY DEF Stamp, BlockOf
<1>3. ASSUME NEW y \in Indexes, y # x PROVE Ranked(y)' = Ranked(y)
  BY <1>1, <1>3 DEF Ranked, Stamp, BlockOf
<1>4. Ranked(x)' = list
  <2>1. Ranked(x)' \in Seq(Nat) /\ Len(Ranked(x)') = Len(t)
    BY <1>1, RankedAtNext DEF IInv, RankedFacts
  <2>0. /\ list \in Seq(Nat) /\ Len(list) = Len(t)
        /\ \A j \in DOMAIN t : list[Stamp(t[j]) + 1] = BlockOf(x, t[j].tag)
    BY DEF InOrder
  <2>2. ASSUME NEW p \in 1..Len(t) PROVE Ranked(x)'[p] = list[p]
    <3>1. PICK i \in DOMAIN slots'[x] :
            Stamp(slots[x][i])' = p - 1 /\ Ranked(x)'[p] = BlockOf(x, slots[x][i].tag)'
      BY <1>1, PlaceOfSlotNext DEF IInv, PlaceFacts
    <3>2. Stamp(t[i]) = p - 1 /\ Ranked(x)'[p] = BlockOf(x, t[i].tag)
      BY <1>1, <3>1 DEF Stamp, BlockOf
    <3>3. (p - 1) + 1 = p
      OBVIOUS
    <3> QED BY <1>1, <2>0, <3>1, <3>2, <3>3
  <2> QED BY <2>0, <2>1, <2>2, SameSequence
<1> QED BY <1>1, <1>3, <1>4 DEF Order

(* The lookup finds a slot when the list has the block. *)
LEMMA LookupIsPlace ==
  ASSUME IInv, NEW a \in Addresses, NEW x, x = Index(a)
  PROVE  /\ Lookup(x, Tag(a)) = {} =>
              \A p \in DOMAIN Order[x] : Order[x][p] # Block(a)
         /\ \A i \in Lookup(x, Tag(a)) :
              /\ Stamp(slots[x][i]) + 1 \in DOMAIN Order[x]
              /\ Order[x][Stamp(slots[x][i]) + 1] = Block(a)
<1>1. x \in Indexes /\ Tag(a) \in Nat /\ BlockOf(x, Tag(a)) = Block(a)
  BY AddressType DEF IInv, TypeOK
<1>2. Order[x] = Ranked(x) /\ Ranked(x) \in Seq(Nat) /\ Len(Ranked(x)) = Len(slots[x])
  BY <1>1, RankedAt DEF Order, RankedFacts, IInv
<1>3. /\ DOMAIN slots[x] = 1..Len(slots[x]) /\ Len(slots[x]) \in Nat
      /\ \A i \in DOMAIN slots[x] : slots[x][i].tag \in Nat
  <2>1. /\ DOMAIN slots[x] = 1..Len(slots[x]) /\ Len(slots[x]) \in Nat
        /\ \A i \in DOMAIN slots[x] : slots[x][i] \in SlotType
    BY <1>1, SetType DEF IInv
  <2>2. \A i \in DOMAIN slots[x] : slots[x][i].tag \in SlotTags
    BY <2>1 DEF SlotType
  <2> QED BY <2>1, <2>2, TagsNat DEF IInv, TypeOK
<1>4. ASSUME Lookup(x, Tag(a)) = {}, NEW p \in DOMAIN Order[x], Order[x][p] = Block(a)
      PROVE  FALSE
  <2>1. p \in 1..Len(slots[x])
    BY <1>2
  <2>2. PICK i \in DOMAIN slots[x] : Ranked(x)[p] = BlockOf(x, slots[x][i].tag)
    BY <1>1, <2>1, PlaceOfSlot DEF IInv, PlaceFacts
  <2>3. BlockOf(x, slots[x][i].tag) = BlockOf(x, Tag(a))
    BY <1>1, <1>2, <1>4, <2>2
  <2>4. params.num_set_cache \in Nat \ {0} /\ x \in Nat
    BY <1>1, ParamsType DEF IInv, TypeOK, Indexes
  <2>5. slots[x][i].tag = Tag(a)
    <3> DEFINE t == slots[x][i].tag
               u == Tag(a)
               n == params.num_set_cache
    <3>1. t * n + x = u * n + x
      BY <2>3 DEF BlockOf
    <3>2. t \in Nat /\ u \in Nat /\ n \in Nat \ {0} /\ x \in Nat
      BY <1>1, <1>3, <2>4
    <3> HIDE DEF t, u, n
    <3>3. t = u
      BY <3>1, <3>2, SameTag
    <3> QED BY <3>3 DEF t, u
  <2> QED BY <1>4, <2>5 DEF Lookup
<1>5. ASSUME NEW i \in Lookup(x, Tag(a))
      PROVE  /\ Stamp(slots[x][i]) + 1 \in DOMAIN Order[x]
             /\ Order[x][Stamp(slots[x][i]) + 1] = Block(a)
  <2>1. i \in DOMAIN slots[x] /\ slots[x][i].tag = Tag(a)
    BY DEF Lookup
  <2>2. Stamp(slots[x][i]) \in 0..Len(slots[x]) - 1
    BY <1>1, <2>1 DEF IInv, RankInv, Ranks
  <2>3. Stamp(slots[x][i]) + 1 \in 1..Len(slots[x])
    BY <1>3, <2>2
  <2>4. Ranked(x)[Stamp(slots[x][i]) + 1] = Block(a)
    BY <1>1, <2>1, RankedAt DEF IInv, RankedFacts
  <2> QED BY <1>2, <2>3, <2>4
<1> QED BY <1>4, <1>5

(* main.cpp:234-248, a hit under "lru" puts the block in front. *)
LEMMA HitToFront ==
  ASSUME IInv, params.lru, NEW x \in Indexes, NEW i \in DOMAIN slots[x],
         NEW store \in BOOLEAN
  PROVE  InOrder(x, Touch(x, i, store),
                 MoveUp(Order[x], BlockOf(x, slots[x][i].tag), Stamp(slots[x][i]) + 1))
<1> DEFINE s == slots[x]
           n == Len(slots[x])
           old == Order[x]
           t == Touch(x, i, store)
           b == BlockOf(x, s[i].tag)
           k == Stamp(s[i]) + 1
           list == MoveUp(old, b, k)
<1>1. n \in Nat /\ DOMAIN s = 1..n /\ i \in DOMAIN s
  BY SetType DEF IInv
<1>2. /\ old \in Seq(Nat) /\ Len(old) = n
      /\ \A j \in DOMAIN s : old[Stamp(s[j]) + 1] = BlockOf(x, s[j].tag)
  BY RankedAt DEF IInv, RankedFacts, Order
<1>3. /\ t \in Seq(SlotType) /\ Len(t) = n
      /\ \A j \in DOMAIN s : t[j].tag = s[j].tag
      /\ Stamp(t[i]) = 0
      /\ \A j \in DOMAIN s : j # i =>
           Stamp(t[j]) = IF Stamp(s[j]) < Stamp(s[i]) THEN Stamp(s[j]) + 1 ELSE Stamp(s[j])
  <2>1. t = Touch(x, i, store)
    OBVIOUS
  <2> HIDE DEF t
  <2> QED BY <2>1, TouchSlots DEF IInv
<1>4. /\ \A j \in DOMAIN s : Stamp(s[j]) \in 0..n - 1
      /\ \A j \in DOMAIN s : j # i => Stamp(s[j]) # Stamp(s[i])
  BY DEF IInv, RankInv, Ranks
<1>5. b = BlockOf(x, s[i].tag) /\ k = Stamp(s[i]) + 1 /\ list = MoveUp(old, b, k)
  OBVIOUS
<1> HIDE DEF s, n, old, t, b, k, list
<1>6. k \in 1..n /\ k \in Int /\ Stamp(s[i]) = k - 1
  BY <1>1, <1>4, <1>5
<1>7. b \in Nat
  <2>1. old[k] = b
    BY <1>1, <1>2, <1>5
  <2>2. k \in 1..Len(old) /\ old \in Seq(Nat)
    BY <1>2, <1>6
  <2> QED BY <2>1, <2>2
<1>8. /\ list \in Seq(Nat) /\ Len(list) = n
      /\ \A p \in 1..n :
           list[p] = IF p = 1 THEN b ELSE IF p <= k THEN old[p - 1] ELSE old[p]
  <2>1. old \in Seq(Nat) /\ Len(old) = n /\ k \in 1..n /\ b \in Nat
    BY <1>2, <1>6, <1>7
  <2>2. list = MoveUp(old, b, k)
    BY <1>5
  <2>3. k \in 1..Len(old)
    BY <2>1
  <2>4. list \in Seq(Nat) /\ Len(list) = Len(old)
    BY <2>1, <2>2, <2>3, ToFront
  <2>5. \A p \in 1..Len(old) :
          list[p] = IF p = 1 THEN b ELSE IF p <= k THEN old[p - 1] ELSE old[p]
    BY <2>1, <2>2, <2>3, ToFront
  <2> QED BY <2>1, <2>4, <2>5
<1>9. ASSUME NEW j \in DOMAIN t PROVE list[Stamp(t[j]) + 1] = BlockOf(x, t[j].tag)
  <2>1. j \in DOMAIN s /\ j \in 1..n /\ t[j].tag = s[j].tag
    BY <1>1, <1>3
  <2>2. CASE j = i
    <3>1. 1 \in 1..n /\ Stamp(t[j]) + 1 = 1
      BY <1>3, <1>6, <2>2
    <3>2. list[1] = b
      BY <1>8, <3>1
    <3> QED BY <1>5, <2>1, <2>2, <3>1, <3>2
  <2>3. CASE j # i
    <3> DEFINE f == Stamp(s[j])
               p == Stamp(t[j]) + 1
    <3>1. f \in 0..n - 1 /\ f # k - 1 /\ old[f + 1] = BlockOf(x, t[j].tag)
      BY <1>2, <1>4, <1>6, <2>1, <2>3
    <3>2. Stamp(t[j]) = IF f < k - 1 THEN f + 1 ELSE f
      BY <1>3, <1>6, <2>1, <2>3
    <3>3. f \in Int /\ k \in Int /\ n \in Int /\ 1 <= k /\ k <= n /\ 0 <= f /\ f <= n - 1
      BY <1>1, <1>6, <3>1
    <3> HIDE DEF f
    <3>4. CASE f < k - 1
      <4>1. /\ p = f + 2 /\ p \in 1..n /\ p # 1 /\ p <= k /\ p - 1 = f + 1
        BY <3>2, <3>3, <3>4
      <4>2. list[p] = old[p - 1]
        BY <1>8, <4>1
      <4> QED BY <3>1, <4>1, <4>2
    <3>5. CASE ~(f < k - 1)
      <4>1. /\ p = f + 1 /\ p \in 1..n /\ p # 1 /\ ~(p <= k)
        BY <3>1, <3>2, <3>3, <3>5
      <4>2. list[p] = old[p]
        BY <1>8, <4>1
      <4> QED BY <3>1, <4>1, <4>2
    <3> QED BY <3>4, <3>5
  <2> QED BY <2>2, <2>3
<1>10. InOrder(x, t, list)
  BY <1>3, <1>8, <1>9 DEF InOrder
<1> QED BY <1>10 DEF t, list, b, k, old, s

(* main.cpp:226-233, a hit under "fifo" leaves the list alone. *)
LEMMA HitInPlace ==
  ASSUME IInv, ~params.lru, NEW x \in Indexes, NEW i \in DOMAIN slots[x],
         NEW store \in BOOLEAN
  PROVE  InOrder(x, Touch(x, i, store), Order[x])
<1> DEFINE t == Touch(x, i, store)
<1>0. t = Touch(x, i, store)
  OBVIOUS
<1> HIDE DEF t
<1>1. Len(slots[x]) \in Nat /\ DOMAIN slots[x] = 1..Len(slots[x])
  BY SetType DEF IInv
<1>2. /\ Order[x] \in Seq(Nat) /\ Len(Order[x]) = Len(slots[x])
      /\ \A j \in DOMAIN slots[x] :
           Order[x][Stamp(slots[x][j]) + 1] = BlockOf(x, slots[x][j].tag)
  BY RankedAt DEF IInv, RankedFacts, Order
<1>3. /\ t \in Seq(SlotType) /\ Len(t) = Len(slots[x])
      /\ \A j \in DOMAIN slots[x] : t[j].tag = slots[x][j].tag
      /\ \A j \in DOMAIN slots[x] : Stamp(t[j]) = Stamp(slots[x][j])
  BY <1>0, TouchSlots DEF IInv
<1>4. DOMAIN t = DOMAIN slots[x]
  BY <1>1, <1>3
<1>5. InOrder(x, t, Order[x])
  BY <1>2, <1>3, <1>4 DEF InOrder
<1> QED BY <1>5 DEF t

(* A block loaded into a set with room is put in front. *)
LEMMA FillInFront ==
  ASSUME TagsFit, IInv, NEW x \in Indexes, NEW tag \in Tags, NEW store \in BOOLEAN
  PROVE  InOrder(x, Fill(x, NewSlot(tag, store)), <<BlockOf(x, tag)>> \o Order[x])
<1> DEFINE s == slots[x]
           n == Len(slots[x])
           b == BlockOf(x, tag)
           old == Order[x]
           t == Fill(x, NewSlot(tag, store))
           list == <<b>> \o old
<1>1. n \in Nat /\ DOMAIN s = 1..n
  BY SetType DEF IInv
<1>2. /\ old \in Seq(Nat) /\ Len(old) = n
      /\ \A j \in DOMAIN s : old[Stamp(s[j]) + 1] = BlockOf(x, s[j].tag)
  BY RankedAt DEF IInv, RankedFacts, Order
<1>3. /\ t \in Seq(SlotType) /\ Len(t) = n + 1
      /\ \A j \in 1..n : t[j].tag = s[j].tag /\ Stamp(t[j]) = Stamp(s[j]) + 1
      /\ t[n + 1].tag = tag /\ Stamp(t[n + 1]) = 0
  <2>0. TypeOK
    BY DEF IInv
  <2>1. t = Fill(x, NewSlot(tag, store)) /\ n = Len(slots[x]) /\ s = slots[x]
    OBVIOUS
  <2> HIDE DEF t, n, s
  <2>2. /\ Len(t) = n + 1 /\ t \in Seq(SlotType) /\ Stamp(t[n + 1]) = 0
        /\ \A j \in 1..n : Stamp(t[j]) = Stamp(s[j]) + 1
    BY <2>0, <2>1, FillSlots
  <2>3. /\ t[n + 1].tag = tag /\ Len(t) = n + 1
        /\ \A j \in 1..n : t[j].tag = s[j].tag
    <3>1. Narrowed(tag) = tag
      BY <2>0, FitsWhole DEF TypeOK
    <3> QED BY <2>0, <2>1, <3>1, FillSlots
  <2> QED BY <2>2, <2>3
<1>4. \A j \in DOMAIN s : Stamp(s[j]) \in 0..n - 1
  BY DEF IInv, RankInv, Ranks
<1>5. b = BlockOf(x, tag) /\ list = <<b>> \o old /\ b \in Nat
  BY BlockType DEF IInv, TypeOK
<1> HIDE DEF s, n, old, b, t, list
<1>6. /\ list \in Seq(Nat) /\ Len(list) = n + 1
      /\ \A p \in 1..n + 1 : list[p] = IF p = 1 THEN b ELSE old[p - 1]
  <2>1. old \in Seq(Nat) /\ Len(old) = n /\ b \in Nat /\ list = <<b>> \o old
    BY <1>2, <1>5
  <2> DEFINE m == <<b>> \o old
  <2>0. m = <<b>> \o old
    OBVIOUS
  <2> HIDE DEF m
  <2>2. /\ m \in Seq(Nat) /\ Len(m) = Len(old) + 1
        /\ \A p \in 1..Len(old) + 1 : m[p] = IF p = 1 THEN b ELSE old[p - 1]
    BY <2>0, <2>1, InFront
  <2>3. m = list
    BY <2>0, <2>1
  <2> QED BY <2>1, <2>2, <2>3
<1>7. ASSUME NEW j \in DOMAIN t PROVE list[Stamp(t[j]) + 1] = BlockOf(x, t[j].tag)
  <2>1. j \in 1..n + 1
    BY <1>1, <1>3
  <2>2. CASE j = n + 1
    <3>1. Stamp(t[j]) + 1 = 1 /\ 1 \in 1..n + 1
      BY <1>1, <1>3, <2>2
    <3>2. list[1] = b
      BY <1>6, <3>1
    <3> QED BY <1>3, <1>5, <2>2, <3>1, <3>2
  <2>3. CASE j # n + 1
    <3> DEFINE f == Stamp(s[j])
    <3>1. j \in 1..n
      BY <1>1, <2>1, <2>3
    <3>2. /\ f \in 0..n - 1 /\ Stamp(t[j]) = f + 1
          /\ old[f + 1] = BlockOf(x, t[j].tag)
      BY <1>1, <1>2, <1>3, <1>4, <3>1
    <3> HIDE DEF f
    <3>3. /\ Stamp(t[j]) + 1 = f + 2 /\ f + 2 \in 1..n + 1
          /\ f + 2 # 1 /\ (f + 2) - 1 = f + 1
      BY <1>1, <3>2
    <3>4. list[f + 2] = old[(f + 2) - 1]
      BY <1>6, <3>3
    <3> QED BY <3>2, <3>3, <3>4
  <2> QED BY <2>2, <2>3
<1>8. InOrder(x, t, list)
  BY <1>3, <1>6, <1>7 DEF InOrder
<1> QED BY <1>8 DEF t, list, b, old

(* A block loaded into a full set takes the place of the last one. *)
LEMMA EvictLast ==
  ASSUME TagsFit, IInv, NEW x \in Indexes, NEW tag \in Tags, NEW store \in BOOLEAN, Full(x)
  PROVE  InOrder(x, Evict(x, NewSlot(tag, store)), <<BlockOf(x, tag)>> \o Front(Order[x]))
<1> DEFINE s == slots[x]
           n == Len(slots[x])
           b == BlockOf(x, tag)
           old == Order[x]
           t == Evict(x, NewSlot(tag, store))
           list == <<b>> \o Front(old)
<1>1. n \in Nat /\ DOMAIN s = 1..n
  BY SetType DEF IInv
<1>2. /\ old \in Seq(Nat) /\ Len(old) = n
      /\ \A j \in DOMAIN s : old[Stamp(s[j]) + 1] = BlockOf(x, s[j].tag)
  BY RankedAt DEF IInv, RankedFacts, Order
<1>0. /\ t \in Seq(SlotType) /\ Len(t) = n
      /\ \E v \in 1..n :
           /\ Stamp(s[v]) = n - 1 /\ t[v].tag = tag /\ Stamp(t[v]) = 0
           /\ \A j \in 1..n : j # v =>
                t[j].tag = s[j].tag /\ Stamp(t[j]) = Stamp(s[j]) + 1
  <2>0. TypeOK /\ RankInv
    BY DEF IInv
  <2>1. t = Evict(x, NewSlot(tag, store)) /\ n = Len(slots[x]) /\ s = slots[x]
    OBVIOUS
  <2> HIDE DEF t, n, s
  <2>2. t \in Seq(SlotType) /\ Len(t) = n
    BY <2>0, <2>1, EvictSlots
  <2>3. \E v \in 1..n :
             /\ Stamp(s[v]) = n - 1 /\ t[v].tag = tag /\ Stamp(t[v]) = 0
             /\ \A j \in 1..n : j # v =>
                  t[j].tag = s[j].tag /\ Stamp(t[j]) = Stamp(s[j]) + 1
    <3>1. Narrowed(tag) = tag
      BY <2>0, FitsWhole DEF TypeOK
    <3> QED BY <2>0, <2>1, <3>1, EvictSlots
  <2> QED BY <2>2, <2>3
<1>3. t \in Seq(SlotType) /\ Len(t) = n
  BY <1>0
<1>4. PICK v \in 1..n :
        /\ Stamp(s[v]) = n - 1 /\ t[v].tag = tag /\ Stamp(t[v]) = 0
        /\ \A j \in 1..n : j # v => t[j].tag = s[j].tag /\ Stamp(t[j]) = Stamp(s[j]) + 1
  BY <1>0
<1>5. /\ \A j \in DOMAIN s : Stamp(s[j]) \in 0..n - 1
      /\ \A j \in DOMAIN s : j # v => Stamp(s[j]) # Stamp(s[v])
  BY <1>1, <1>4 DEF IInv, RankInv, Ranks
<1>6. b = BlockOf(x, tag) /\ list = <<b>> \o Front(old) /\ b \in Nat
  BY BlockType DEF IInv, TypeOK
<1> HIDE DEF s, n, old, b, t, list
<1>7. n # 0
  BY <1>1
<1>8. /\ Front(old) \in Seq(Nat) /\ Len(Front(old)) = n - 1
      /\ \A p \in 1..n - 1 : Front(old)[p] = old[p]
  BY <1>2, <1>7, ButLast
<1>9. /\ list \in Seq(Nat) /\ Len(list) = (n - 1) + 1
      /\ \A p \in 1..(n - 1) + 1 : list[p] = IF p = 1 THEN b ELSE Front(old)[p - 1]
  <2>1. /\ Front(old) \in Seq(Nat) /\ Len(Front(old)) = n - 1
        /\ b \in Nat /\ list = <<b>> \o Front(old)
    BY <1>6, <1>8
  <2> DEFINE rest == Front(old)
             m == <<b>> \o rest
  <2>2. rest \in Seq(Nat) /\ b \in Nat /\ m = <<b>> \o rest /\ m = list
    BY <2>1
  <2>3. /\ m \in Seq(Nat) /\ Len(m) = Len(rest) + 1
        /\ \A p \in 1..Len(rest) + 1 : m[p] = IF p = 1 THEN b ELSE rest[p - 1]
    <3> HIDE DEF rest, m
    <3> QED BY <2>2, InFront
  <2>4. Len(rest) = n - 1
    BY <2>1
  <2>5. m = list
    BY <2>2
  <2> HIDE DEF rest, m
  <2>6. Len(m) = (n - 1) + 1 /\ m \in Seq(Nat)
    BY <2>3, <2>4
  <2>7. \A p \in 1..(n - 1) + 1 : m[p] = IF p = 1 THEN b ELSE rest[p - 1]
    BY <2>3, <2>4
  <2> QED BY <2>5, <2>6, <2>7 DEF rest
<1>10. (n - 1) + 1 = n
  BY <1>1
<1>11. ASSUME NEW j \in DOMAIN t PROVE list[Stamp(t[j]) + 1] = BlockOf(x, t[j].tag)
  <2>1. j \in 1..n /\ j \in DOMAIN s
    BY <1>1, <1>3
  <2>2. CASE j = v
    <3>1. Stamp(t[j]) + 1 = 1 /\ 1 \in 1..n
      BY <1>1, <1>4, <1>7, <2>2
    <3>2. list[1] = b
      BY <1>9, <1>10, <3>1
    <3> QED BY <1>4, <1>6, <2>2, <3>1, <3>2
  <2>3. CASE j # v
    <3> DEFINE f == Stamp(s[j])
    <3>1. /\ f \in 0..n - 1 /\ f # n - 1 /\ Stamp(t[j]) = f + 1
          /\ old[f + 1] = BlockOf(x, t[j].tag)
      BY <1>1, <1>2, <1>4, <1>5, <2>1, <2>3
    <3> HIDE DEF f
    <3>2. /\ Stamp(t[j]) + 1 = f + 2 /\ f + 2 \in 1..n
          /\ f + 2 # 1 /\ (f + 2) - 1 = f + 1 /\ f + 1 \in 1..n - 1
      BY <1>1, <3>1
    <3>3. list[f + 2] = Front(old)[(f + 2) - 1]
      BY <1>9, <1>10, <3>2
    <3> QED BY <1>8, <3>1, <3>2, <3>3
  <2> QED BY <2>2, <2>3
<1>12. InOrder(x, t, list)
  BY <1>3, <1>9, <1>10, <1>11 DEF InOrder
<1> QED BY <1>12 DEF t, list, b, old


-----------------------------------------------------------------------------
(* The steps of the simulator are steps of Replacement *)

LEMMA PolicyInit == Init => Policy!Init
<1> SUFFICES ASSUME Init PROVE Policy!Init
  OBVIOUS
<1>1. IInv
  BY CacheInit
<1>2. ASSUME NEW x \in Indexes PROVE Ranked(x) = << >>
  <2>1. slots[x] = << >>
    BY DEF Init, Indexes
  <2>2. Ranked(x) \in Seq(Nat) /\ Len(Ranked(x)) = Len(slots[x])
    BY <1>1, RankedAt DEF IInv, RankedFacts
  <2> QED BY <2>1, <2>2
<1> QED BY <1>2 DEF Init, Policy!Init, Indexes, Counters

LEMMA PolicyHit ==
  ASSUME IInv, IInv', NEW a \in Addresses, NEW store \in BOOLEAN, Hit(a, store)
  PROVE  Policy!Hit(Policy!BlockAt(a), store)
<1> DEFINE x == Index(a)
           b == Block(a)
<1>1. /\ x \in Indexes /\ x = b % params.num_set_cache /\ BlockOf(x, Tag(a)) = b
      /\ x = Index(a) /\ Policy!BlockAt(a) = b
  BY AddressType DEF IInv, TypeOK, Policy!BlockAt, Block
<1>2. PICK i \in Lookup(x, Tag(a)) :
        slots' = [slots EXCEPT ![x] = Touch(x, i, store)]
  BY DEF Hit
<1>3. /\ i \in DOMAIN slots[x] /\ slots[x][i].tag = Tag(a)
      /\ ReadLine(a, FALSE, store)
  BY DEF Hit, Lookup
<1>4. params' = params /\ counts' = [counts EXCEPT ![Counter(FALSE, store)] = @ + 1]
  BY <1>3 DEF ReadLine, CountOne
<1> DEFINE k == Stamp(slots[x][i]) + 1
<1> HIDE DEF x, b
<1>5. k \in DOMAIN Order[x] /\ Order[x][k] = b
  BY <1>1, <1>2, LookupIsPlace DEF b
<1>6. Order' = IF params.lru THEN [Order EXCEPT ![x] = MoveUp(Order[x], b, k)] ELSE Order
  <2> DEFINE t == Touch(x, i, store)
  <2>1. CASE params.lru
    <3> DEFINE list == MoveUp(Order[x], b, k)
    <3>1. InOrder(x, t, list)
      BY <1>1, <1>3, <2>1, HitToFront
    <3>2. slots' = [slots EXCEPT ![x] = t]
      BY <1>2
    <3> HIDE DEF t, list
    <3>3. Order' = [Order EXCEPT ![x] = list]
      BY <1>1, <1>4, <3>1, <3>2, OrderStep
    <3> QED BY <2>1, <3>3 DEF list
  <2>2. CASE ~params.lru
    <3> DEFINE list == Order[x]
    <3>1. InOrder(x, t, list)
      BY <1>1, <1>3, <2>2, HitInPlace
    <3>2. slots' = [slots EXCEPT ![x] = t] /\ list = Order[x]
      BY <1>2
    <3> HIDE DEF t, list
    <3>3. Order' = [Order EXCEPT ![x] = list]
      BY <1>1, <1>4, <3>1, <3>2, OrderStep
    <3> QED BY <2>2, <3>2, <3>3 DEF Order
  <2> QED BY <2>1, <2>2
<1>7. counts' = [counts EXCEPT ![IF store THEN "store_hits" ELSE "load_hits"] = @ + 1]
  BY <1>4 DEF Counter
<1> HIDE DEF k
<1>8. Policy!Hit(b, store)
  <2>1. Policy!SetOf(b) = x
    BY <1>1 DEF Policy!SetOf
  <2>2. k \in Policy!Places(b)
    BY <1>5, <2>1 DEF Policy!Places, Order
  <2>3. Order' = IF params.lru
                 THEN [Order EXCEPT ![Policy!SetOf(b)] = <<b>> \o Policy!RemoveAt(@, k)]
                 ELSE Order
    <3>1. MoveUp(Order[x], b, k) = <<b>> \o Policy!RemoveAt(Order[x], k)
      BY DEF MoveUp, RemoveAt, Policy!RemoveAt
    <3> QED BY <1>6, <2>1, <3>1
  <2>4. \E p \in Policy!Places(b) :
          Order' = IF params.lru
                   THEN [Order EXCEPT ![Policy!SetOf(b)] = <<b>> \o Policy!RemoveAt(@, p)]
                   ELSE Order
    BY <2>2, <2>3
  <2> QED BY <1>4, <1>7, <2>4 DEF Policy!Hit, Policy!CountOne, Order
<1> QED BY <1>1, <1>8

LEMMA PolicyMiss ==
  ASSUME TagsFit, IInv, IInv', NEW a \in Addresses, NEW store \in BOOLEAN,
         MissAround(a, store) \/ MissFill(a, store) \/ MissEvict(a, store)
  PROVE  Policy!Miss(Policy!BlockAt(a), store)
<1> DEFINE x == Index(a)
           b == Block(a)
           tag == Tag(a)
           alone == store /\ ~params.write_allocate
           new == <<b>> \o (IF Len(Order[x]) = params.block_set THEN Front(Order[x])
                            ELSE Order[x])
<1>1. /\ x \in Indexes /\ x = b % params.num_set_cache /\ BlockOf(x, tag) = b
      /\ x = Index(a) /\ Policy!BlockAt(a) = b /\ tag \in Tags
  BY AddressType DEF IInv, TypeOK, Policy!BlockAt, Block
<1>2. Lookup(x, tag) = {} /\ ReadLine(a, TRUE, store)
  BY DEF MissAround, MissFill, MissEvict
<1>3. params' = params /\ counts' = [counts EXCEPT ![Counter(TRUE, store)] = @ + 1]
  BY <1>2 DEF ReadLine, CountOne
<1>4. \A p \in DOMAIN Order[x] : Order[x][p] # b
  BY <1>1, <1>2, LookupIsPlace
<1>5. Len(Order[x]) = Len(slots[x])
  BY <1>1, RankedAt DEF IInv, RankedFacts, Order
<1>6. Order' = IF alone THEN Order ELSE [Order EXCEPT ![x] = new]
  <2>1. CASE MissAround(a, store)
    <3>1. alone /\ slots' = slots
      BY <2>1 DEF MissAround, Allocates
    <3> QED BY <1>3, <3>1 DEF Order, Ranked, Stamp, BlockOf, Indexes
  <2>2. CASE MissFill(a, store)
    <3> DEFINE t == Fill(x, NewSlot(tag, store))
    <3>1. ~alone /\ ~Full(x) /\ slots' = [slots EXCEPT ![x] = t]
      BY <2>2 DEF MissFill, Allocates
    <3>2. Len(Order[x]) # params.block_set
      BY <1>5, <3>1 DEF Full
    <3>3. InOrder(x, t, new)
      BY <1>1, <3>2, FillInFront
    <3> HIDE DEF t, new, x
    <3>4. Order' = [Order EXCEPT ![x] = new]
      BY <1>1, <1>3, <3>1, <3>3, OrderStep
    <3> QED BY <3>1, <3>4
  <2>3. CASE MissEvict(a, store)
    <3> DEFINE t == Evict(x, NewSlot(tag, store))
    <3>1. ~alone /\ Full(x) /\ slots' = [slots EXCEPT ![x] = t]
      BY <2>3 DEF MissEvict, Allocates
    <3>2. Len(Order[x]) = params.block_set
      <4>1. Len(slots[x]) \in Nat /\ Len(slots[x]) <= params.block_set
        BY <1>1, SetType DEF IInv, TypeOK
      <4>2. params.block_set \in Nat
        BY ParamsType DEF IInv, TypeOK
      <4> QED BY <1>5, <3>1, <4>1, <4>2 DEF Full
    <3>3. InOrder(x, t, new)
      BY <1>1, <3>1, <3>2, EvictLast
    <3> HIDE DEF t, new, x
    <3>4. Order' = [Order EXCEPT ![x] = new]
      BY <1>1, <1>3, <3>1, <3>3, OrderStep
    <3> QED BY <3>1, <3>4
  <2> QED BY <2>1, <2>2, <2>3
<1>7. counts' = [counts EXCEPT ![IF store THEN "store_misses" ELSE "load_misses"] = @ + 1]
  BY <1>3 DEF Counter
<1> HIDE DEF x, b
<1>8. Policy!Miss(b, store)
  <2>1. Policy!SetOf(b) = x
    BY <1>1 DEF Policy!SetOf
  <2>2. Policy!Places(b) = {}
    BY <1>4, <2>1 DEF Policy!Places, Order
  <2>3. Order' = IF alone THEN Order
                 ELSE [Order EXCEPT ![Policy!SetOf(b)] = Policy!Load(b, @)]
    <3>1. new = Policy!Load(b, Order[x])
      BY DEF Policy!Load, Policy!Front, Front
    <3> HIDE DEF new
    <3> QED BY <1>6, <2>1, <3>1
  <2> QED BY <1>3, <1>7, <2>2, <2>3 DEF Policy!Miss, Policy!CountOne, Order
<1> QED BY <1>1, <1>8

(* main.cpp:131-237: for any geometry and combination of the parameters and *)
(* any trace whose tags fit a slot (line 158 narrows them), every access    *)
(* does to the sets what the policy that was asked for does to its lists:   *)
(* the same hits, the same misses, and the block evicted is the one         *)
(* accessed (lru) or loaded (fifo) longest ago.                             *)
THEOREM SetsImplementPolicy == ASSUME TagsFit PROVE Spec => ImplementsPolicy
<1>1. IInv /\ IInv' /\ [Next]_vars => [Policy!Next]_(Policy!vars)
  <2> SUFFICES ASSUME IInv, IInv', [Next]_vars PROVE [Policy!Next]_(Policy!vars)
    OBVIOUS
  <2>1. ASSUME NEW a \in Addresses, NEW store \in BOOLEAN,
               \/ Hit(a, store) \/ MissAround(a, store)
               \/ MissFill(a, store) \/ MissEvict(a, store)
        PROVE  Policy!Next
    <3>1. line' = <<a, store>>
      BY <2>1 DEF Hit, MissAround, MissFill, MissEvict, ReadLine
    <3>2. \/ Policy!Hit(Policy!BlockAt(a), store)
          \/ Policy!Miss(Policy!BlockAt(a), store)
      BY <2>1, PolicyHit, PolicyMiss
    <3> QED BY <3>1, <3>2 DEF Policy!Next
  <2>2. CASE UNCHANGED vars
    BY <2>2 DEF vars, Policy!vars, Ranked, Stamp, BlockOf, Indexes
  <2> QED BY <2>1, <2>2 DEF Next
<1> QED BY <1>1, PolicyInit, CacheInvariant, PTL DEF Spec, ImplementsPolicy, Policy!Spec
=============================================================================

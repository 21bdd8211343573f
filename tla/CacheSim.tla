------------------------------ MODULE CacheSim ------------------------------
(***************************************************************************)
(* The cache simulator (csf_assign03/main.cpp): sets of slots with two time*)
(* stamps each, and the loop that runs one load or store of the trace      *)
(* through them and counts hits, misses and cycles.                        *)
(*                                                                         *)
(* The parameters do not change after the program has checked them; they   *)
(* are a variable so that one run covers every combination.  The slots     *)
(* below occupancy are the sequence, slot j of the code being j + 1 here.  *)
(***************************************************************************)
EXTENDS Naturals, Sequences, FiniteSets, SequencesExt

CONSTANTS Geometries,  \* <<num_set_cache, block_set, byte_block>> tried
          Addresses,   \* the addresses of the trace
          TagLimit,    \* what the tag of a slot can hold, 2^32 in the code
          MaxAccesses  \* bound: length of the trace

Power2(n) == \E k \in 0..n : 2^k = n

(* what the argument checks of main let through; zero passes them as well, *)
(* see the README                                                          *)
ASSUME GeometriesAssumption ==
  \A g \in Geometries :
    /\ g \in (Nat \ {0}) \X (Nat \ {0}) \X Nat
    /\ Power2(g[1]) /\ Power2(g[2]) /\ Power2(g[3]) /\ g[3] >= 4

ASSUME TraceAssumption == Addresses \subseteq Nat /\ MaxAccesses \in Nat
ASSUME TagAssumption == TagLimit \in Nat \ {0}

VARIABLES
  params,    \* the arguments of the program
  slots,     \* slots[x]: the used slots of set x; its length is occupancy
  counts,    \* load_hits .. store_misses; the totals are their sums
  cycles,    \* total_cycles
  accesses,  \* lines of the trace read
  line,      \* the last of them: <<converted_long, store>>
  unsaved    \* history: blocks whose last store memory does not hold

vars == <<params, slots, counts, cycles, accesses, line, unsaved>>

Params ==
  {p \in {[num_set_cache |-> g[1], block_set |-> g[2], byte_block |-> g[3],
           lru |-> l, write_allocate |-> a, write_back |-> b] :
            g \in Geometries, l \in BOOLEAN, a \in BOOLEAN, b \in BOOLEAN} :
     p.write_back => p.write_allocate}

Counters == {"load_hits", "load_misses", "store_hits", "store_misses"}

Init ==
  /\ params \in Params
  /\ slots = [x \in 0..params.num_set_cache - 1 |-> << >>]
  /\ counts = [c \in Counters |-> 0]
  /\ cycles = 0
  /\ accesses = 0
  /\ line = << >>
  /\ unsaved = {}
-----------------------------------------------------------------------------
(* tag and index of an address: the shifts by log_num_byte and log_num_set *)
Block(a) == a \div params.byte_block
Tag(a) == Block(a) \div params.num_set_cache
Index(a) == Block(a) - Tag(a) * params.num_set_cache
BlockOf(x, tag) == tag * params.num_set_cache + x

num_byte_load == params.byte_block \div 4

(* the slots the lookup loop stops at; it compares the whole tag *)
Lookup(x, tag) == {i \in DOMAIN slots[x] : slots[x][i].tag = tag}

(* the tag of an address is a long, that of a slot a uint32_t *)
Narrowed(tag) == tag % TagLimit

(* mutant: a block is clean when it is loaded *)
NewSlot_Clean(tag, store) ==
  [tag |-> Narrowed(tag), dirty |-> FALSE, load_ts |-> 0, access_ts |-> 0]

NewSlot(tag, store) ==
  [tag |-> Narrowed(tag), dirty |-> store /\ params.write_back, load_ts |-> 0, access_ts |-> 0]

(* the time stamp that the eviction policy looks at *)
Stamp(s) == IF params.lru THEN s.access_ts ELSE s.load_ts

Aged(s) == IF params.lru THEN [s EXCEPT !.access_ts = @ + 1]
                         ELSE [s EXCEPT !.load_ts = @ + 1]

Victims(x) == {i \in DOMAIN slots[x] : Stamp(slots[x][i]) >= Len(slots[x]) - 1}

(* a full set: the oldest slot is replaced, all the others age *)
Evict(x, new) ==
  [i \in DOMAIN slots[x] |-> IF i \in Victims(x) THEN new ELSE Aged(slots[x][i])]

(* mutant: occupancy > block_set *)
Full_OffByOne(x) == Len(slots[x]) > params.block_set

Full(x) == Len(slots[x]) >= params.block_set

(* a set with room: every slot ages, the next one is used *)
Fill(x, new) ==
  Append([i \in DOMAIN slots[x] |->
            [slots[x][i] EXCEPT !.access_ts = @ + 1, !.load_ts = @ + 1]], new)

(* mutant: every other slot ages *)
Touch_AgesAll(x, i, store) ==
  [j \in DOMAIN slots[x] |->
     IF j = i THEN [slots[x][j] EXCEPT !.access_ts = 0,
                                       !.dirty = store /\ params.write_back]
     ELSE [slots[x][j] EXCEPT !.access_ts = @ + 1]]

(* mutant: the access is not recorded *)
Touch_Forgotten(x, i, store) ==
  [slots[x] EXCEPT ![i].dirty = store /\ params.write_back]

(* a hit: the slots accessed since this one age; the dirty bit is set anew *)
Touch(x, i, store) ==
  [j \in DOMAIN slots[x] |->
     IF j = i THEN [slots[x][j] EXCEPT !.access_ts = 0,
                                       !.dirty = store /\ params.write_back]
     ELSE IF slots[x][j].access_ts < slots[x][i].access_ts
          THEN [slots[x][j] EXCEPT !.access_ts = @ + 1]
          ELSE slots[x][j]]

Dirty(x, S) == {i \in S : slots[x][i].dirty}

(* counting the cycles, by the kind of cache *)
Cost(miss, store) ==
  LET load == 1 + 100 * num_byte_load
  IN  CASE ~miss /\ (~store \/ params.write_back)               -> 1
        [] ~miss /\ store /\ ~params.write_back                 -> 101
        [] miss /\ (~store \/ params.write_back)                -> load
        [] miss /\ store /\ ~params.write_back /\ params.write_allocate -> 100 + load
        [] OTHER                                                -> 100

CountOne(counter) == counts' = [counts EXCEPT ![counter] = @ + 1]

Counter(miss, store) ==
  IF store THEN IF miss THEN "store_misses" ELSE "store_hits"
           ELSE IF miss THEN "load_misses" ELSE "load_hits"

ReadLine(a, miss, store) ==
  /\ accesses < MaxAccesses
  /\ accesses' = accesses + 1
  /\ line' = <<a, store>>
  /\ CountOne(Counter(miss, store))
  /\ UNCHANGED params

(* A store leaves its block unsaved in a write-back cache. *)
Stored(a, store) == IF store /\ params.write_back THEN {Block(a)} ELSE {}

Hit(a, store) ==
  LET x == Index(a)
  IN  /\ Lookup(x, Tag(a)) # {}
      /\ ReadLine(a, FALSE, store)
      /\ \E i \in Lookup(x, Tag(a)) :
           /\ \A j \in Lookup(x, Tag(a)) : i <= j
           /\ slots' = [slots EXCEPT ![x] = Touch(x, i, store)]
      /\ cycles' = cycles + Cost(FALSE, store)
      /\ unsaved' = unsaved \cup Stored(a, store)

Allocates(store) == params.write_allocate \/ ~store

(* no-write-allocate: a store that misses goes to memory alone *)
MissAround(a, store) ==
  /\ Lookup(Index(a), Tag(a)) = {}
  /\ ~Allocates(store)
  /\ ReadLine(a, TRUE, store)
  /\ cycles' = cycles + Cost(TRUE, store)
  /\ UNCHANGED <<slots, unsaved>>

MissFill(a, store) ==
  LET x == Index(a)
  IN  /\ Lookup(x, Tag(a)) = {}
      /\ Allocates(store)
      /\ ~Full(x)
      /\ ReadLine(a, TRUE, store)
      /\ slots' = [slots EXCEPT ![x] = Fill(x, NewSlot(Tag(a), store))]
      /\ cycles' = cycles + Cost(TRUE, store)
      /\ unsaved' = unsaved \cup Stored(a, store)

(* a dirty victim is written back *)
MissEvict(a, store) ==
  LET x == Index(a)
      saved == Dirty(x, Victims(x))
  IN  /\ Lookup(x, Tag(a)) = {}
      /\ Allocates(store)
      /\ Full(x)
      /\ ReadLine(a, TRUE, store)
      /\ slots' = [slots EXCEPT ![x] = Evict(x, NewSlot(Tag(a), store))]
      /\ cycles' = cycles + Cost(TRUE, store)
                     + Cardinality(saved) * 100 * num_byte_load
      /\ unsaved' = (unsaved \ {BlockOf(x, slots[x][i].tag) : i \in saved})
                      \cup Stored(a, store)

Next ==
  \E a \in Addresses, store \in BOOLEAN :
    Hit(a, store) \/ MissAround(a, store) \/ MissFill(a, store) \/ MissEvict(a, store)

Spec == Init /\ [][Next]_vars
-----------------------------------------------------------------------------
Tags == {Tag(a) : a \in Addresses}
SlotTags == {Narrowed(tag) : tag \in Tags}
Indexes == 0..params.num_set_cache - 1

TypeOK ==
  /\ params \in Params
  /\ DOMAIN slots = Indexes
  /\ \A x \in Indexes :
       /\ slots[x] \in Seq([tag : SlotTags, dirty : BOOLEAN, load_ts : Nat, access_ts : Nat])
       /\ Len(slots[x]) <= params.block_set
  /\ counts \in [Counters -> 0..MaxAccesses]
  /\ cycles \in Nat
  /\ accesses \in 0..MaxAccesses
  /\ line \in {<< >>} \cup (Addresses \X BOOLEAN)
  /\ unsaved \subseteq {Block(a) : a \in Addresses}

(* main.cpp:172 and 186, the slot replaced is one whose stamp is at least   *)
(* occupancy - 1: the stamps of a set are 0 .. occupancy - 1, each once, so *)
(* a full set always has one victim and never two.                          *)
StampsAreRanks ==
  \A x \in Indexes :
    {Stamp(slots[x][i]) : i \in DOMAIN slots[x]} = 0..Len(slots[x]) - 1

(* No address of the trace has a tag that is cut when it is stored.  What   *)
(* slots hold is known by their tags, so what follows about blocks is meant *)
(* for such traces.                                                         *)
TagsFit ==
  \A g \in Geometries, a \in Addresses : (a \div g[3]) \div g[1] < TagLimit

(* The blocks of a set, the youngest stamp first. *)
Ranked(x) ==
  [k \in DOMAIN slots[x] |->
     BlockOf(x, slots[x][CHOOSE i \in DOMAIN slots[x] :
                           Stamp(slots[x][i]) = k - 1].tag)]

Policy == INSTANCE Replacement WITH
            order <- [x \in Indexes |-> Ranked(x)]

(* The time stamps implement the eviction policy that was asked for. *)
ImplementsPolicy == Policy!Spec

(* A store that memory does not hold and no slot is marked dirty for. *)
Lost ==
  {b \in unsaved : \A x \in Indexes : \A i \in DOMAIN slots[x] :
     BlockOf(x, slots[x][i].tag) = b => ~slots[x][i].dirty}

(* main.cpp:174 and 188 charge for storing a dirty victim: however blocks   *)
(* are stored to, evicted and loaded again, what was stored is charged for, *)
(* with one exception, that of line 228: a load that hits a block clears    *)
(* its dirty bit and the store is lost.                                     *)
OnlyLoadHitsLoseStores ==
  [][\A b \in Lost' \ Lost :
       /\ Block(line'[1]) = b /\ ~line'[2]
       /\ counts'["load_hits"] > counts["load_hits"]]_vars
=============================================================================

----------------------------- MODULE Replacement -----------------------------
(***************************************************************************)
(* What the cache simulator (csf_assign03/main.cpp) promises of its sets:  *)
(* each is a list of blocks, the one to be evicted last first.  "lru" puts *)
(* a block that is accessed in front, "fifo" a block that is loaded.       *)
(***************************************************************************)
EXTENDS Naturals, Sequences, SequencesExt

CONSTANTS Addresses  \* the addresses accessed

VARIABLES params,  \* the arguments of the program
          line,    \* the access made last
          order,   \* order[x]: the blocks in set x
          counts   \* hits and misses of loads and stores

vars == <<params, line, order, counts>>

Init ==
  /\ line = << >>
  /\ order = [x \in 0..params.num_set_cache - 1 |-> << >>]
  /\ counts = [c \in {"load_hits", "load_misses", "store_hits", "store_misses"} |-> 0]

(* the block of an address, and the set of a block *)
BlockAt(a) == a \div params.byte_block
SetOf(b) == b % params.num_set_cache

Places(b) == {k \in DOMAIN order[SetOf(b)] : order[SetOf(b)][k] = b}

CountOne(counter) == counts' = [counts EXCEPT ![counter] = @ + 1]

Hit(b, store) ==
  /\ \E k \in Places(b) :
       order' = IF params.lru
                THEN [order EXCEPT ![SetOf(b)] = <<b>> \o RemoveAt(@, k)]
                ELSE order
  /\ CountOne(IF store THEN "store_hits" ELSE "load_hits")
  /\ UNCHANGED params

Load(b, list) ==
  <<b>> \o (IF Len(list) = params.block_set THEN Front(list) ELSE list)

Miss(b, store) ==
  /\ Places(b) = {}
  /\ order' = IF store /\ ~params.write_allocate THEN order
              ELSE [order EXCEPT ![SetOf(b)] = Load(b, @)]
  /\ CountOne(IF store THEN "store_misses" ELSE "load_misses")
  /\ UNCHANGED params

Next ==
  \E a \in Addresses, store \in BOOLEAN :
    /\ line' = <<a, store>>
    /\ Hit(BlockAt(a), store) \/ Miss(BlockAt(a), store)

Spec == Init /\ [][Next]_vars
=============================================================================

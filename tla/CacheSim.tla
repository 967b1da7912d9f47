------------------------------- MODULE CacheSim -------------------------------
(***************************************************************************)
(* The cache simulator (cachesim.c, lrustack.c): an address is split into  *)
(* tag, set index and offset; a set is an array of blocks, one per way,    *)
(* and an array that lists the ways from the most to the least recently    *)
(* used.  One access of the trace is one action.                           *)
(***************************************************************************)
EXTENDS Integers, Sequences

CONSTANTS
  BlockSize, CacheSize, Ways,  \* the arguments of cachesim_init()
  MaxAddress,                  \* bound: the trace's addresses are 0 .. MaxAddress
  IntRange,                    \* 2^32: a block's tag is an int
  MaxAccesses                  \* bound: accesses in a behaviour

ASSUME CacheAssumption ==
  /\ BlockSize \in Nat \ {0}
  /\ Ways \in Nat \ {0}
  /\ CacheSize \in Nat /\ CacheSize >= BlockSize * Ways
  /\ MaxAddress \in Nat
  /\ IntRange \in Nat /\ IntRange > 1
  /\ MaxAccesses \in Nat

(* simple_log_2(): floor(log_2(x)).                                         *)
SimpleLog2(x) ==
  LET log[v \in Nat] == IF v > 1 THEN 1 + log[v \div 2] ELSE 0 IN log[x]

NumSets == CacheSize \div (BlockSize * Ways)
NumOffsetBits == SimpleLog2(BlockSize)
NumIndexBits == SimpleLog2(NumSets)

(* 2^floor(log_2(x)) is a natural number no greater than x: the index picks  *)
(* one of the sets there are.                                               *)
ASSUME IndexAssumption ==
  /\ 2^NumOffsetBits \in Nat \ {0}
  /\ 2^NumIndexBits \in 1 .. NumSets

SetIndices == 0 .. NumSets - 1
Way == 0 .. Ways - 1
AccessTypes == {"MEMREAD", "MEMWRITE", "IFETCH"}

BlockAddr(address) == address \div 2^NumOffsetBits
SetIndex(address) == BlockAddr(address) % 2^NumIndexBits
Tag(address) == BlockAddr(address) \div 2^NumIndexBits

(* The assignment of a tag to an int.  The comparison of the int with a tag *)
(* converts it back: a negative one becomes larger than any tag in use, so  *)
(* it never matches.                                                        *)
ToInt(tag) == LET low == tag % IntRange
              IN IF low < IntRange \div 2 THEN low ELSE low - IntRange

VARIABLES blocks,  \* blocks[s][w]: tag, valid and dirty of way w of set s
          order,   \* order[s]: the LRU stack, from index 0, the most recent
          accesses, hits, misses, writebacks,
          request  \* the line of the trace that was read last

vars == <<blocks, order, accesses, hits, misses, writebacks, request>>

CacheBlock == [tag : -(IntRange \div 2) - 1 .. IntRange \div 2, valid : BOOLEAN, dirty : BOOLEAN]

TypeOK == /\ blocks \in [SetIndices -> [Way -> CacheBlock]]
          /\ order \in [SetIndices -> [Way -> Way]]
          /\ accesses \in 0 .. MaxAccesses
          /\ hits \in Nat /\ misses \in Nat /\ writebacks \in Nat
          /\ request \in [address : 0 .. MaxAddress, type : AccessTypes \cup {"NONE"}]

(* Variant of InitialStack, for mutation: the ways counted from one.        *)
InitialStackFromOne == [i \in Way |-> i + 1]

(* init_lru_stack()                                                         *)
InitialStack == [i \in Way |-> i]

(* cachesim_init()                                                          *)
Init == /\ blocks = [s \in SetIndices |-> [w \in Way |-> [tag |-> 0, valid |-> FALSE, dirty |-> FALSE]]]
        /\ order = [s \in SetIndices |-> InitialStack]
        /\ accesses = 0 /\ hits = 0 /\ misses = 0 /\ writebacks = 0
        /\ request = [address |-> 0, type |-> "NONE"]

-----------------------------------------------------------------------------
(* lrustack.c                                                               *)

GetLru(stack) == stack[Ways - 1]

(* Variant of SetMru, for mutation: the shift stops one short.              *)
SetMruShort(stack, n) ==
  LET position == CHOOSE i \in Way : stack[i] = n
  IN [i \in Way |-> IF i = 0 THEN n ELSE IF i < position THEN stack[i - 1] ELSE stack[i]]

(* lru_stack_set_mru(): the entries before n's position move back by one.   *)
(* n is always there.                                                       *)
SetMru(stack, n) ==
  LET position == CHOOSE i \in Way : stack[i] = n
  IN [i \in Way |-> IF i = 0 THEN n ELSE IF i <= position THEN stack[i - 1] ELSE stack[i]]

-----------------------------------------------------------------------------
(* cachesim_access()                                                        *)

Lowest(S) == CHOOSE w \in S : \A v \in S : w <= v

Matching(s, tag) == {w \in Way : blocks[s][w].valid /\ blocks[s][w].tag = tag}
Invalid(s) == {w \in Way : ~blocks[s][w].valid}

(* A block with the tag is in the set.                                      *)
Hit(s, tag, type) ==
  LET hit == Lowest(Matching(s, tag))
  IN /\ Matching(s, tag) # {}
     /\ hits' = hits + 1
     /\ blocks' = [blocks EXCEPT ![s][hit].dirty = @ \/ type = "MEMWRITE"]
     /\ order' = [order EXCEPT ![s] = SetMru(order[s], hit)]
     /\ UNCHANGED <<misses, writebacks>>

(* Variant of Miss, for mutation: the new block keeps the old one's dirty    *)
(* bit.                                                                     *)
MissKeepsDirty(s, tag, type) ==
  LET full == Invalid(s) = {}
      victim == IF full THEN GetLru(order[s]) ELSE Lowest(Invalid(s))
  IN /\ Matching(s, tag) = {}
     /\ misses' = misses + 1
     /\ writebacks' = IF full /\ blocks[s][victim].dirty THEN writebacks + 1 ELSE writebacks
     /\ blocks' = [blocks EXCEPT ![s][victim] =
                     [tag |-> ToInt(tag), valid |-> TRUE, dirty |-> blocks[s][victim].dirty \/ type = "MEMWRITE"]]
     /\ order' = [order EXCEPT ![s] = SetMru(order[s], victim)]
     /\ UNCHANGED hits

(* An invalid block is filled, or the least recently used one is replaced   *)
(* and written back if it is dirty.                                         *)
Miss(s, tag, type) ==
  LET full == Invalid(s) = {}
      victim == IF full THEN GetLru(order[s]) ELSE Lowest(Invalid(s))
  IN /\ Matching(s, tag) = {}
     /\ misses' = misses + 1
     /\ writebacks' = IF full /\ blocks[s][victim].dirty THEN writebacks + 1 ELSE writebacks
     /\ blocks' = [blocks EXCEPT ![s][victim] =
                     [tag |-> ToInt(tag), valid |-> TRUE, dirty |-> type = "MEMWRITE"]]
     /\ order' = [order EXCEPT ![s] = SetMru(order[s], victim)]
     /\ UNCHANGED hits

Access(address, type) ==
  /\ accesses < MaxAccesses
  /\ accesses' = accesses + 1
  /\ request' = [address |-> address, type |-> type]
  /\ \/ Hit(SetIndex(address), Tag(address), type)
     \/ Miss(SetIndex(address), Tag(address), type)

Next == \E address \in 0 .. MaxAddress, type \in AccessTypes : Access(address, type)

Spec == Init /\ [][Next]_vars

-----------------------------------------------------------------------------
(* Properties                                                               *)

(* Every way is once in its set's LRU stack, so each can be found by        *)
(* lru_stack_set_mru() and becomes the victim in its turn; and the ways     *)
(* still invalid are its least recent ones, in the order they are filled.   *)
StackOrdersWays ==
  \A s \in SetIndices :
    /\ \A w \in Way : \E i \in Way : order[s][i] = w
    /\ \A i, j \in Way : i < j /\ ~blocks[s][order[s][i]].valid =>
         ~blocks[s][order[s][j]].valid /\ order[s][i] < order[s][j]

(* The valid blocks of set s in the order of the LRU stack, as blocks of    *)
(* memory.                                                                  *)
Lines(s) ==
  LET valid == {w \in Way : blocks[s][order[s][w]].valid}
      line(i) == blocks[s][order[s][i - 1]]
      count == CHOOSE n \in 0 .. Ways : valid = 0 .. n - 1
  IN [i \in 1 .. count |-> [block |-> line(i).tag * 2^NumIndexBits + s, dirty |-> line(i).dirty]]

Lru == INSTANCE LruSets WITH
         NumSets <- 2^NumIndexBits,
         BlockSize <- 2^NumOffsetBits,
         Address <- 0 .. MaxAddress,
         lines <- [s \in 0 .. 2^NumIndexBits - 1 |-> Lines(s)]

(* Ways, tags, valid bits and the LRU stacks amount to one list of blocks   *)
(* per set, least recently used last: each access of the trace is counted   *)
(* as a hit, a miss or a write-back as such a cache has it for that address *)
(* and type of access.                                                      *)
ImplementsLru == Lru!Spec
=============================================================================

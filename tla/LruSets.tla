------------------------------- MODULE LruSets -------------------------------
(***************************************************************************)
(* What cache_simulator promises: a set-associative write-back cache with  *)
(* least-recently-used replacement.  A set is the list of the blocks it    *)
(* holds, the most recently used first; there are no ways, tags or valid   *)
(* bits.  The counters are the program's output.                           *)
(***************************************************************************)
EXTENDS Naturals, Sequences

CONSTANTS NumSets,      \* block b belongs to set b % NumSets
          Ways,         \* how many blocks a set holds
          BlockSize,    \* how many addresses a block has
          Address,      \* the addresses of memory
          AccessTypes   \* "MEMREAD", "MEMWRITE", "IFETCH"

VARIABLES lines,        \* lines[s]: the blocks in set s, by recency
          accesses, hits, misses, writebacks,
          request       \* the access that was made last: its address and type

vars == <<lines, accesses, hits, misses, writebacks, request>>

Init == /\ lines = [s \in 0 .. NumSets - 1 |-> <<>>]
        /\ accesses = 0 /\ hits = 0 /\ misses = 0 /\ writebacks = 0
        /\ request = [address |-> 0, type |-> "NONE"]

Cached(s, b) == \E i \in DOMAIN lines[s] : lines[s][i].block = b

(* The block moves to the front, dirty from its first write on.             *)
Hit(s, b, write) ==
  LET old == CHOOSE i \in DOMAIN lines[s] : lines[s][i].block = b
      before == SubSeq(lines[s], 1, old - 1)
      after == SubSeq(lines[s], old + 1, Len(lines[s]))
  IN /\ Cached(s, b)
     /\ lines' = [lines EXCEPT ![s] =
                    <<[block |-> b, dirty |-> lines[s][old].dirty \/ write]>> \o before \o after]
     /\ hits' = hits + 1
     /\ UNCHANGED <<misses, writebacks>>

(* The block enters in front; a full set drops its last, which is written   *)
(* back if it is dirty.                                                     *)
Miss(s, b, write) ==
  LET full == Len(lines[s]) = Ways
      kept == IF full THEN SubSeq(lines[s], 1, Ways - 1) ELSE lines[s]
  IN /\ ~Cached(s, b)
     /\ lines' = [lines EXCEPT ![s] = <<[block |-> b, dirty |-> write]>> \o kept]
     /\ misses' = misses + 1
     /\ writebacks' = IF full /\ lines[s][Ways].dirty THEN writebacks + 1 ELSE writebacks
     /\ UNCHANGED hits

(* The access asked for, and no other, hits or misses.                      *)
Access(address, type) ==
  LET b == address \div BlockSize
  IN /\ request' = [address |-> address, type |-> type]
     /\ accesses' = accesses + 1
     /\ Hit(b % NumSets, b, type = "MEMWRITE") \/ Miss(b % NumSets, b, type = "MEMWRITE")

Next == \E address \in Address, type \in AccessTypes : Access(address, type)

Spec == Init /\ [][Next]_vars
=============================================================================

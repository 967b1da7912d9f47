----------------------------- MODULE CacheProofs -----------------------------
(***************************************************************************)
(* Proofs about CacheSim.tla, for any size of cache, block and set, and    *)
(* traces of any length.  An access, hit or miss, is the use of one way of *)
(* one set (Use): it moves the way to the front of the LRU stack and       *)
(* leaves the others in order.  For the refinement of LruSets.tla the      *)
(* valid ways are the first of the stack, so that they form a list, and no *)
(* block of memory is in two of them.                                      *)
(***************************************************************************)
EXTENDS CacheSim, TLAPS, SequenceTheorems, WellFoundedInduction

-----------------------------------------------------------------------------
(* Numbers                                                                   *)

LEMMA Least ==
  ASSUME NEW S \in SUBSET Nat, S # {}
  PROVE  \E m \in S : \A k \in S : m <= k
<1>. DEFINE R == OpToRel(<, Nat)
<1>1. IsWellFoundedOn(R, Nat)
  BY NatLessThanWellFounded
<1>2. \A k \in Nat, l \in Nat : k < l => <<k, l>> \in R
  BY DEF OpToRel
<1>. HIDE DEF R
<1>3. PICK m \in S : \A k \in S : ~(<<k, m>> \in R)
  BY <1>1, WFMin
<1>4. ASSUME NEW k \in S PROVE m <= k
  <2>1. k \in Nat /\ m \in Nat /\ ~(k < m)
    BY <1>2, <1>3
  <2>. QED BY <2>1
<1>. QED BY <1>4

LEMMA LowestOf ==
  ASSUME NEW S \in SUBSET Way, S # {}
  PROVE  Lowest(S) \in S
<1>1. S \subseteq Nat
  BY CacheAssumption DEF Way
<1>2. \E w \in S : \A v \in S : w <= v
  BY <1>1, Least
<1>. QED BY <1>2 DEF Lowest

LEMMA DivMod ==
  ASSUME NEW a \in Nat, NEW b \in Nat \ {0}
  PROVE  \E q \in Nat, r \in 0 .. b - 1 : a \div b = q /\ a % b = r /\ a = q * b + r
<1>1. a \div b \in Nat /\ a % b \in 0 .. b - 1
  OBVIOUS
<1>2. a = b * (a \div b) + (a % b)
  OBVIOUS
<1>3. PICK q \in Nat, r \in 0 .. b - 1 : a \div b = q /\ a % b = r
  BY <1>1
<1>4. a = q * b + r
  BY <1>2, <1>3
<1>. QED BY <1>3, <1>4

(* An address has a set and a tag, and they tell its block.                  *)
LEMMA AddressParts ==
  ASSUME NEW address \in 0 .. MaxAddress
  PROVE  /\ BlockAddr(address) \in Nat
         /\ SetIndex(address) \in 0 .. 2^NumIndexBits - 1 /\ SetIndex(address) \in SetIndices
         /\ Tag(address) \in Nat
         /\ SetIndex(address) = BlockAddr(address) % 2^NumIndexBits
         /\ BlockAddr(address) = Tag(address) * 2^NumIndexBits + SetIndex(address)
<1>. DEFINE N == 2^NumIndexBits
            B == 2^NumOffsetBits
<1>1. B \in Nat \ {0} /\ N \in 1 .. NumSets /\ address \in Nat
  BY IndexAssumption, CacheAssumption
<1>2. NumSets \in Nat
  <2>1. BlockSize * Ways \in Nat \ {0} /\ CacheSize \in Nat
    BY CacheAssumption
  <2>. QED BY <2>1, DivMod DEF NumSets
<1>3. N \in Nat \ {0}
  BY <1>1, <1>2
<1>. HIDE DEF N, B
<1>4. BlockAddr(address) = address \div B /\ SetIndex(address) = BlockAddr(address) % N
      /\ Tag(address) = BlockAddr(address) \div N /\ SetIndices = 0 .. NumSets - 1
  BY DEF BlockAddr, SetIndex, Tag, SetIndices, N, B
<1>5. BlockAddr(address) \in Nat
  BY <1>1, <1>4, DivMod
<1>6. /\ Tag(address) \in Nat /\ SetIndex(address) \in 0 .. N - 1
      /\ BlockAddr(address) = Tag(address) * N + SetIndex(address)
  <2>1. PICK q \in Nat, r \in 0 .. N - 1 : /\ BlockAddr(address) \div N = q
                                         /\ BlockAddr(address) % N = r
                                         /\ BlockAddr(address) = q * N + r
    BY <1>3, <1>5, DivMod
  <2>2. Tag(address) = q /\ SetIndex(address) = r
    BY <1>4, <2>1
  <2>. QED BY <2>1, <2>2
<1>7. SetIndex(address) \in SetIndices
  BY <1>1, <1>2, <1>4, <1>6
<1>. QED BY <1>4, <1>5, <1>6, <1>7 DEF N

(* A tag is kept in an int, as it is if it fits.                             *)
LEMMA ToIntRange ==
  ASSUME NEW tag \in Nat
  PROVE  /\ ToInt(tag) \in -(IntRange \div 2) - 1 .. IntRange \div 2
         /\ tag < IntRange \div 2 => ToInt(tag) = tag
<1>. DEFINE half == IntRange \div 2
            low == tag % IntRange
<1>1. IntRange \in Nat /\ IntRange > 1
  BY CacheAssumption
<1>2. half \in Nat /\ IntRange - 2 * half \in {0, 1} /\ low \in 0 .. IntRange - 1
  BY <1>1
<1>3. tag < half => low = tag
  BY <1>1
<1>4. ToInt(tag) = IF low < half THEN low ELSE low - IntRange
  BY DEF ToInt
<1>. HIDE DEF half, low
<1>5. ToInt(tag) \in -half - 1 .. half
  BY <1>1, <1>2, <1>4
<1>6. tag < half => ToInt(tag) = tag
  BY <1>3, <1>4
<1>. QED BY <1>5, <1>6 DEF half

-----------------------------------------------------------------------------
(* The LRU stack                                                             *)

(* No way is twice in the stack.                                             *)
EachOnce(stack) == \A i, j \in Way : stack[i] = stack[j] => i = j

(* The way at position moves to the front and those before it back by one.   *)
MovedToFront(stack, position, new) ==
  /\ new \in [Way -> Way]
  /\ \A i \in Way : new[i] = IF i = 0 THEN stack[position]
                            ELSE IF i <= position THEN stack[i - 1] ELSE stack[i]
  /\ EachOnce(new)
  /\ \A w \in Way : (\E i \in Way : stack[i] = w) => \E i \in Way : new[i] = w

LEMMA SetMruEffect ==
  ASSUME NEW stack \in [Way -> Way], NEW position \in Way, NEW n, n = stack[position],
         EachOnce(stack)
  PROVE  MovedToFront(stack, position, SetMru(stack, n))
<1>1. (CHOOSE i \in Way : stack[i] = n) = position
  BY DEF EachOnce
<1>2. SetMru(stack, n) = [i \in Way |-> IF i = 0 THEN n
                                        ELSE IF i <= position THEN stack[i - 1] ELSE stack[i]]
  BY <1>1 DEF SetMru
<1>3. Ways \in Nat \ {0} /\ Way = 0 .. Ways - 1
  BY CacheAssumption DEF Way
<1>4. \A i \in Way : i # 0 => i - 1 \in Way
  BY <1>3
<1>5. SetMru(stack, n) \in [Way -> Way]
  BY <1>2, <1>4
<1>6. \A i \in Way : SetMru(stack, n)[i] = IF i = 0 THEN n
                                           ELSE IF i <= position THEN stack[i - 1] ELSE stack[i]
  BY <1>2
<1>7. ASSUME NEW i \in Way, NEW j \in Way, SetMru(stack, n)[i] = SetMru(stack, n)[j]
      PROVE  i = j
  <2>1. CASE i = 0 /\ j # 0
    <3>1. CASE j <= position
      <4>1. j - 1 \in Way /\ stack[j - 1] = stack[position] /\ j - 1 # position
        BY <1>3, <1>4, <1>6, <1>7, <2>1, <3>1
      <4>. QED BY <4>1 DEF EachOnce
    <3>2. CASE ~(j <= position)
      <4>1. stack[j] = stack[position] /\ j # position
        BY <1>3, <1>6, <1>7, <2>1, <3>2
      <4>. QED BY <4>1 DEF EachOnce
    <3>. QED BY <3>1, <3>2
  <2>2. CASE i # 0 /\ j = 0
    <3>1. CASE i <= position
      <4>1. i - 1 \in Way /\ stack[i - 1] = stack[position] /\ i - 1 # position
        BY <1>3, <1>4, <1>6, <1>7, <2>2, <3>1
      <4>. QED BY <4>1 DEF EachOnce
    <3>2. CASE ~(i <= position)
      <4>1. stack[i] = stack[position] /\ i # position
        BY <1>3, <1>6, <1>7, <2>2, <3>2
      <4>. QED BY <4>1 DEF EachOnce
    <3>. QED BY <3>1, <3>2
  <2>3. CASE i # 0 /\ j # 0
    <3>. DEFINE Old(k) == IF k <= position THEN k - 1 ELSE k
    <3>1. Old(i) \in Way /\ Old(j) \in Way
      BY <1>4, <2>3
    <3>2. stack[Old(i)] = stack[Old(j)]
      BY <1>6, <1>7, <2>3
    <3>3. Old(i) = Old(j)
      BY <3>1, <3>2 DEF EachOnce
    <3>. QED BY <1>3, <3>3
  <2>. QED BY <2>1, <2>2, <2>3
<1>8. ASSUME NEW w \in Way, NEW i \in Way, stack[i] = w
      PROVE  \E j \in Way : SetMru(stack, n)[j] = w
  <2>1. CASE i = position
    <3>1. 0 \in Way
      BY <1>3
    <3>2. SetMru(stack, n)[0] = n
      BY <1>6, <3>1
    <3>. QED BY <1>8, <2>1, <3>1, <3>2
  <2>2. CASE i < position
    <3>1. i + 1 \in Way /\ i + 1 # 0 /\ i + 1 <= position /\ (i + 1) - 1 = i
      <4>1. i \in 0 .. Ways - 1 /\ position \in 0 .. Ways - 1
        BY <1>3
      <4>. QED BY <1>3, <2>2, <4>1
    <3>2. SetMru(stack, n)[i + 1] = w
      BY <1>6, <1>8, <3>1
    <3>. QED BY <3>1, <3>2
  <2>3. CASE i > position
    <3>1. i # 0 /\ ~(i <= position)
      BY <1>3, <2>3
    <3>. QED BY <1>6, <1>8, <3>1
  <2>. QED BY <1>3, <2>1, <2>2, <2>3
<1>. QED BY <1>5, <1>6, <1>7, <1>8 DEF EachOnce, MovedToFront

-----------------------------------------------------------------------------
(* The inductive invariant                                                   *)

WaysOnce == \A s \in SetIndices : EachOnce(order[s])

(* No block of memory is in two ways of a set.                               *)
BlocksOnce == \A s \in SetIndices : \A v, w \in Way :
                /\ blocks[s][v].valid /\ blocks[s][w].valid
                /\ blocks[s][v].tag = blocks[s][w].tag
                => v = w

IInv == TypeOK /\ StackOrdersWays /\ WaysOnce

(* What an access does to its set, whether it hits or misses.                *)
Use(s, n, block) ==
  /\ s \in SetIndices /\ n \in Way /\ block \in CacheBlock /\ block.valid
  /\ blocks' = [blocks EXCEPT ![s] = [blocks[s] EXCEPT ![n] = block]]
  /\ order' = [order EXCEPT ![s] = SetMru(order[s], n)]

LEMMA UseEffect ==
  ASSUME IInv, NEW s, NEW n, NEW block, Use(s, n, block)
  PROVE  /\ \A t \in SetIndices \ {s} : blocks'[t] = blocks[t] /\ order'[t] = order[t]
         /\ blocks' \in [SetIndices -> [Way -> CacheBlock]]
         /\ blocks'[s][n] = block /\ \A w \in Way \ {n} : blocks'[s][w] = blocks[s][w]
         /\ order' \in [SetIndices -> [Way -> Way]]
         /\ \E position \in Way :
              order[s][position] = n /\ MovedToFront(order[s], position, order'[s])
         /\ EachOnce(order'[s])
         /\ \A w \in Way : \E i \in Way : order'[s][i] = w
<1>1. s \in SetIndices /\ n \in Way /\ block \in CacheBlock
  BY DEF Use
<1>2. /\ blocks \in [SetIndices -> [Way -> CacheBlock]]
      /\ order \in [SetIndices -> [Way -> Way]]
  BY DEF IInv, TypeOK
<1>3. order[s] \in [Way -> Way] /\ EachOnce(order[s])
  BY <1>1, <1>2 DEF IInv, WaysOnce
<1>4. \A w \in Way : \E i \in Way : order[s][i] = w
  BY <1>1 DEF IInv, StackOrdersWays
<1>5. PICK position \in Way : order[s][position] = n
  BY <1>1, <1>4
<1>6. MovedToFront(order[s], position, SetMru(order[s], n))
  <2>1. PICK stack \in [Way -> Way] : stack = order[s]
    BY <1>3
  <2>2. n = stack[position] /\ EachOnce(stack)
    BY <1>3, <1>5, <2>1
  <2>3. MovedToFront(stack, position, SetMru(stack, n))
    BY <2>2, SetMruEffect
  <2>. QED BY <2>1, <2>3
<1>7. order' = [order EXCEPT ![s] = SetMru(order[s], n)]
  BY DEF Use
<1>8. order'[s] = SetMru(order[s], n) /\ \A t \in SetIndices \ {s} : order'[t] = order[t]
  BY <1>1, <1>2, <1>7
<1>9. order' \in [SetIndices -> [Way -> Way]]
  BY <1>1, <1>2, <1>6, <1>7 DEF MovedToFront
<1>10. blocks' = [blocks EXCEPT ![s] = [blocks[s] EXCEPT ![n] = block]]
  BY DEF Use
<1>11. blocks[s] \in [Way -> CacheBlock] /\ [blocks[s] EXCEPT ![n] = block] \in [Way -> CacheBlock]
  BY <1>1, <1>2
<1>12. /\ blocks' \in [SetIndices -> [Way -> CacheBlock]]
       /\ blocks'[s] = [blocks[s] EXCEPT ![n] = block]
       /\ \A t \in SetIndices \ {s} : blocks'[t] = blocks[t]
  BY <1>1, <1>2, <1>10, <1>11
<1>13. blocks'[s][n] = block /\ \A w \in Way \ {n} : blocks'[s][w] = blocks[s][w]
  BY <1>1, <1>11, <1>12
<1>14. \A w \in Way : \E i \in Way : order'[s][i] = w
  BY <1>4, <1>6, <1>8 DEF MovedToFront
<1>15. EachOnce(order'[s])
  BY <1>6, <1>8 DEF MovedToFront
<1>. QED BY <1>5, <1>6, <1>8, <1>9, <1>12, <1>13, <1>14, <1>15

(* The way used is valid afterwards, and it is the one that leaves the       *)
(* order of the others unchanged.                                            *)
LEMMA UseKeeps ==
  ASSUME IInv, NEW s, NEW n, NEW block, Use(s, n, block)
  PROVE  StackOrdersWays' /\ WaysOnce'
<1>1. /\ \A t \in SetIndices \ {s} : blocks'[t] = blocks[t] /\ order'[t] = order[t]
      /\ blocks'[s][n] = block /\ \A w \in Way \ {n} : blocks'[s][w] = blocks[s][w]
      /\ EachOnce(order'[s])
      /\ \A w \in Way : \E i \in Way : order'[s][i] = w
      /\ order' \in [SetIndices -> [Way -> Way]]
  BY UseEffect
<1>2. PICK position \in Way :
        \A i \in Way : order'[s][i] = IF i = 0 THEN n
                                      ELSE IF i <= position THEN order[s][i - 1] ELSE order[s][i]
  <2>1. PICK p \in Way : order[s][p] = n /\ MovedToFront(order[s], p, order'[s])
    BY UseEffect
  <2>2. \A i \in Way : order'[s][i] = IF i = 0 THEN n
                                      ELSE IF i <= p THEN order[s][i - 1] ELSE order[s][i]
    BY <2>1 DEF MovedToFront
  <2>. QED BY <2>2
<1>3. s \in SetIndices /\ n \in Way /\ block.valid
  BY DEF Use
<1>4. Ways \in Nat \ {0} /\ Way = 0 .. Ways - 1
  BY CacheAssumption DEF Way
<1>5. ASSUME NEW i \in Way, NEW j \in Way, i < j, ~blocks'[s][order'[s][i]].valid
      PROVE  ~blocks'[s][order'[s][j]].valid /\ order'[s][i] < order'[s][j]
  <2>1. order'[s][i] # n /\ i # 0 /\ j # 0
    <3>1. order'[s][i] # n
      BY <1>1, <1>3, <1>5
    <3>2. 0 \in Way /\ order'[s][0] = n
      BY <1>2, <1>4
    <3>. QED BY <1>4, <1>5, <3>1, <3>2
  <2>2. order'[s][j] # n
    <3>1. 0 \in Way /\ order'[s][0] = n
      BY <1>2, <1>4
    <3>. QED BY <1>1, <2>1, <3>1 DEF EachOnce
  <2>. DEFINE Old(k) == IF k <= position THEN k - 1 ELSE k
  <2>3. Old(i) \in Way /\ Old(j) \in Way /\ Old(i) < Old(j)
    BY <1>4, <1>5, <2>1
  <2>4. order'[s][i] = order[s][Old(i)] /\ order'[s][j] = order[s][Old(j)]
    BY <1>2, <2>1
  <2>. HIDE DEF Old
  <2>5. order[s][Old(i)] \in Way /\ order[s][Old(j)] \in Way
    BY <1>3, <2>3 DEF IInv, TypeOK
  <2>6. ~blocks[s][order[s][Old(i)]].valid
    BY <1>1, <1>5, <2>1, <2>4, <2>5
  <2>7. ~blocks[s][order[s][Old(j)]].valid /\ order[s][Old(i)] < order[s][Old(j)]
    BY <1>3, <2>3, <2>6 DEF IInv, StackOrdersWays
  <2>. QED BY <1>1, <2>2, <2>4, <2>5, <2>7
<1>6. StackOrdersWays'
  <2>1. ASSUME NEW t \in SetIndices
        PROVE  /\ \A w \in Way : \E i \in Way : order'[t][i] = w
               /\ \A i, j \in Way : i < j /\ ~blocks'[t][order'[t][i]].valid =>
                    ~blocks'[t][order'[t][j]].valid /\ order'[t][i] < order'[t][j]
    <3>1. CASE t = s
      BY <1>1, <1>5, <3>1
    <3>2. CASE t # s
      <4>1. blocks'[t] = blocks[t] /\ order'[t] = order[t]
        BY <1>1, <3>2
      <4>. QED BY <4>1 DEF IInv, StackOrdersWays
    <3>. QED BY <3>1, <3>2
  <2>. QED BY <2>1 DEF StackOrdersWays
<1>7. WaysOnce'
  <2>1. ASSUME NEW t \in SetIndices PROVE EachOnce(order'[t])
    <3>1. CASE t = s
      BY <1>1, <3>1
    <3>2. CASE t # s
      <4>1. order'[t] = order[t]
        BY <1>1, <3>2
      <4>. QED BY <4>1 DEF IInv, WaysOnce
    <3>. QED BY <3>1, <3>2
  <2>. QED BY <2>1 DEF WaysOnce
<1>. QED BY <1>6, <1>7

(* A hit and a miss are such uses: of the way found, of the lowest invalid   *)
(* way or of the least recently used one.                                    *)
LEMMA HitUses ==
  ASSUME IInv, NEW s \in SetIndices, NEW tag \in Nat, NEW type \in AccessTypes, Hit(s, tag, type)
  PROVE  \E n \in Way : /\ blocks[s][n].valid /\ blocks[s][n].tag = tag
                        /\ Use(s, n, [tag |-> blocks[s][n].tag, valid |-> blocks[s][n].valid,
                                      dirty |-> blocks[s][n].dirty \/ type = "MEMWRITE"])
                        /\ hits' = hits + 1 /\ UNCHANGED <<misses, writebacks>>
<1>. DEFINE n == Lowest(Matching(s, tag))
            b == [tag |-> blocks[s][n].tag, valid |-> blocks[s][n].valid,
                  dirty |-> blocks[s][n].dirty \/ type = "MEMWRITE"]
<1>1. n \in Matching(s, tag)
  BY LowestOf DEF Hit, Matching
<1>2. n \in Way /\ blocks[s][n].valid /\ blocks[s][n].tag = tag
  BY <1>1 DEF Matching
<1>3. /\ hits' = hits + 1 /\ UNCHANGED <<misses, writebacks>>
      /\ order' = [order EXCEPT ![s] = SetMru(order[s], n)]
      /\ blocks' = [blocks EXCEPT ![s] = [blocks[s] EXCEPT ![n] =
                      [blocks[s][n] EXCEPT !.dirty = blocks[s][n].dirty \/ type = "MEMWRITE"]]]
  BY DEF Hit
<1>. HIDE DEF n
<1>4. blocks[s][n] \in CacheBlock
  BY <1>2 DEF IInv, TypeOK
<1>5. [blocks[s][n] EXCEPT !.dirty = blocks[s][n].dirty \/ type = "MEMWRITE"] = b /\ b \in CacheBlock
  <2>1. PICK old \in CacheBlock : old = blocks[s][n]
    BY <1>4
  <2>2. PICK dirty \in BOOLEAN : dirty = (old.dirty \/ type = "MEMWRITE")
    OBVIOUS
  <2>3. [old EXCEPT !.dirty = dirty] = [tag |-> old.tag, valid |-> old.valid, dirty |-> dirty]
    BY DEF CacheBlock
  <2>4. [tag |-> old.tag, valid |-> old.valid, dirty |-> dirty] \in CacheBlock
    BY DEF CacheBlock
  <2>. QED BY <2>1, <2>2, <2>3, <2>4
<1>6. Use(s, n, b)
  BY <1>2, <1>3, <1>5 DEF Use
<1>. QED BY <1>2, <1>3, <1>6

LEMMA MissUses ==
  ASSUME IInv, NEW s \in SetIndices, NEW tag \in Nat, NEW type \in AccessTypes, Miss(s, tag, type)
  PROVE  \E n \in Way :
           /\ Matching(s, tag) = {}
           /\ IF Invalid(s) = {} THEN n = GetLru(order[s]) ELSE n \in Invalid(s)
           /\ Use(s, n, [tag |-> ToInt(tag), valid |-> TRUE, dirty |-> type = "MEMWRITE"])
           /\ misses' = misses + 1 /\ UNCHANGED hits
           /\ writebacks' = IF Invalid(s) = {} /\ blocks[s][n].dirty THEN writebacks + 1 ELSE writebacks
<1>. DEFINE n == IF Invalid(s) = {} THEN GetLru(order[s]) ELSE Lowest(Invalid(s))
            b == [tag |-> ToInt(tag), valid |-> TRUE, dirty |-> type = "MEMWRITE"]
<1>1. Ways - 1 \in Way
  BY CacheAssumption DEF Way
<1>2. n \in Way /\ IF Invalid(s) = {} THEN n = GetLru(order[s]) ELSE n \in Invalid(s)
  <2>1. order[s][Ways - 1] \in Way
    BY <1>1 DEF IInv, TypeOK
  <2>2. Invalid(s) \subseteq Way
    BY DEF Invalid
  <2>3. CASE Invalid(s) = {}
    BY <2>1, <2>3 DEF GetLru
  <2>4. CASE Invalid(s) # {}
    BY <2>2, <2>4, LowestOf
  <2>. QED BY <2>3, <2>4
<1>3. /\ Matching(s, tag) = {} /\ misses' = misses + 1 /\ UNCHANGED hits
      /\ writebacks' = IF Invalid(s) = {} /\ blocks[s][n].dirty THEN writebacks + 1 ELSE writebacks
      /\ order' = [order EXCEPT ![s] = SetMru(order[s], n)]
      /\ blocks' = [blocks EXCEPT ![s] = [blocks[s] EXCEPT ![n] = b]]
  BY DEF Miss
<1>. HIDE DEF n
<1>4. b \in CacheBlock
  BY ToIntRange DEF CacheBlock
<1>5. Use(s, n, b)
  BY <1>2, <1>3, <1>4 DEF Use
<1>. QED BY <1>2, <1>3, <1>5

LEMMA InitIInv == Init => IInv
<1>. SUFFICES ASSUME Init PROVE IInv
  OBVIOUS
<1>1. \A s \in SetIndices : order[s] = [i \in Way |-> i]
  BY DEF Init, InitialStack
<1>2. Ways \in Nat \ {0} /\ Way = 0 .. Ways - 1 /\ MaxAccesses \in Nat
  BY CacheAssumption DEF Way
<1>3. TypeOK
  <2>1. 0 \in -(IntRange \div 2) - 1 .. IntRange \div 2
    BY CacheAssumption
  <2>2. [tag |-> 0, valid |-> FALSE, dirty |-> FALSE] \in CacheBlock
    BY <2>1 DEF CacheBlock
  <2>3. request \in [address : 0 .. MaxAddress, type : AccessTypes \cup {"NONE"}]
    BY CacheAssumption DEF Init
  <2>. QED BY <1>2, <2>2, <2>3 DEF Init, InitialStack, TypeOK
<1>4. StackOrdersWays
  <2>1. \A s \in SetIndices, w \in Way : ~blocks[s][w].valid
    BY DEF Init
  <2>2. ASSUME NEW s \in SetIndices
        PROVE  /\ \A w \in Way : \E i \in Way : order[s][i] = w
               /\ \A i, j \in Way : i < j /\ ~blocks[s][order[s][i]].valid =>
                    ~blocks[s][order[s][j]].valid /\ order[s][i] < order[s][j]
    <3>1. \A i \in Way : order[s][i] = i
      BY <1>1
    <3>. QED BY <2>1, <3>1
  <2>. QED BY <2>2 DEF StackOrdersWays
<1>5. WaysOnce
  <2>1. \A s \in SetIndices : \A i \in Way : order[s][i] = i
    BY <1>1
  <2>. QED BY <2>1 DEF WaysOnce, EachOnce
<1>. QED BY <1>3, <1>4, <1>5 DEF IInv

LEMMA NextIInv == IInv /\ [Next]_vars => IInv'
<1>. SUFFICES ASSUME IInv, [Next]_vars PROVE IInv'
  OBVIOUS
<1>1. CASE UNCHANGED vars
  BY <1>1 DEF vars, IInv, TypeOK, StackOrdersWays, WaysOnce
<1>2. CASE Next
  <2>1. PICK address \in 0 .. MaxAddress, type \in AccessTypes : Access(address, type)
    BY <1>2 DEF Next
  <2>2. SetIndex(address) \in SetIndices /\ Tag(address) \in Nat
    BY AddressParts
  <2>3. PICK s \in SetIndices, tag \in Nat : s = SetIndex(address) /\ tag = Tag(address)
    BY <2>2
  <2>4. /\ accesses < MaxAccesses /\ accesses' = accesses + 1
        /\ Hit(s, tag, type) \/ Miss(s, tag, type)
    BY <2>1, <2>3 DEF Access
  <2>5. PICK n, block : Use(s, n, block)
    <3>1. CASE Hit(s, tag, type)
      <4>1. PICK h \in Way : Use(s, h, [tag |-> blocks[s][h].tag, valid |-> blocks[s][h].valid,
                                        dirty |-> blocks[s][h].dirty \/ type = "MEMWRITE"])
        BY <3>1, HitUses
      <4>. QED BY <4>1
    <3>2. CASE Miss(s, tag, type)
      <4>1. PICK h \in Way : Use(s, h, [tag |-> ToInt(tag), valid |-> TRUE, dirty |-> type = "MEMWRITE"])
        BY <3>2, MissUses
      <4>. QED BY <4>1
    <3>. QED BY <2>4, <3>1, <3>2
  <2>6. hits' \in Nat /\ misses' \in Nat /\ writebacks' \in Nat
    BY <2>4 DEF Hit, Miss, IInv, TypeOK
  <2>7. accesses' \in 0 .. MaxAccesses
    BY <2>4, CacheAssumption DEF IInv, TypeOK
  <2>8. request' \in [address : 0 .. MaxAddress, type : AccessTypes \cup {"NONE"}]
    BY <2>1 DEF Access
  <2>9. TypeOK'
    BY <2>5, <2>6, <2>7, <2>8, UseEffect DEF TypeOK
  <2>. QED BY <2>5, <2>9, UseKeeps DEF IInv
<1>. QED BY <1>1, <1>2

LEMMA Invariance == Spec => []IInv
BY InitIInv, NextIInv, PTL DEF Spec

(* Type correctness: in particular the LRU stack always names a way, and the *)
(* tags stored fit an int.                                                   *)
THEOREM TypeCorrect == Spec => []TypeOK
<1>1. IInv => TypeOK
  BY DEF IInv
<1>. QED BY <1>1, Invariance, PTL

(* Each way is in its set's LRU stack, the invalid ones last, in the order   *)
(* in which cachesim_access() fills them.                                    *)
THEOREM StackIsComplete == Spec => []StackOrdersWays
<1>1. IInv => StackOrdersWays
  BY DEF IInv
<1>. QED BY <1>1, Invariance, PTL

-----------------------------------------------------------------------------
(* Lists of blocks                                                           *)

(* At the front of a sequence.                                               *)
LEMMA InFront ==
  ASSUME NEW T, NEW seq \in Seq(T), NEW new \in T
  PROVE  <<new>> \o seq = [i \in 1 .. Len(seq) + 1 |-> IF i = 1 THEN new ELSE seq[i - 1]]
<1>. DEFINE both == [i \in 1 .. Len(seq) + 1 |-> IF i = 1 THEN new ELSE seq[i - 1]]
<1>1. <<new>> \in Seq(T) /\ Len(<<new>>) = 1 /\ <<new>>[1] = new
  OBVIOUS
<1>2. Len(seq) \in Nat
  BY LenProperties
<1>3. /\ <<new>> \o seq \in Seq(T) /\ Len(<<new>> \o seq) = 1 + Len(seq)
      /\ \A i \in 1 .. 1 + Len(seq) : (<<new>> \o seq)[i] = IF i <= 1 THEN <<new>>[i] ELSE seq[i - 1]
  BY <1>1, ConcatProperties
<1>4. DOMAIN (<<new>> \o seq) = 1 .. Len(seq) + 1
      /\ <<new>> \o seq = [i \in DOMAIN (<<new>> \o seq) |-> (<<new>> \o seq)[i]]
  BY <1>2, <1>3, LenProperties
<1>5. ASSUME NEW i \in 1 .. Len(seq) + 1 PROVE (<<new>> \o seq)[i] = both[i]
  BY <1>1, <1>2, <1>3
<1>. QED BY <1>4, <1>5

(* To the front of a sequence from within.                                   *)
MoveEntry(seq, new, old) == <<new>> \o SubSeq(seq, 1, old - 1) \o SubSeq(seq, old + 1, Len(seq))

LEMMA ToFront ==
  ASSUME NEW T, NEW seq \in Seq(T), NEW new \in T, NEW old \in 1 .. Len(seq)
  PROVE  MoveEntry(seq, new, old)
           = [i \in 1 .. Len(seq) |-> IF i = 1 THEN new ELSE IF i <= old THEN seq[i - 1] ELSE seq[i]]
<1>. DEFINE before == SubSeq(seq, 1, old - 1)
            after == SubSeq(seq, old + 1, Len(seq))
            front == <<new>> \o before
            all == front \o after
<1>1. Len(seq) \in Nat /\ \A i \in 1 .. Len(seq) : seq[i] \in T
  BY LenProperties
<1>2. before \in Seq(T) /\ Len(before) = old - 1 /\ \A i \in 1 .. old - 1 : before[i] = seq[i]
  <2>1. \A i \in 1 .. old - 1 : seq[i] \in T
    BY <1>1
  <2>2. /\ before \in Seq(T) /\ Len(before) = IF 1 <= old - 1 THEN (old - 1) - 1 + 1 ELSE 0
        /\ \A i \in 1 .. (old - 1) - 1 + 1 : before[i] = seq[1 + i - 1]
    BY <2>1, SubSeqProperties
  <2>. QED BY <1>1, <2>2
<1>3. after \in Seq(T) /\ Len(after) = Len(seq) - old
      /\ \A i \in 1 .. Len(seq) - old : after[i] = seq[old + i]
  <2>1. \A i \in old + 1 .. Len(seq) : seq[i] \in T
    BY <1>1
  <2>2. /\ after \in Seq(T)
        /\ Len(after) = IF old + 1 <= Len(seq) THEN Len(seq) - (old + 1) + 1 ELSE 0
        /\ \A i \in 1 .. Len(seq) - (old + 1) + 1 : after[i] = seq[(old + 1) + i - 1]
    BY <1>1, <2>1, SubSeqProperties
  <2>. QED BY <1>1, <2>2
<1>. HIDE DEF before, after
<1>4. front = [i \in 1 .. old |-> IF i = 1 THEN new ELSE before[i - 1]]
  BY <1>2, InFront
<1>5. front \in Seq(T) /\ Len(front) = old
  <2>1. <<new>> \in Seq(T) /\ Len(<<new>>) = 1
    OBVIOUS
  <2>. QED BY <1>2, <2>1, ConcatProperties
<1>. HIDE DEF front
<1>6. /\ all \in Seq(T) /\ Len(all) = Len(seq)
      /\ \A i \in 1 .. Len(seq) : all[i] = IF i <= old THEN front[i] ELSE after[i - old]
  <2>1. old + (Len(seq) - old) = Len(seq)
    BY <1>1
  <2>2. /\ all \in Seq(T) /\ Len(all) = Len(front) + Len(after)
        /\ \A i \in 1 .. Len(front) + Len(after) :
             all[i] = IF i <= Len(front) THEN front[i] ELSE after[i - Len(front)]
    BY <1>3, <1>5, ConcatProperties
  <2>. QED BY <1>3, <1>5, <2>1, <2>2
<1>. HIDE DEF all
<1>7. DOMAIN all = 1 .. Len(seq) /\ all = [i \in DOMAIN all |-> all[i]]
  BY <1>6, LenProperties
<1>8. ASSUME NEW i \in 1 .. Len(seq)
      PROVE  all[i] = IF i = 1 THEN new ELSE IF i <= old THEN seq[i - 1] ELSE seq[i]
  <2>1. CASE i <= old
    <3>1. i \in 1 .. old /\ i # 1 => i - 1 \in 1 .. old - 1
      BY <1>1, <2>1
    <3>. QED BY <1>2, <1>4, <1>6, <2>1, <3>1
  <2>2. CASE ~(i <= old)
    <3>1. i - old \in 1 .. Len(seq) - old /\ old + (i - old) = i /\ i # 1
      BY <1>1, <2>2
    <3>. QED BY <1>3, <1>6, <2>2, <3>1
  <2>. QED BY <2>1, <2>2
<1>. QED BY <1>7, <1>8 DEF MoveEntry, all, front, before, after

-----------------------------------------------------------------------------
(* A set as the list of its valid blocks                                     *)

(* The sets that addresses are mapped to.                                    *)
SetsUsed == 2^NumIndexBits

LEMMA SetsUsedAreThere == SetsUsed \in Nat \ {0} /\ 0 .. SetsUsed - 1 \subseteq SetIndices
<1>1. NumSets \in Nat
  <2>1. BlockSize * Ways \in Nat \ {0} /\ CacheSize \in Nat
    BY CacheAssumption
  <2>. QED BY <2>1, DivMod DEF NumSets
<1>2. SetsUsed \in 1 .. NumSets
  BY IndexAssumption DEF SetsUsed
<1>. QED BY <1>1, <1>2 DEF SetIndices

LEMMA SameTag ==
  ASSUME NEW a \in Int, NEW b \in Int, NEW n \in Nat \ {0}, NEW r \in Int, a * n + r = b * n + r
  PROVE  a = b
<1>1. a * n = b * n
  BY SMT
<1>. QED BY <1>1, SMT

(* CacheSim!Lines for given contents of a set.                               *)
ListOf(ways, stack, s) ==
  LET valid == {w \in Way : ways[stack[w]].valid}
      line(i) == ways[stack[i - 1]]
      count == CHOOSE n \in 0 .. Ways : valid = 0 .. n - 1
  IN [i \in 1 .. count |-> [block |-> line(i).tag * SetsUsed + s, dirty |-> line(i).dirty]]

(* The first n ways of the stack are valid, the others are not.              *)
ValidFirst(ways, stack, n) == \A i \in Way : ways[stack[i]].valid <=> i < n

LEMMA ValidAreFirst ==
  ASSUME NEW ways, NEW stack,
         \A i, j \in Way : i < j /\ ~ways[stack[i]].valid => ~ways[stack[j]].valid
  PROVE  \E n \in 0 .. Ways : ValidFirst(ways, stack, n)
<1>. DEFINE S == {i \in Way : ~ways[stack[i]].valid}
<1>1. Ways \in Nat \ {0} /\ Way = 0 .. Ways - 1
  BY CacheAssumption DEF Way
<1>2. CASE S = {}
  <2>1. \A i \in Way : ways[stack[i]].valid <=> i < Ways
    BY <1>1, <1>2
  <2>. QED BY <1>1, <2>1 DEF ValidFirst
<1>3. CASE S # {}
  <2>1. S \subseteq Nat
    BY <1>1
  <2>2. PICK n \in S : \A k \in S : n <= k
    BY <1>3, <2>1, Least
  <2>3. n \in Way /\ ~ways[stack[n]].valid /\ \A i \in Way : ~ways[stack[i]].valid => n <= i
    BY <2>2
  <2>4. ASSUME NEW i \in Way PROVE ways[stack[i]].valid <=> i < n
    <3>1. CASE i < n
      BY <1>1, <2>3, <3>1
    <3>2. CASE i = n
      BY <1>1, <2>3, <3>2
    <3>3. CASE n < i
      BY <1>1, <2>3, <3>3
    <3>. QED BY <1>1, <2>3, <3>1, <3>2, <3>3
  <2>5. n \in 0 .. Ways
    BY <1>1, <2>3
  <2>6. ValidFirst(ways, stack, n)
    BY <2>4 DEF ValidFirst
  <2>. QED BY <2>5, <2>6
<1>. QED BY <1>2, <1>3

LEMMA ListIs ==
  ASSUME NEW ways, NEW stack, NEW s, NEW n \in 0 .. Ways, ValidFirst(ways, stack, n)
  PROVE  ListOf(ways, stack, s) =
           [i \in 1 .. n |-> [block |-> ways[stack[i - 1]].tag * SetsUsed + s,
                              dirty |-> ways[stack[i - 1]].dirty]]
<1>. DEFINE valid == {w \in Way : ways[stack[w]].valid}
<1>1. Ways \in Nat \ {0} /\ Way = 0 .. Ways - 1
  BY CacheAssumption DEF Way
<1>2. \A w : w \in valid <=> w \in 0 .. n - 1
  BY <1>1 DEF ValidFirst
<1>. HIDE DEF valid
<1>3. valid = 0 .. n - 1
  BY <1>2
<1>4. \A m \in 0 .. Ways : valid = 0 .. m - 1 => m = n
  <2>1. ASSUME NEW m \in 0 .. Ways, valid = 0 .. m - 1 PROVE m = n
    <3>1. \A k \in Int : k \in 0 .. m - 1 <=> k \in 0 .. n - 1
      BY <1>3, <2>1
    <3>2. m \in Nat /\ n \in Nat
      BY <1>1
    <3>3. m \in 0 .. m - 1 <=> m \in 0 .. n - 1
      BY <3>1, <3>2
    <3>4. n \in 0 .. m - 1 <=> n \in 0 .. n - 1
      BY <3>1, <3>2
    <3>. QED BY <3>2, <3>3, <3>4
  <2>. QED BY <2>1
<1>5. (CHOOSE m \in 0 .. Ways : valid = 0 .. m - 1) = n
  BY <1>3, <1>4
<1>. QED BY <1>5 DEF ListOf, valid
LEMMA SameCount ==
  ASSUME NEW ways, NEW stack, NEW m \in 0 .. Ways, NEW n \in 0 .. Ways,
         ValidFirst(ways, stack, m), ValidFirst(ways, stack, n)
  PROVE  m = n
<1>1. Ways \in Nat \ {0} /\ Way = 0 .. Ways - 1
  BY CacheAssumption DEF Way
<1>2. \A i \in Way : i < m <=> i < n
  BY DEF ValidFirst
<1>3. m \in Nat /\ n \in Nat /\ m <= Ways /\ n <= Ways
  BY <1>1
<1>4. ~(m < n)
  <2>1. m < n => m \in Way
    BY <1>1, <1>3
  <2>. QED BY <1>2, <1>3, <2>1
<1>5. ~(n < m)
  <2>1. n < m => n \in Way
    BY <1>1, <1>3
  <2>. QED BY <1>2, <1>3, <2>1
<1>. QED BY <1>3, <1>4, <1>5

(* The use of a valid way moves its block to the front of the list.          *)
LEMMA ValidWayMoves ==
  ASSUME NEW ways, NEW new, NEW stack \in [Way -> Way], NEW stack2, NEW s,
         NEW p \in Way, NEW n \in 0 .. Ways, p < n,
         EachOnce(stack), MovedToFront(stack, p, stack2), ValidFirst(ways, stack, n),
         new[stack[p]].valid, \A w \in Way \ {stack[p]} : new[w] = ways[w]
  PROVE  /\ ValidFirst(new, stack2, n)
         /\ ListOf(new, stack2, s) =
              [i \in 1 .. n |-> IF i = 1 THEN [block |-> new[stack[p]].tag * SetsUsed + s,
                                               dirty |-> new[stack[p]].dirty]
                                ELSE IF i <= p + 1 THEN ListOf(ways, stack, s)[i - 1]
                                ELSE ListOf(ways, stack, s)[i]]
<1>1. Ways \in Nat \ {0} /\ Way = 0 .. Ways - 1
  BY CacheAssumption DEF Way
<1>2. \A i \in Way : stack2[i] = IF i = 0 THEN stack[p] ELSE IF i <= p THEN stack[i - 1] ELSE stack[i]
  BY DEF MovedToFront
<1>3. \A i \in Way : i # p => stack[i] \in Way \ {stack[p]} /\ new[stack[i]] = ways[stack[i]]
  BY DEF EachOnce
<1>4. \A i \in Way : i # 0 => new[stack2[i]] = IF i <= p THEN ways[stack[i - 1]] ELSE ways[stack[i]]
  <2>1. ASSUME NEW i \in Way, i # 0, i <= p PROVE new[stack2[i]] = ways[stack[i - 1]]
    <3>1. i - 1 \in Way /\ i - 1 # p
      BY <1>1, <2>1
    <3>. QED BY <1>2, <1>3, <2>1, <3>1
  <2>2. ASSUME NEW i \in Way, i # 0, ~(i <= p) PROVE new[stack2[i]] = ways[stack[i]]
    <3>1. i # p
      BY <1>1, <2>2
    <3>. QED BY <1>2, <1>3, <2>2, <3>1
  <2>. QED BY <2>1, <2>2
<1>5. 0 \in Way /\ new[stack2[0]] = new[stack[p]]
  BY <1>1, <1>2
<1>6. ValidFirst(new, stack2, n)
  <2>1. ASSUME NEW i \in Way PROVE new[stack2[i]].valid <=> i < n
    <3>1. CASE i = 0
      BY <1>1, <1>5, <3>1
    <3>2. CASE i # 0 /\ i <= p
      <4>1. i - 1 \in Way /\ i - 1 < n /\ i < n
        BY <1>1, <3>2
      <4>2. ways[stack[i - 1]].valid
        BY <4>1 DEF ValidFirst
      <4>. QED BY <1>4, <3>2, <4>1, <4>2
    <3>3. CASE i # 0 /\ ~(i <= p)
      BY <1>4, <3>3 DEF ValidFirst
    <3>. QED BY <3>1, <3>2, <3>3
  <2>. QED BY <2>1 DEF ValidFirst
<1>7. ListOf(ways, stack, s) =
        [i \in 1 .. n |-> [block |-> ways[stack[i - 1]].tag * SetsUsed + s,
                           dirty |-> ways[stack[i - 1]].dirty]]
  BY ListIs
<1>8. ListOf(new, stack2, s) =
        [i \in 1 .. n |-> [block |-> new[stack2[i - 1]].tag * SetsUsed + s,
                           dirty |-> new[stack2[i - 1]].dirty]]
  BY <1>6, ListIs
<1>9. ASSUME NEW i \in 1 .. n, i # 1
      PROVE  [block |-> new[stack2[i - 1]].tag * SetsUsed + s, dirty |-> new[stack2[i - 1]].dirty]
               = IF i <= p + 1 THEN ListOf(ways, stack, s)[i - 1] ELSE ListOf(ways, stack, s)[i]
  <2>1. i - 1 \in Way /\ i - 1 # 0
    BY <1>1, <1>9
  <2>2. CASE i <= p + 1
    <3>1. i - 1 \in 1 .. n /\ i - 1 <= p
      BY <1>1, <1>9, <2>2
    <3>2. new[stack2[i - 1]] = ways[stack[(i - 1) - 1]]
      BY <1>4, <2>1, <3>1
    <3>3. ListOf(ways, stack, s)[i - 1] = [block |-> ways[stack[(i - 1) - 1]].tag * SetsUsed + s,
                                           dirty |-> ways[stack[(i - 1) - 1]].dirty]
      BY <1>7, <3>1
    <3>. QED BY <2>2, <3>2, <3>3
  <2>3. CASE ~(i <= p + 1)
    <3>1. ~(i - 1 <= p)
      BY <1>1, <1>9, <2>3
    <3>2. new[stack2[i - 1]] = ways[stack[i - 1]]
      BY <1>4, <2>1, <3>1
    <3>. QED BY <1>7, <2>3, <3>2
  <2>. QED BY <2>2, <2>3
<1>. QED BY <1>5, <1>6, <1>8, <1>9
(* The use of an invalid way, or of the last of a set of valid ones, brings  *)
(* its new block to the front of the list.                                   *)
LEMMA NewBlockEnters ==
  ASSUME NEW ways, NEW new, NEW stack \in [Way -> Way], NEW stack2, NEW s,
         NEW p \in Way, NEW n \in 0 .. Ways, NEW kept,
         kept = IF n = Ways THEN Ways - 1 ELSE n, p >= kept,
         EachOnce(stack), MovedToFront(stack, p, stack2), ValidFirst(ways, stack, n),
         new[stack[p]].valid, \A w \in Way \ {stack[p]} : new[w] = ways[w]
  PROVE  /\ ValidFirst(new, stack2, kept + 1)
         /\ ListOf(new, stack2, s) =
              [i \in 1 .. kept + 1 |-> IF i = 1 THEN [block |-> new[stack[p]].tag * SetsUsed + s,
                                                      dirty |-> new[stack[p]].dirty]
                                       ELSE ListOf(ways, stack, s)[i - 1]]
<1>1. Ways \in Nat \ {0} /\ Way = 0 .. Ways - 1
  BY CacheAssumption DEF Way
<1>2. /\ kept \in 0 .. Ways - 1 /\ kept + 1 \in 0 .. Ways /\ kept <= n /\ p \in Int /\ n \in Int
      /\ n = kept \/ (n = kept + 1 /\ p = Ways - 1)
  <2>1. p \in Int /\ p <= Ways - 1 /\ n \in Int /\ 0 <= n /\ n <= Ways
    BY <1>1
  <2>2. CASE n = Ways
    BY <1>1, <2>1, <2>2
  <2>3. CASE n # Ways
    BY <1>1, <2>1, <2>3
  <2>. QED BY <2>2, <2>3
<1>3. \A i \in Way : stack2[i] = IF i = 0 THEN stack[p] ELSE IF i <= p THEN stack[i - 1] ELSE stack[i]
  BY DEF MovedToFront
<1>4. \A i \in Way : i # p => stack[i] \in Way \ {stack[p]} /\ new[stack[i]] = ways[stack[i]]
  BY DEF EachOnce
<1>5. /\ \A i \in Way : i # 0 /\ i <= p => new[stack2[i]] = ways[stack[i - 1]]
      /\ \A i \in Way : i # 0 /\ ~(i <= p) => new[stack2[i]] = ways[stack[i]]
  <2>1. ASSUME NEW i \in Way, i # 0, i <= p PROVE new[stack2[i]] = ways[stack[i - 1]]
    <3>1. i - 1 \in Way /\ i - 1 # p
      BY <1>1, <2>1
    <3>. QED BY <1>3, <1>4, <2>1, <3>1
  <2>2. ASSUME NEW i \in Way, i # 0, ~(i <= p) PROVE new[stack2[i]] = ways[stack[i]]
    <3>1. i # p
      BY <1>1, <2>2
    <3>. QED BY <1>3, <1>4, <2>2, <3>1
  <2>. QED BY <2>1, <2>2
<1>6. 0 \in Way /\ new[stack2[0]] = new[stack[p]]
  <2>1. 0 \in Way
    BY <1>1
  <2>. QED BY <1>3, <2>1
<1>7. ValidFirst(new, stack2, kept + 1)
  <2>1. ASSUME NEW i \in Way PROVE new[stack2[i]].valid <=> i < kept + 1
    <3>1. CASE i = 0
      BY <1>6, <1>2, <3>1
    <3>2. CASE i # 0 /\ i <= p
      <4>1. i - 1 \in Way /\ (i - 1 < n <=> i < kept + 1)
        <5>1. i \in Int /\ i <= Ways - 1 /\ i >= 1 /\ i <= p
          BY <1>1, <3>2
        <5>2. i - 1 \in Way
          BY <1>1, <5>1
        <5>3. i - 1 < n <=> i < kept + 1
          BY <1>2, <5>1
        <5>. QED BY <5>2, <5>3
      <4>2. ways[stack[i - 1]].valid <=> i - 1 < n
        BY <4>1 DEF ValidFirst
      <4>. QED BY <1>5, <3>2, <4>1, <4>2
    <3>3. CASE i # 0 /\ ~(i <= p)
      <4>1. ~(i < n) /\ ~(i < kept + 1)
        <5>1. i \in Int /\ i <= Ways - 1 /\ ~(i <= p)
          BY <1>1, <3>3
        <5>. QED BY <1>2, <5>1
      <4>2. ~ways[stack[i]].valid
        BY <4>1 DEF ValidFirst
      <4>. QED BY <1>5, <3>3, <4>1, <4>2
    <3>. QED BY <3>1, <3>2, <3>3
  <2>. QED BY <2>1 DEF ValidFirst
<1>8. ListOf(ways, stack, s) =
        [i \in 1 .. n |-> [block |-> ways[stack[i - 1]].tag * SetsUsed + s,
                           dirty |-> ways[stack[i - 1]].dirty]]
  BY ListIs
<1>9. ListOf(new, stack2, s) =
        [i \in 1 .. kept + 1 |-> [block |-> new[stack2[i - 1]].tag * SetsUsed + s,
                                  dirty |-> new[stack2[i - 1]].dirty]]
  BY <1>7, <1>2, ListIs
<1>10. ASSUME NEW i \in 1 .. kept + 1, i # 1
      PROVE  [block |-> new[stack2[i - 1]].tag * SetsUsed + s, dirty |-> new[stack2[i - 1]].dirty]
               = ListOf(ways, stack, s)[i - 1]
  <2>1. i - 1 \in Way /\ i - 1 # 0 /\ i - 1 <= p /\ i - 1 \in 1 .. n
    BY <1>1, <1>2, <1>10
  <2>2. new[stack2[i - 1]] = ways[stack[(i - 1) - 1]]
    BY <1>5, <2>1
  <2>3. ListOf(ways, stack, s)[i - 1] = [block |-> ways[stack[(i - 1) - 1]].tag * SetsUsed + s,
                                         dirty |-> ways[stack[(i - 1) - 1]].dirty]
    BY <1>8, <2>1
  <2>. QED BY <2>2, <2>3
<1>. QED BY <1>6, <1>7, <1>9, <1>10

-----------------------------------------------------------------------------
(* The cache is one of sets with least-recently-used replacement             *)

(* What an int holds of a tag is the tag.                                    *)
TagsFit == \A address \in 0 .. MaxAddress : Tag(address) < IntRange \div 2

Entry == [block : Int, dirty : BOOLEAN]

(* The list of a set, in any state.                                          *)
LEMMA SetList ==
  ASSUME IInv, NEW s \in SetIndices
  PROVE  /\ blocks[s] \in [Way -> CacheBlock] /\ order[s] \in [Way -> Way] /\ EachOnce(order[s])
         /\ Lines(s) = ListOf(blocks[s], order[s], s)
         /\ \E n \in 0 .. Ways :
              /\ ValidFirst(blocks[s], order[s], n)
              /\ Lines(s) = [i \in 1 .. n |-> [block |-> blocks[s][order[s][i - 1]].tag * SetsUsed + s,
                                               dirty |-> blocks[s][order[s][i - 1]].dirty]]
              /\ Lines(s) \in Seq(Entry) /\ Len(Lines(s)) = n
<1>1. blocks[s] \in [Way -> CacheBlock] /\ order[s] \in [Way -> Way] /\ EachOnce(order[s])
  BY DEF IInv, TypeOK, WaysOnce
<1>2. Lines(s) = ListOf(blocks[s], order[s], s)
  BY DEF Lines, ListOf, SetsUsed
<1>3. \A i, j \in Way : i < j /\ ~blocks[s][order[s][i]].valid => ~blocks[s][order[s][j]].valid
  BY DEF IInv, StackOrdersWays
<1>4. PICK n \in 0 .. Ways : ValidFirst(blocks[s], order[s], n)
  BY <1>3, ValidAreFirst
<1>5. Lines(s) = [i \in 1 .. n |-> [block |-> blocks[s][order[s][i - 1]].tag * SetsUsed + s,
                                    dirty |-> blocks[s][order[s][i - 1]].dirty]]
  <2>1. PICK ways, stack : ways = blocks[s] /\ stack = order[s]
    OBVIOUS
  <2>2. ValidFirst(ways, stack, n)
    BY <1>4, <2>1
  <2>3. ListOf(ways, stack, s) = [i \in 1 .. n |-> [block |-> ways[stack[i - 1]].tag * SetsUsed + s,
                                                    dirty |-> ways[stack[i - 1]].dirty]]
    BY <2>2, ListIs
  <2>. QED BY <1>2, <2>1, <2>3
<1>6. Ways \in Nat \ {0} /\ Way = 0 .. Ways - 1 /\ IntRange \in Nat
  BY CacheAssumption DEF Way
<1>7. ASSUME NEW i \in 1 .. n
      PROVE  [block |-> blocks[s][order[s][i - 1]].tag * SetsUsed + s,
              dirty |-> blocks[s][order[s][i - 1]].dirty] \in Entry
  <2>1. i - 1 \in Way
    BY <1>6, <1>7
  <2>2. PICK line \in CacheBlock : line = blocks[s][order[s][i - 1]]
    BY <1>1, <2>1
  <2>3. line.tag \in Int /\ line.dirty \in BOOLEAN
    BY <1>6 DEF CacheBlock
  <2>4. s \in Int /\ SetsUsed \in Int
    BY SetsUsedAreThere DEF SetIndices
  <2>5. line.tag * SetsUsed + s \in Int
    BY <2>3, <2>4
  <2>. QED BY <2>2, <2>3, <2>5 DEF Entry
<1>8. n \in Nat /\ Lines(s) \in [1 .. n -> Entry]
  <2>1. n \in Nat
    BY <1>6
  <2>2. PICK list : list = Lines(s)
    OBVIOUS
  <2>3. list = [i \in 1 .. n |-> list[i]] /\ \A i \in 1 .. n : list[i] \in Entry
    BY <1>5, <1>7, <2>2
  <2>4. list \in [1 .. n -> Entry]
    BY <2>3
  <2>. QED BY <2>1, <2>2, <2>4
<1>9. Lines(s) \in Seq(Entry) /\ Len(Lines(s)) = n
  BY <1>8
<1>. QED BY <1>1, <1>2, <1>4, <1>5, <1>9

(* What a use of a way does to the list of its set, and to the others.       *)
LEMMA UseOnLists ==
  ASSUME IInv, NEW s, NEW h, NEW block, Use(s, h, block)
  PROVE  /\ Lines(s)' = ListOf(blocks'[s], order'[s], s)
         /\ \A t \in SetIndices \ {s} : Lines(t)' = Lines(t)
         /\ blocks'[s][h] = block /\ block.valid /\ \A w \in Way \ {h} : blocks'[s][w] = blocks[s][w]
         /\ \E p \in Way : order[s][p] = h /\ MovedToFront(order[s], p, order'[s])
<1>1. /\ \A t \in SetIndices \ {s} : blocks'[t] = blocks[t] /\ order'[t] = order[t]
      /\ blocks'[s][h] = block /\ \A w \in Way \ {h} : blocks'[s][w] = blocks[s][w]
      /\ \E p \in Way : order[s][p] = h /\ MovedToFront(order[s], p, order'[s])
  BY UseEffect
<1>2. Lines(s)' = ListOf(blocks'[s], order'[s], s)
  BY DEF Lines, ListOf, SetsUsed
<1>3. ASSUME NEW t \in SetIndices \ {s} PROVE Lines(t)' = Lines(t)
  <2>1. blocks'[t] = blocks[t] /\ order'[t] = order[t]
    BY <1>1
  <2>2. Lines(t)' = ListOf(blocks'[t], order'[t], t) /\ Lines(t) = ListOf(blocks[t], order[t], t)
    BY DEF Lines, ListOf, SetsUsed
  <2>. QED BY <2>1, <2>2
<1>4. block.valid
  BY DEF Use
<1>. QED BY <1>1, <1>2, <1>3, <1>4

(* No two lines of a set are the same block of memory, as no two ways are.   *)
LEMMA LineOfBlock ==
  ASSUME IInv, BlocksOnce, NEW s \in SetIndices, NEW i \in Way, NEW j \in Way,
         blocks[s][order[s][i]].valid, blocks[s][order[s][j]].valid,
         blocks[s][order[s][i]].tag * SetsUsed + s = blocks[s][order[s][j]].tag * SetsUsed + s
  PROVE  i = j
<1>1. order[s] \in [Way -> Way] /\ EachOnce(order[s])
  BY DEF IInv, TypeOK, WaysOnce
<1>2. PICK v \in Way, w \in Way : v = order[s][i] /\ w = order[s][j]
  BY <1>1
<1>3. blocks[s][v].tag \in Int /\ blocks[s][w].tag \in Int
  <2>1. blocks[s][v] \in CacheBlock /\ blocks[s][w] \in CacheBlock
    BY DEF IInv, TypeOK
  <2>. QED BY <2>1, CacheAssumption DEF CacheBlock
<1>4. blocks[s][v].tag = blocks[s][w].tag
  BY <1>2, <1>3, SameTag, SetsUsedAreThere DEF SetIndices
<1>5. v = w
  BY <1>2, <1>4 DEF BlocksOnce
<1>. QED BY <1>1, <1>2, <1>5 DEF EachOnce
(* The lists of the sets that addresses are mapped to, as LruSets sees them. *)
SetLists == [s \in 0 .. SetsUsed - 1 |-> Lines(s)]

LEMMA LruHitIs ==
  ASSUME NEW s, NEW b, NEW write
  PROVE  Lru!Hit(s, b, write) <=>
           LET old == CHOOSE i \in DOMAIN SetLists[s] : SetLists[s][i].block = b
           IN /\ \E i \in DOMAIN SetLists[s] : SetLists[s][i].block = b
              /\ SetLists' = [SetLists EXCEPT ![s] =
                   MoveEntry(SetLists[s], [block |-> b, dirty |-> SetLists[s][old].dirty \/ write], old)]
              /\ hits' = hits + 1
              /\ UNCHANGED <<misses, writebacks>>
BY DEF Lru!Hit, Lru!Cached, SetLists, SetsUsed, MoveEntry

(* A hit in the cache is a hit in the list.                                  *)
LEMMA HitImplements ==
  ASSUME IInv, BlocksOnce, NEW address \in 0 .. MaxAddress, NEW type \in AccessTypes,
         Hit(SetIndex(address), Tag(address), type)
  PROVE  Lru!Hit(BlockAddr(address) % SetsUsed, BlockAddr(address), type = "MEMWRITE")
<1>1. PICK s, tag, b : s = SetIndex(address) /\ tag = Tag(address) /\ b = BlockAddr(address)
  OBVIOUS
<1>2. /\ s \in 0 .. SetsUsed - 1 /\ s \in SetIndices /\ tag \in Nat /\ b \in Nat
      /\ b % SetsUsed = s /\ b = tag * SetsUsed + s
  BY <1>1, AddressParts DEF SetsUsed
<1>3. Hit(s, tag, type)
  BY <1>1
<1>4. PICK h \in Way : /\ blocks[s][h].valid /\ blocks[s][h].tag = tag
                       /\ Use(s, h, [tag |-> blocks[s][h].tag, valid |-> blocks[s][h].valid,
                                     dirty |-> blocks[s][h].dirty \/ type = "MEMWRITE"])
                       /\ hits' = hits + 1 /\ UNCHANGED <<misses, writebacks>>
  BY <1>2, <1>3, HitUses
<1>5. PICK block : /\ block = [tag |-> blocks[s][h].tag, valid |-> blocks[s][h].valid,
                               dirty |-> blocks[s][h].dirty \/ type = "MEMWRITE"]
                   /\ Use(s, h, block)
  BY <1>4
<1>6. /\ Lines(s)' = ListOf(blocks'[s], order'[s], s)
      /\ \A t \in SetIndices \ {s} : Lines(t)' = Lines(t)
      /\ blocks'[s][h] = block /\ block.valid /\ \A w \in Way \ {h} : blocks'[s][w] = blocks[s][w]
  BY <1>5, UseOnLists
<1>7. PICK p \in Way : order[s][p] = h /\ MovedToFront(order[s], p, order'[s])
  BY <1>5, UseOnLists
<1>8. Ways \in Nat \ {0} /\ Way = 0 .. Ways - 1
  BY CacheAssumption DEF Way
<1>9. PICK n \in 0 .. Ways :
        /\ ValidFirst(blocks[s], order[s], n)
        /\ Lines(s) = [i \in 1 .. n |-> [block |-> blocks[s][order[s][i - 1]].tag * SetsUsed + s,
                                         dirty |-> blocks[s][order[s][i - 1]].dirty]]
        /\ Lines(s) \in Seq(Entry) /\ Len(Lines(s)) = n
  BY <1>2, SetList
<1>10. p < n /\ p + 1 \in 1 .. n
  <2>1. p < n
    BY <1>4, <1>7, <1>9 DEF ValidFirst
  <2>. QED BY <1>8, <2>1
<1>11. PICK list \in Seq(Entry) : list = Lines(s)
  BY <1>9
<1>12. Len(list) = n /\ DOMAIN list = 1 .. n
  BY <1>9, <1>11
<1>13. list[p + 1].block = b /\ list[p + 1].dirty = blocks[s][h].dirty
  <2>1. (p + 1) - 1 = p
    BY <1>8
  <2>2. list[p + 1] = [block |-> blocks[s][order[s][p]].tag * SetsUsed + s,
                       dirty |-> blocks[s][order[s][p]].dirty]
    BY <1>9, <1>10, <1>11, <2>1
  <2>. QED BY <1>2, <1>4, <1>7, <2>2
<1>14. ASSUME NEW i \in 1 .. n, list[i].block = b PROVE i = p + 1
  <2>1. i - 1 \in Way /\ i - 1 < n
    BY <1>8, <1>14
  <2>2. list[i].block = blocks[s][order[s][i - 1]].tag * SetsUsed + s
    <3>1. list[i] = [block |-> blocks[s][order[s][i - 1]].tag * SetsUsed + s,
                     dirty |-> blocks[s][order[s][i - 1]].dirty]
      BY <1>9, <1>11
    <3>. QED BY <3>1
  <2>3. blocks[s][order[s][i - 1]].valid /\ blocks[s][order[s][p]].valid
    BY <1>4, <1>7, <1>9, <2>1 DEF ValidFirst
  <2>4. blocks[s][order[s][i - 1]].tag * SetsUsed + s = blocks[s][order[s][p]].tag * SetsUsed + s
    BY <1>2, <1>4, <1>7, <1>14, <2>2
  <2>5. i - 1 = p
    BY <1>2, <2>1, <2>3, <2>4, LineOfBlock
  <2>. QED BY <1>8, <2>5
<1>15. (CHOOSE i \in DOMAIN list : list[i].block = b) = p + 1
  BY <1>10, <1>12, <1>13, <1>14
<1>16. PICK entry : entry = [block |-> b, dirty |-> list[p + 1].dirty \/ type = "MEMWRITE"]
  OBVIOUS
<1>17. entry \in Entry
  BY <1>2, <1>16 DEF Entry
<1>18. MoveEntry(list, entry, p + 1)
         = [i \in 1 .. n |-> IF i = 1 THEN entry ELSE IF i <= p + 1 THEN list[i - 1] ELSE list[i]]
  <2>1. PICK old \in 1 .. Len(list) : old = p + 1
    BY <1>10, <1>12
  <2>2. MoveEntry(list, entry, old) = [i \in 1 .. Len(list) |->
            IF i = 1 THEN entry ELSE IF i <= old THEN list[i - 1] ELSE list[i]]
    BY <1>17, ToFront
  <2>. QED BY <1>12, <2>1, <2>2
<1>19. [block |-> block.tag * SetsUsed + s, dirty |-> block.dirty] = entry
  BY <1>2, <1>4, <1>5, <1>13, <1>16
<1>20. Lines(s)' = [i \in 1 .. n |-> IF i = 1 THEN entry ELSE IF i <= p + 1 THEN list[i - 1] ELSE list[i]]
  <2>1. /\ order[s] \in [Way -> Way] /\ EachOnce(order[s])
        /\ Lines(s) = ListOf(blocks[s], order[s], s)
    BY <1>2, SetList
  <2>2. PICK stack \in [Way -> Way] : stack = order[s]
    BY <2>1
  <2>3. PICK ways, new, stack2 : ways = blocks[s] /\ new = blocks'[s] /\ stack2 = order'[s]
    OBVIOUS
  <2>4. /\ EachOnce(stack) /\ MovedToFront(stack, p, stack2) /\ ValidFirst(ways, stack, n)
        /\ stack[p] = h /\ new[h] = block /\ new[stack[p]].valid
        /\ \A w \in Way \ {stack[p]} : new[w] = ways[w]
    BY <1>6, <1>7, <1>9, <2>1, <2>2, <2>3
  <2>5. ListOf(new, stack2, s) =
          [i \in 1 .. n |-> IF i = 1 THEN [block |-> new[stack[p]].tag * SetsUsed + s,
                                           dirty |-> new[stack[p]].dirty]
                            ELSE IF i <= p + 1 THEN ListOf(ways, stack, s)[i - 1]
                            ELSE ListOf(ways, stack, s)[i]]
    BY <1>10, <2>4, ValidWayMoves
  <2>6. new[stack[p]] = block /\ ListOf(ways, stack, s) = list /\ Lines(s)' = ListOf(new, stack2, s)
    BY <1>6, <1>11, <2>1, <2>2, <2>3, <2>4
  <2>. QED BY <1>19, <2>5, <2>6
<1>21. SetLists[s] = list /\ DOMAIN SetLists = 0 .. SetsUsed - 1
  BY <1>2, <1>11 DEF SetLists
<1>22. SetLists' = [SetLists EXCEPT ![s] = MoveEntry(list, entry, p + 1)]
  <2>1. \A t \in 0 .. SetsUsed - 1 : t # s => Lines(t)' = Lines(t)
    BY <1>6, SetsUsedAreThere
  <2>. QED BY <1>2, <1>18, <1>20, <2>1 DEF SetLists
<1>23. \E i \in DOMAIN list : list[i].block = b
  BY <1>10, <1>12, <1>13
<1>24. Lru!Hit(s, b, type = "MEMWRITE")
  BY <1>4, <1>15, <1>16, <1>21, <1>22, <1>23, LruHitIs
<1>. QED BY <1>1, <1>2, <1>24
LEMMA LruMissIs ==
  ASSUME NEW s, NEW b, NEW write
  PROVE  Lru!Miss(s, b, write) <=>
           LET full == Len(SetLists[s]) = Ways
               kept == IF full THEN SubSeq(SetLists[s], 1, Ways - 1) ELSE SetLists[s]
           IN /\ ~(\E i \in DOMAIN SetLists[s] : SetLists[s][i].block = b)
              /\ misses' = misses + 1
              /\ SetLists' = [SetLists EXCEPT ![s] = <<[block |-> b, dirty |-> write]>> \o kept]
              /\ writebacks' = IF full /\ SetLists[s][Ways].dirty THEN writebacks + 1 ELSE writebacks
              /\ UNCHANGED hits
BY DEF Lru!Miss, Lru!Cached, SetLists, SetsUsed

(* A miss in the cache is a miss in the list: the first invalid way is the   *)
(* end of the list, the least recently used of a full set its last.          *)
LEMMA MissImplements ==
  ASSUME IInv, TagsFit, NEW address \in 0 .. MaxAddress, NEW type \in AccessTypes,
         Miss(SetIndex(address), Tag(address), type)
  PROVE  Lru!Miss(BlockAddr(address) % SetsUsed, BlockAddr(address), type = "MEMWRITE")
<1>1. PICK s, tag, b : s = SetIndex(address) /\ tag = Tag(address) /\ b = BlockAddr(address)
  OBVIOUS
<1>2. /\ s \in 0 .. SetsUsed - 1 /\ s \in SetIndices /\ tag \in Nat /\ b \in Nat
      /\ b % SetsUsed = s /\ b = tag * SetsUsed + s /\ ToInt(tag) = tag
  BY <1>1, AddressParts, ToIntRange DEF SetsUsed, TagsFit
<1>3. Miss(s, tag, type)
  BY <1>1
<1>4. PICK h \in Way :
        /\ Matching(s, tag) = {}
        /\ IF Invalid(s) = {} THEN h = GetLru(order[s]) ELSE h \in Invalid(s)
        /\ Use(s, h, [tag |-> ToInt(tag), valid |-> TRUE, dirty |-> type = "MEMWRITE"])
        /\ misses' = misses + 1 /\ UNCHANGED hits
        /\ writebacks' = IF Invalid(s) = {} /\ blocks[s][h].dirty THEN writebacks + 1 ELSE writebacks
  BY <1>2, <1>3, MissUses
<1>5. PICK block : /\ block = [tag |-> tag, valid |-> TRUE, dirty |-> type = "MEMWRITE"]
                   /\ Use(s, h, block)
  BY <1>2, <1>4
<1>6. /\ Lines(s)' = ListOf(blocks'[s], order'[s], s)
      /\ \A t \in SetIndices \ {s} : Lines(t)' = Lines(t)
      /\ blocks'[s][h] = block /\ block.valid /\ \A w \in Way \ {h} : blocks'[s][w] = blocks[s][w]
  BY <1>5, UseOnLists
<1>7. PICK p \in Way : order[s][p] = h /\ MovedToFront(order[s], p, order'[s])
  BY <1>5, UseOnLists
<1>8. Ways \in Nat \ {0} /\ Way = 0 .. Ways - 1
  BY CacheAssumption DEF Way
<1>9. PICK n \in 0 .. Ways :
        /\ ValidFirst(blocks[s], order[s], n)
        /\ Lines(s) = [i \in 1 .. n |-> [block |-> blocks[s][order[s][i - 1]].tag * SetsUsed + s,
                                         dirty |-> blocks[s][order[s][i - 1]].dirty]]
        /\ Lines(s) \in Seq(Entry) /\ Len(Lines(s)) = n
  BY <1>2, SetList
<1>10. order[s] \in [Way -> Way] /\ EachOnce(order[s]) /\ Lines(s) = ListOf(blocks[s], order[s], s)
  BY <1>2, SetList
<1>11. PICK list \in Seq(Entry) : list = Lines(s)
  BY <1>9
<1>12. Len(list) = n /\ DOMAIN list = 1 .. n
  BY <1>9, <1>11
<1>13. ASSUME NEW i \in DOMAIN list, list[i].block = b PROVE FALSE
  <2>1. i \in 1 .. n /\ i - 1 \in Way /\ i - 1 < n
    BY <1>8, <1>12, <1>13
  <2>2. PICK w \in Way : w = order[s][i - 1]
    BY <1>10, <2>1
  <2>3. blocks[s][w].valid
    BY <1>9, <2>1, <2>2 DEF ValidFirst
  <2>4. list[i].block = blocks[s][w].tag * SetsUsed + s
    BY <1>9, <1>11, <2>1, <2>2
  <2>5. blocks[s][w].tag \in Int
    <3>1. blocks[s][w] \in CacheBlock
      BY <1>2 DEF IInv, TypeOK
    <3>. QED BY <3>1, CacheAssumption DEF CacheBlock
  <2>6. blocks[s][w].tag = tag
    <3>1. PICK a \in Int : a = blocks[s][w].tag
      BY <2>5
    <3>2. a * SetsUsed + s = tag * SetsUsed + s
      BY <1>2, <1>13, <2>4, <3>1
    <3>3. s \in Int /\ tag \in Int /\ SetsUsed \in Nat \ {0}
      BY <1>2, SetsUsedAreThere
    <3>4. a = tag
      BY <3>2, <3>3, SameTag
    <3>. QED BY <3>1, <3>4
  <2>. QED BY <1>4, <2>3, <2>6 DEF Matching
<1>14. Invalid(s) = {} <=> n = Ways
  <2>1. ASSUME Invalid(s) = {} PROVE n = Ways
    <3>1. \A w \in Way : blocks[s][w].valid
      BY <2>1 DEF Invalid
    <3>2. \A i \in Way : i < n
      BY <1>9, <1>10, <3>1 DEF ValidFirst
    <3>3. n \in Nat /\ n <= Ways /\ (n < Ways => n \in Way)
      BY <1>8
    <3>. QED BY <1>8, <3>2, <3>3
  <2>2. ASSUME n = Ways, NEW w \in Invalid(s) PROVE FALSE
    <3>1. w \in Way /\ ~blocks[s][w].valid
      BY <2>2 DEF Invalid
    <3>2. PICK i \in Way : order[s][i] = w
      BY <1>2, <3>1 DEF IInv, StackOrdersWays
    <3>3. i < n
      BY <1>8, <2>2
    <3>. QED BY <1>9, <3>1, <3>2, <3>3 DEF ValidFirst
  <2>. QED BY <2>1, <2>2
<1>15. PICK kept : kept = IF n = Ways THEN Ways - 1 ELSE n
  OBVIOUS
<1>16. p >= kept /\ (n = Ways => p = Ways - 1)
  <2>1. CASE n = Ways
    <3>1. h = order[s][Ways - 1] /\ Ways - 1 \in Way
      BY <1>4, <1>8, <1>14, <2>1 DEF GetLru
    <3>2. p = Ways - 1
      BY <1>7, <1>10, <3>1 DEF EachOnce
    <3>. QED BY <1>8, <1>15, <2>1, <3>2
  <2>2. CASE n # Ways
    <3>1. ~blocks[s][h].valid
      BY <1>4, <1>14, <2>2 DEF Invalid
    <3>2. ~(p < n)
      BY <1>7, <1>9, <3>1 DEF ValidFirst
    <3>. QED BY <1>8, <1>15, <2>2, <3>2
  <2>. QED BY <2>1, <2>2
<1>17. PICK entry \in Entry : entry = [block |-> b, dirty |-> type = "MEMWRITE"]
  <2>1. [block |-> b, dirty |-> type = "MEMWRITE"] \in Entry
    BY <1>2 DEF Entry
  <2>. QED BY <2>1
<1>18. [block |-> block.tag * SetsUsed + s, dirty |-> block.dirty] = entry
  BY <1>2, <1>5, <1>17
<1>19. Lines(s)' = [i \in 1 .. kept + 1 |-> IF i = 1 THEN entry ELSE list[i - 1]]
  <2>1. PICK stack \in [Way -> Way] : stack = order[s]
    BY <1>10
  <2>2. PICK ways, new, stack2 : ways = blocks[s] /\ new = blocks'[s] /\ stack2 = order'[s]
    OBVIOUS
  <2>3. /\ EachOnce(stack) /\ MovedToFront(stack, p, stack2) /\ ValidFirst(ways, stack, n)
        /\ stack[p] = h /\ new[h] = block /\ new[stack[p]].valid
        /\ \A w \in Way \ {stack[p]} : new[w] = ways[w]
    BY <1>6, <1>7, <1>9, <1>10, <2>1, <2>2
  <2>4. ListOf(new, stack2, s) =
          [i \in 1 .. kept + 1 |-> IF i = 1 THEN [block |-> new[stack[p]].tag * SetsUsed + s,
                                                  dirty |-> new[stack[p]].dirty]
                                   ELSE ListOf(ways, stack, s)[i - 1]]
    BY <1>15, <1>16, <2>3, NewBlockEnters
  <2>5. new[stack[p]] = block /\ ListOf(ways, stack, s) = list /\ Lines(s)' = ListOf(new, stack2, s)
    BY <1>6, <1>10, <1>11, <2>1, <2>2, <2>3
  <2>. QED BY <1>18, <2>4, <2>5
<1>20. Lines(s)' = <<entry>> \o (IF Len(list) = Ways THEN SubSeq(list, 1, Ways - 1) ELSE list)
  <2>1. CASE n = Ways
    <3>1. \A i \in 1 .. Ways - 1 : list[i] \in Entry
      BY <1>8, <1>12, <2>1, ElementOfSeq
    <3>2. PICK front : front = SubSeq(list, 1, Ways - 1)
      OBVIOUS
    <3>3. /\ front \in Seq(Entry)
          /\ Len(front) = IF 1 <= Ways - 1 THEN (Ways - 1) - 1 + 1 ELSE 0
          /\ \A i \in 1 .. (Ways - 1) - 1 + 1 : front[i] = list[1 + i - 1]
      BY <1>8, <3>1, <3>2, SubSeqProperties
    <3>4. Len(front) = kept /\ \A i \in 1 .. kept : front[i] = list[i]
      BY <1>8, <1>15, <2>1, <3>3
    <3>5. <<entry>> \o front = [i \in 1 .. kept + 1 |-> IF i = 1 THEN entry ELSE front[i - 1]]
      BY <3>3, <3>4, InFront
    <3>6. \A i \in 1 .. kept + 1 : i # 1 => i - 1 \in 1 .. kept
      BY <1>8, <1>15, <2>1
    <3>7. Lines(s)' = <<entry>> \o front
      BY <1>19, <3>4, <3>5, <3>6
    <3>. QED BY <1>12, <2>1, <3>2, <3>7
  <2>2. CASE n # Ways
    <3>1. <<entry>> \o list = [i \in 1 .. n + 1 |-> IF i = 1 THEN entry ELSE list[i - 1]]
      BY <1>12, InFront
    <3>. QED BY <1>12, <1>15, <1>19, <2>2, <3>1
  <2>. QED BY <2>1, <2>2
<1>21. SetLists[s] = list /\ DOMAIN SetLists = 0 .. SetsUsed - 1
  BY <1>2, <1>11 DEF SetLists
<1>22. SetLists' = [SetLists EXCEPT ![s] = Lines(s)']
  <2>1. \A t \in 0 .. SetsUsed - 1 : t # s => Lines(t)' = Lines(t)
    BY <1>6, SetsUsedAreThere
  <2>. QED BY <1>2, <2>1 DEF SetLists
<1>23. n = Ways => list[Ways].dirty = blocks[s][h].dirty
  <2>1. n = Ways => Ways \in 1 .. n /\ h = order[s][Ways - 1]
    BY <1>7, <1>8, <1>16
  <2>. QED BY <1>9, <1>11, <2>1
<1>24. writebacks' = IF Len(list) = Ways /\ list[Ways].dirty THEN writebacks + 1 ELSE writebacks
  <2>1. CASE n = Ways
    BY <1>4, <1>12, <1>14, <1>23, <2>1
  <2>2. CASE n # Ways
    BY <1>4, <1>12, <1>14, <2>2
  <2>. QED BY <2>1, <2>2
<1>25. Lru!Miss(s, b, type = "MEMWRITE")
  BY <1>4, <1>13, <1>17, <1>20, <1>21, <1>22, <1>24, LruMissIs
<1>. QED BY <1>1, <1>2, <1>25
(* A block enters a set only if it is not there.                             *)
LEMMA UseKeepsBlocks ==
  ASSUME IInv, BlocksOnce, NEW s, NEW h, NEW block, Use(s, h, block),
         \A w \in Way \ {h} : ~(blocks[s][w].valid /\ blocks[s][w].tag = block.tag)
  PROVE  BlocksOnce'
<1>1. /\ \A t \in SetIndices \ {s} : blocks'[t] = blocks[t]
      /\ blocks'[s][h] = block /\ \A w \in Way \ {h} : blocks'[s][w] = blocks[s][w]
  BY UseEffect
<1>2. s \in SetIndices /\ h \in Way
  BY DEF Use
<1>3. ASSUME NEW t \in SetIndices, NEW v \in Way, NEW w \in Way,
             blocks'[t][v].valid, blocks'[t][w].valid, blocks'[t][v].tag = blocks'[t][w].tag
      PROVE  v = w
  <2>1. CASE t # s
    <3>1. blocks'[t] = blocks[t]
      BY <1>1, <2>1
    <3>. QED BY <1>3, <3>1 DEF BlocksOnce
  <2>2. CASE t = s /\ v # h /\ w # h
    <3>1. blocks'[t][v] = blocks[s][v] /\ blocks'[t][w] = blocks[s][w]
      BY <1>1, <2>2
    <3>. QED BY <1>2, <1>3, <3>1 DEF BlocksOnce
  <2>3. CASE t = s /\ v = h /\ w # h
    <3>1. blocks'[t][v] = block /\ blocks'[t][w] = blocks[s][w]
      BY <1>1, <2>3
    <3>. QED BY <1>3, <2>3, <3>1
  <2>4. CASE t = s /\ v # h /\ w = h
    <3>1. blocks'[t][w] = block /\ blocks'[t][v] = blocks[s][v]
      BY <1>1, <2>4
    <3>. QED BY <1>3, <2>4, <3>1
  <2>. QED BY <2>1, <2>2, <2>3, <2>4
<1>. QED BY <1>3 DEF BlocksOnce

LEMMA NextBlocksOnce ==
  ASSUME TagsFit, IInv, BlocksOnce, [Next]_vars
  PROVE  BlocksOnce'
<1>1. CASE UNCHANGED vars
  BY <1>1 DEF vars, BlocksOnce
<1>2. CASE Next
  <2>1. PICK address \in 0 .. MaxAddress, type \in AccessTypes : Access(address, type)
    BY <1>2 DEF Next
  <2>2. PICK s \in SetIndices, tag \in Nat : s = SetIndex(address) /\ tag = Tag(address)
    BY AddressParts
  <2>3. ToInt(tag) = tag
    BY <2>2, ToIntRange DEF TagsFit
  <2>4. CASE Hit(s, tag, type)
    <3>1. PICK h \in Way : /\ blocks[s][h].valid /\ blocks[s][h].tag = tag
                           /\ Use(s, h, [tag |-> blocks[s][h].tag, valid |-> blocks[s][h].valid,
                                         dirty |-> blocks[s][h].dirty \/ type = "MEMWRITE"])
      BY <2>4, HitUses
    <3>2. \A w \in Way \ {h} : ~(blocks[s][w].valid /\ blocks[s][w].tag = blocks[s][h].tag)
      BY <3>1 DEF BlocksOnce
    <3>3. PICK block : /\ block.tag = blocks[s][h].tag
                       /\ Use(s, h, block)
      BY <3>1
    <3>. QED BY <3>2, <3>3, UseKeepsBlocks
  <2>5. CASE Miss(s, tag, type)
    <3>1. PICK h \in Way :
            /\ Matching(s, tag) = {}
            /\ Use(s, h, [tag |-> ToInt(tag), valid |-> TRUE, dirty |-> type = "MEMWRITE"])
      BY <2>5, MissUses
    <3>2. \A w \in Way : ~(blocks[s][w].valid /\ blocks[s][w].tag = tag)
      BY <3>1 DEF Matching
    <3>3. PICK block : block.tag = tag /\ Use(s, h, block)
      BY <2>3, <3>1
    <3>. QED BY <3>2, <3>3, UseKeepsBlocks
  <2>. QED BY <2>1, <2>2, <2>4, <2>5 DEF Access
<1>. QED BY <1>1, <1>2

LEMMA InitBlocksOnce == Init => BlocksOnce
<1>. SUFFICES ASSUME Init PROVE BlocksOnce
  OBVIOUS
<1>1. \A s \in SetIndices, w \in Way : ~blocks[s][w].valid
  BY DEF Init
<1>. QED BY <1>1 DEF BlocksOnce

LEMMA InitImplements == Init => Lru!Init
<1>. SUFFICES ASSUME Init PROVE Lru!Init
  OBVIOUS
<1>1. ASSUME NEW s \in 0 .. SetsUsed - 1 PROVE Lines(s) = <<>>
  <2>1. s \in SetIndices /\ IInv
    BY InitIInv, SetsUsedAreThere
  <2>2. PICK n \in 0 .. Ways :
          /\ ValidFirst(blocks[s], order[s], n)
          /\ Lines(s) \in Seq(Entry) /\ Len(Lines(s)) = n
    BY <2>1, SetList
  <2>3. n = 0
    <3>1. Ways \in Nat \ {0} /\ 0 \in Way
      BY CacheAssumption DEF Way
    <3>2. order[s][0] \in Way
      BY <2>1, <3>1 DEF IInv, TypeOK
    <3>3. ~blocks[s][order[s][0]].valid
      BY <2>1, <3>2 DEF Init
    <3>4. ~(0 < n)
      BY <2>2, <3>1, <3>3 DEF ValidFirst
    <3>. QED BY <3>1, <3>4
  <2>. QED BY <2>2, <2>3, EmptySeq
<1>. QED BY <1>1 DEF Init, Lru!Init, SetsUsed

LEMMA NextImplements ==
  ASSUME TagsFit, IInv, BlocksOnce, [Next]_vars
  PROVE  [Lru!Next]_(Lru!vars)
<1>1. CASE UNCHANGED vars
  <2>1. \A s : Lines(s)' = Lines(s)
    BY <1>1 DEF vars, Lines
  <2>. QED BY <1>1, <2>1 DEF vars, Lru!vars
<1>2. CASE Next
  <2>1. PICK address \in 0 .. MaxAddress, type \in AccessTypes : Access(address, type)
    BY <1>2 DEF Next
  <2>2. \/ Lru!Hit(BlockAddr(address) % SetsUsed, BlockAddr(address), type = "MEMWRITE")
        \/ Lru!Miss(BlockAddr(address) % SetsUsed, BlockAddr(address), type = "MEMWRITE")
    BY <2>1, HitImplements, MissImplements DEF Access
  <2>3. accesses' = accesses + 1 /\ request' = [address |-> address, type |-> type]
    BY <2>1 DEF Access
  <2>4. Lru!Access(address, type)
    BY <2>2, <2>3 DEF Lru!Access, SetsUsed, BlockAddr
  <2>5. Lru!Next
    BY <2>4 DEF Lru!Next
  <2>. QED BY <2>5
<1>. QED BY <1>1, <1>2

(* The cache of cachesim.c is a set-associative one with least-recently-used *)
(* replacement: the access of the trace hits, misses or writes back as it    *)
(* does with lists of blocks by recency, as long as the tags of the trace    *)
(* fit an int.                                                               *)
THEOREM CacheImplementsLru == TagsFit => (Spec => ImplementsLru)
<1>. SUFFICES ASSUME TagsFit PROVE Spec => Lru!Spec
  BY DEF ImplementsLru
<1>1. Init => BlocksOnce /\ Lru!Init
  BY InitBlocksOnce, InitImplements
<1>2. IInv /\ BlocksOnce /\ [Next]_vars => BlocksOnce'
  BY NextBlocksOnce
<1>3. IInv /\ BlocksOnce /\ [Next]_vars => [Lru!Next]_(Lru!vars)
  BY NextImplements
<1>. QED BY <1>1, <1>2, <1>3, Invariance, PTL DEF Spec, Lru!Spec
=============================================================================

------------------------------ MODULE SwapProofs ------------------------------
(***************************************************************************)
(* Proofs about PagingSwap: the linked list of swap.c holds the swap       *)
(* entries, for the traces that PagingProofs is about.                     *)
(*                                                                         *)
(* Tokens are given out in ascending order and a new node is appended, so  *)
(* the list ascends: each node is followed by the next larger token that   *)
(* is still there, whatever was freed in between.                          *)
(***************************************************************************)
EXTENDS PagingSwap, PagingProofs, FiniteSetTheorems

(* t is what follows node n in the ascending list of the tokens D; the head *)
(* follows 0.                                                               *)
Follows(D, n, t) ==
  IF t = Null THEN \A d \in D : d <= n
  ELSE t \in D /\ n < t /\ \A d \in D : n < d => t <= d

IsLast(D, t) == IF t = Null THEN D = {} ELSE t \in D /\ \A d \in D : d <= t

Ascending(q) ==
  LET D == DOMAIN q.next
  IN /\ D \subseteq Nat \ {0} /\ IsFiniteSet(D)
     /\ Follows(D, 0, q.head)
     /\ \A n \in D : Follows(D, n, q.next[n])
     /\ IsLast(D, q.tail)
     /\ q.size = Cardinality(D)

SwapInv == Ascending(queue) /\ DOMAIN queue.next = DOMAIN swapQueue

-----------------------------------------------------------------------------
(***************************************************************************)
(* Numbers.                                                                *)
(***************************************************************************)
LEMMA LeastNumber ==
  ASSUME NEW S \in SUBSET Nat, S # {}
  PROVE \E n \in S : \A m \in S : n <= m
<1> DEFINE Less == {ss \in Nat \X Nat : ss[1] < ss[2]}
<1>1. IsWellFoundedOn(Less, Nat)
  BY NatLessThanWellFounded DEF OpToRel
<1>2. PICK n \in S : \A m \in S : ~(<<m, n>> \in Less)
  <2> HIDE DEF Less
  <2> QED BY <1>1, WFMin, Zenon
<1>3. \A m \in S : ~(m < n)
  BY <1>2
<1> QED BY <1>2, <1>3

LEMMA GreatestBelow ==
  ASSUME NEW S \in SUBSET Nat, S # {}, NEW t \in Nat, \A s \in S : s < t
  PROVE \E n \in S : \A m \in S : m <= n
<1> DEFINE Bounds == {b \in Nat : \A s \in S : s <= b}
<1>1. t \in Bounds
  OBVIOUS
<1>2. PICK b \in Bounds : \A c \in Bounds : b <= c
  <2> HIDE DEF Bounds
  <2> QED BY <1>1, LeastNumber DEF Bounds
<1>3. b \in S
  <2> SUFFICES ASSUME b \notin S PROVE FALSE
    OBVIOUS
  <2>1. \A s \in S : s < b
    BY <1>2
  <2>2. PICK s \in S : s < b
    BY <2>1
  <2>3. b - 1 \in Nat /\ \A m \in S : m <= b - 1
    BY <2>1, <2>2
  <2>4. b - 1 \in Bounds
    BY <2>3
  <2> QED BY <1>2, <2>4
<1> QED BY <1>2, <1>3

-----------------------------------------------------------------------------
(***************************************************************************)
(* The operations on the list.                                             *)
(***************************************************************************)

(* Ascending, element by element.                                           *)
LEMMA AscendingIs ==
  ASSUME NEW q, NEW D, D = DOMAIN q.next
  PROVE Ascending(q) <=>
          /\ IsFiniteSet(D) /\ q.size = Cardinality(D)
          /\ \A d \in D : d \in Nat /\ 0 < d
          /\ q.head = 0 => D = {}
          /\ q.head # 0 => q.head \in D /\ \A d \in D : q.head <= d
          /\ \A n \in D : q.next[n] = 0 => \A d \in D : d <= n
          /\ \A n \in D : q.next[n] # 0 =>
               q.next[n] \in D /\ n < q.next[n] /\ \A d \in D : n < d => q.next[n] <= d
          /\ q.tail = 0 => D = {}
          /\ q.tail # 0 => q.tail \in D /\ \A d \in D : d <= q.tail
<1>1. D \subseteq Nat \ {0} <=> \A d \in D : d \in Nat /\ 0 < d
  OBVIOUS
<1>2. ASSUME \A d \in D : d \in Nat /\ 0 < d
      PROVE Follows(D, 0, q.head) <=>
              /\ q.head = 0 => D = {}
              /\ q.head # 0 => q.head \in D /\ \A d \in D : q.head <= d
  <2>1. CASE q.head = 0
    BY <1>2, <2>1 DEF Follows, Null, NoSwap
  <2>2. CASE q.head # 0
    BY <1>2, <2>2 DEF Follows, Null, NoSwap
  <2> QED BY <2>1, <2>2
<1>3. \A n \in D : Follows(D, n, q.next[n]) <=>
         /\ q.next[n] = 0 => \A d \in D : d <= n
         /\ q.next[n] # 0 =>
              q.next[n] \in D /\ n < q.next[n] /\ \A d \in D : n < d => q.next[n] <= d
  BY DEF Follows, Null, NoSwap
<1>4. IsLast(D, q.tail) <=> /\ q.tail = 0 => D = {}
                            /\ q.tail # 0 => q.tail \in D /\ \A d \in D : d <= q.tail
  BY DEF IsLast, Null, NoSwap
<1> QED BY <1>1, <1>2, <1>3, <1>4 DEF Ascending

LEMMA EnqueueAscends ==
  ASSUME NEW q, Ascending(q), NEW t \in Nat \ {0}, \A d \in DOMAIN q.next : d < t
  PROVE Ascending(Enqueue(q, t)) /\ DOMAIN Enqueue(q, t).next = DOMAIN q.next \cup {t}
<1> DEFINE D == DOMAIN q.next
           r == Enqueue(q, t)
<1>1. /\ IsFiniteSet(D) /\ q.size = Cardinality(D)
      /\ \A d \in D : d \in Nat /\ 0 < d /\ d < t
      /\ q.head = 0 => D = {}
      /\ q.head # 0 => q.head \in D /\ \A d \in D : q.head <= d
      /\ \A n \in D : q.next[n] = 0 => \A d \in D : d <= n
      /\ \A n \in D : q.next[n] # 0 =>
           q.next[n] \in D /\ n < q.next[n] /\ \A d \in D : n < d => q.next[n] <= d
      /\ q.tail = 0 => D = {}
      /\ q.tail # 0 => q.tail \in D /\ \A d \in D : d <= q.tail
  BY AscendingIs
<1>2. /\ DOMAIN r.next = D \cup {t}
      /\ r.head = IF q.head = 0 THEN t ELSE q.head
      /\ r.tail = t /\ r.size = q.size + 1
      /\ r.next[t] = 0
      /\ \A n \in D : n # t => r.next[n] = IF n = q.tail THEN t ELSE q.next[n]
  BY DEF Enqueue, Null, NoSwap
<1> HIDE DEF D, r
<1>3. t \notin D
  BY <1>1
<1>4. IsFiniteSet(D \cup {t}) /\ r.size = Cardinality(D \cup {t})
  BY <1>1, <1>2, <1>3, FS_AddElement
<1>5. r.head # 0 /\ r.head \in D \cup {t} /\ \A d \in D \cup {t} : r.head <= d
  <2>1. CASE q.head = 0
    BY <1>1, <1>2, <2>1
  <2>2. CASE q.head # 0
    BY <1>1, <1>2, <2>2
  <2> QED BY <2>1, <2>2
<1>6. ASSUME NEW n \in D \cup {t}
      PROVE /\ r.next[n] = 0 => \A d \in D \cup {t} : d <= n
            /\ r.next[n] # 0 => /\ r.next[n] \in D \cup {t} /\ n < r.next[n]
                                /\ \A d \in D \cup {t} : n < d => r.next[n] <= d
  <2>1. CASE n = t
    BY <1>1, <1>2, <2>1
  <2>2. CASE n # t /\ n = q.tail
    <3>1. n \in D /\ r.next[n] = t /\ \A d \in D : d <= n
      BY <1>1, <1>2, <1>6, <2>2
    <3> QED BY <1>1, <3>1
  <2>3. CASE n # t /\ n # q.tail
    <3>1. n \in D /\ r.next[n] = q.next[n]
      BY <1>2, <1>6, <2>3
    <3>2. q.tail \in D /\ q.tail # 0 /\ ~(q.tail <= n)
      BY <1>1, <2>3, <3>1
    <3>3. q.next[n] # 0
      BY <1>1, <3>1, <3>2
    <3> QED BY <1>1, <3>1, <3>3
  <2> QED BY <2>1, <2>2, <2>3
<1>7. r.tail \in D \cup {t} /\ \A d \in D \cup {t} : d <= r.tail
  BY <1>1, <1>2
<1>8. \A d \in D \cup {t} : d \in Nat /\ 0 < d
  BY <1>1
<1>9. PICK E : E = D \cup {t}
  OBVIOUS
<1>10. Ascending(r)
  <2>1. E = DOMAIN r.next
    BY <1>2, <1>9
  <2> QED BY <1>2, <1>4, <1>5, <1>6, <1>7, <1>8, <1>9, <2>1, AscendingIs
<1> QED BY <1>2, <1>10 DEF D, r

(* The node before t, if t is not the head.                                 *)
LEMMA Predecessor ==
  ASSUME NEW q, Ascending(q), NEW t \in DOMAIN q.next, q.head # t
  PROVE \E n \in DOMAIN q.next : q.next[n] = t
<1> DEFINE D == DOMAIN q.next
           Before == {n \in D : n < t}
<1>1. /\ \A d \in D : d \in Nat /\ 0 < d
      /\ q.head = 0 => D = {}
      /\ q.head # 0 => q.head \in D /\ \A d \in D : q.head <= d
      /\ \A n \in D : q.next[n] = 0 => \A d \in D : d <= n
      /\ \A n \in D : q.next[n] # 0 =>
           q.next[n] \in D /\ n < q.next[n] /\ \A d \in D : n < d => q.next[n] <= d
      /\ t \in D
  BY AscendingIs
<1> HIDE DEF D
<1>2. q.head \in Before
  <2>1. q.head \in D /\ q.head <= t
    BY <1>1
  <2> QED BY <1>1, <2>1
<1>3. PICK n \in Before : \A m \in Before : m <= n
  <2>1. Before \in SUBSET Nat /\ Before # {} /\ t \in Nat /\ \A s \in Before : s < t
    BY <1>1, <1>2
  <2> HIDE DEF Before
  <2> QED BY <2>1, GreatestBelow
<1>4. n \in D /\ n < t /\ \A m \in D : m < t => m <= n
  BY <1>3
<1>5. q.next[n] # 0
  BY <1>1, <1>4
<1>6. q.next[n] \in D /\ n < q.next[n] /\ q.next[n] <= t
  BY <1>1, <1>4, <1>5
<1>7. ~(q.next[n] < t)
  BY <1>1, <1>4, <1>6
<1>8. q.next[n] = t
  BY <1>1, <1>6, <1>7
<1> QED BY <1>4, <1>8 DEF D

LEMMA DequeueAscends ==
  ASSUME NEW q, Ascending(q), NEW t \in DOMAIN q.next
  PROVE Ascending(Dequeue(q, t)) /\ DOMAIN Dequeue(q, t).next = DOMAIN q.next \ {t}
<1> DEFINE D == DOMAIN q.next
           r == Dequeue(q, t)
           prev == IF q.head = t THEN Null ELSE CHOOSE n \in D : q.next[n] = t
<1>1. /\ IsFiniteSet(D) /\ q.size = Cardinality(D)
      /\ \A d \in D : d \in Nat /\ 0 < d
      /\ q.head = 0 => D = {}
      /\ q.head # 0 => q.head \in D /\ \A d \in D : q.head <= d
      /\ \A n \in D : q.next[n] = 0 => \A d \in D : d <= n
      /\ \A n \in D : q.next[n] # 0 =>
           q.next[n] \in D /\ n < q.next[n] /\ \A d \in D : n < d => q.next[n] <= d
      /\ q.tail = 0 => D = {}
      /\ q.tail # 0 => q.tail \in D /\ \A d \in D : d <= q.tail
      /\ t \in D
  BY AscendingIs
<1>2. q.head # t => prev \in D /\ q.next[prev] = t
  BY Predecessor
<1>3. q.head = t => prev = 0
  BY DEF Null, NoSwap
<1>4. /\ DOMAIN r.next = D \ {t}
      /\ r.head = IF q.head = t THEN q.next[t] ELSE q.head
      /\ r.tail = (IF q.tail = t THEN prev ELSE q.tail) /\ r.size = q.size - 1
      /\ \A n \in D \ {t} : r.next[n] = IF n = prev THEN q.next[t] ELSE q.next[n]
  BY DEF Dequeue, LinksWithout
<1> HIDE DEF D, r, prev
(* Nothing lies between prev and t, nor before t if it is the head.         *)
<1>5. prev \in Nat /\ prev < t /\ \A d \in D : prev < d => t <= d
  <2>1. CASE q.head = t
    BY <1>1, <1>3, <2>1
  <2>2. CASE q.head # t
    BY <1>1, <1>2, <2>2
  <2> QED BY <2>1, <2>2
<1>6. \A d \in D \ {t} : d <= prev \/ t < d
  BY <1>1, <1>5
<1>7. \A n \in D : q.next[n] = t => n = prev
  <2> SUFFICES ASSUME NEW n \in D, q.next[n] = t PROVE n = prev
    OBVIOUS
  <2>1. n < t /\ \A d \in D : n < d => t <= d
    BY <1>1
  <2>2. q.head # t
    BY <1>1, <2>1
  <2>3. ~(n < prev) /\ ~(prev < n)
    BY <1>1, <1>2, <1>5, <2>1, <2>2
  <2> QED BY <1>1, <1>5, <2>3
<1>8. /\ q.next[t] = 0 => \A d \in D \ {t} : d <= prev
      /\ q.next[t] # 0 => /\ q.next[t] \in D \ {t} /\ prev < q.next[t]
                          /\ \A d \in D \ {t} : prev < d => q.next[t] <= d
  BY <1>1, <1>5, <1>6
<1>9. IsFiniteSet(D \ {t}) /\ r.size = Cardinality(D \ {t})
  BY <1>1, <1>4, FS_RemoveElement
<1>10. /\ r.head = 0 => D \ {t} = {}
       /\ r.head # 0 => r.head \in D \ {t} /\ \A d \in D \ {t} : r.head <= d
  <2>1. CASE q.head = t
    <3>1. prev = 0 /\ r.head = q.next[t]
      BY <1>3, <1>4, <2>1
    <3> QED BY <1>1, <1>8, <3>1
  <2>2. CASE q.head # t
    BY <1>1, <1>4, <2>2
  <2> QED BY <2>1, <2>2
<1>11. ASSUME NEW n \in D \ {t}
       PROVE /\ r.next[n] = 0 => \A d \in D \ {t} : d <= n
             /\ r.next[n] # 0 => /\ r.next[n] \in D \ {t} /\ n < r.next[n]
                                 /\ \A d \in D \ {t} : n < d => r.next[n] <= d
  <2>1. CASE n = prev
    BY <1>4, <1>8, <2>1
  <2>2. CASE n # prev
    <3>1. r.next[n] = q.next[n] /\ q.next[n] # t
      BY <1>4, <1>7, <2>2
    <3> QED BY <1>1, <3>1
  <2> QED BY <2>1, <2>2
<1>12. /\ r.tail = 0 => D \ {t} = {}
       /\ r.tail # 0 => r.tail \in D \ {t} /\ \A d \in D \ {t} : d <= r.tail
  <2>1. CASE q.tail = t
    <3>1. r.tail = prev /\ \A d \in D \ {t} : d <= prev
      BY <1>1, <1>4, <1>6, <2>1
    <3>2. prev = 0 \/ prev \in D \ {t}
      BY <1>2, <1>3, <1>5
    <3>3. prev = 0 => D \ {t} = {}
      BY <1>1, <3>1
    <3> QED BY <3>1, <3>2, <3>3
  <2>2. CASE q.tail # t
    BY <1>1, <1>4, <2>2
  <2> QED BY <2>1, <2>2
<1>13. PICK E : E = D \ {t}
  OBVIOUS
<1>14. Ascending(r)
  <2>1. E = DOMAIN r.next /\ \A d \in E : d \in Nat /\ 0 < d
    BY <1>1, <1>4, <1>13
  <2> QED BY <1>4, <1>9, <1>10, <1>11, <1>12, <1>13, <2>1, AscendingIs
<1> QED BY <1>4, <1>14 DEF D, r
-----------------------------------------------------------------------------
(***************************************************************************)
(* The cleanup of a process.                                               *)
(***************************************************************************)

(* The lists after each page of the table e, starting with q.               *)
FreesPages(f, q, e, n) ==
  f = [v \in 0 .. n |-> IF v = 0 THEN q ELSE SwapFree(f[v - 1], e[v - 1].swap)]

(* There are such lists, so this is what the recursive definition is.       *)
LEMMA FreedListsExist ==
  ASSUME NEW q, NEW e, NEW n \in Nat
  PROVE \E f : FreesPages(f, q, e, n)
<1> DEFINE Bad == {m \in Nat : ~\E f : FreesPages(f, q, e, m)}
<1> SUFFICES ASSUME Bad # {} PROVE FALSE
  OBVIOUS
<1>1. PICK m \in Bad : \A k \in Bad : m <= k
  <2>1. Bad \in SUBSET Nat
    OBVIOUS
  <2> HIDE DEF Bad
  <2> QED BY <2>1, LeastNumber
<1>2. m \in Nat /\ ~\E f : FreesPages(f, q, e, m)
  BY <1>1
<1>3. CASE m = 0
  <2> DEFINE f == [v \in 0 .. m |-> q]
  <2>1. f = [v \in 0 .. m |-> IF v = 0 THEN q ELSE SwapFree(f[v - 1], e[v - 1].swap)]
    BY <1>3
  <2> HIDE DEF f
  <2>2. FreesPages(f, q, e, m)
    BY <2>1 DEF FreesPages
  <2> QED BY <1>2, <2>2
<1>4. CASE m # 0
  <2>1. m - 1 \in Nat /\ ~(m <= m - 1)
    BY <1>2, <1>4
  <2>2. PICK g : FreesPages(g, q, e, m - 1)
    BY <1>1, <2>1
  <2>3. \A v \in 0 .. m - 1 : g[v] = IF v = 0 THEN q ELSE SwapFree(g[v - 1], e[v - 1].swap)
    BY <2>2 DEF FreesPages
  <2> DEFINE f == [v \in 0 .. m |-> IF v < m THEN g[v] ELSE SwapFree(g[v - 1], e[v - 1].swap)]
  <2>4. \A v \in 0 .. m - 1 : f[v] = g[v]
    BY <1>2
  <2>5. \A v \in 0 .. m :
          (IF v < m THEN g[v] ELSE SwapFree(g[v - 1], e[v - 1].swap))
            = IF v = 0 THEN q ELSE SwapFree(f[v - 1], e[v - 1].swap)
    <3> SUFFICES ASSUME NEW v \in 0 .. m
                 PROVE (IF v < m THEN g[v] ELSE SwapFree(g[v - 1], e[v - 1].swap))
                         = IF v = 0 THEN q ELSE SwapFree(f[v - 1], e[v - 1].swap)
      OBVIOUS
    <3> HIDE DEF f
    <3>1. CASE v = 0
      BY <1>2, <1>4, <2>3, <3>1
    <3>2. CASE v # 0
      <4>1. v - 1 \in 0 .. m - 1 /\ v \in Nat
        BY <1>2, <3>2
      <4>2. f[v - 1] = g[v - 1]
        BY <2>4, <4>1
      <4>3. v < m => v \in 0 .. m - 1
        BY <1>2, <4>1
      <4> QED BY <2>3, <3>2, <4>2, <4>3
    <3> QED BY <3>1, <3>2
  <2>6. f = [v \in 0 .. m |-> IF v = 0 THEN q ELSE SwapFree(f[v - 1], e[v - 1].swap)]
    <3> DEFINE h == [v \in 0 .. m |-> IF v = 0 THEN q ELSE SwapFree(f[v - 1], e[v - 1].swap)]
    <3>1. \A v \in 0 .. m : f[v] = h[v]
      BY <2>5
    <3>2. DOMAIN f = 0 .. m /\ DOMAIN h = 0 .. m
      OBVIOUS
    <3>3. f = [v \in 0 .. m |-> f[v]] /\ h = [v \in 0 .. m |-> h[v]]
      OBVIOUS
    <3> HIDE DEF f, h
    <3>4. f = h
      BY <3>1, <3>3
    <3> QED BY <3>4 DEF h
  <2> HIDE DEF f
  <2>7. FreesPages(f, q, e, m)
    BY <2>6 DEF FreesPages
  <2> QED BY <1>2, <2>7
<1> QED BY <1>3, <1>4

LEMMA CleanupLists ==
  ASSUME NEW p
  PROVE \E f : FreesPages(f, queue, table[savedPtbr[p]], NumPages) /\ Cleanup(p) = f[NumPages]
<1> DEFINE g == CHOOSE f : f = [v \in 0 .. NumPages |->
                  IF v = 0 THEN queue ELSE SwapFree(f[v - 1], table[savedPtbr[p]][v - 1].swap)]
<1>1. PICK q, e : q = queue /\ e = table[savedPtbr[p]]
  OBVIOUS
<1>2. NumPages \in Nat
  BY PagingAssumption
<1>3. \E f : f = [v \in 0 .. NumPages |-> IF v = 0 THEN q ELSE SwapFree(f[v - 1], e[v - 1].swap)]
  <2>1. PICK f : FreesPages(f, q, e, NumPages)
    BY <1>2, FreedListsExist
  <2>2. f = [v \in 0 .. NumPages |-> IF v = 0 THEN q ELSE SwapFree(f[v - 1], e[v - 1].swap)]
    BY <2>1, Zenon DEF FreesPages
  <2> QED BY <2>2, Zenon
<1>4. g = [v \in 0 .. NumPages |->
            IF v = 0 THEN queue ELSE SwapFree(g[v - 1], table[savedPtbr[p]][v - 1].swap)]
  BY <1>1, <1>3
<1>5. Cleanup(p) = g[NumPages]
  BY DEF Cleanup
<1> HIDE DEF g
<1> QED BY <1>4, <1>5 DEF FreesPages

(* Entries of pages are freed one by one, each of them once.                *)
LEMMA FreedAscends ==
  ASSUME NEW q, Ascending(q), NEW e \in [Page -> Pte],
         \A v \in Page : e[v].swap \in DOMAIN q.next \cup {NoSwap},
         \A v, w \in Page : e[v].swap = e[w].swap /\ e[v].swap # NoSwap => v = w,
         NEW f, FreesPages(f, q, e, NumPages)
  PROVE /\ Ascending(f[NumPages])
        /\ DOMAIN f[NumPages].next = DOMAIN q.next \ {e[v].swap : v \in Page}
<1> DEFINE Ok(k) == /\ Ascending(f[k])
                    /\ DOMAIN f[k].next = DOMAIN q.next \ {e[v].swap : v \in 0 .. k - 1}
           Bad == {k \in 0 .. NumPages : ~Ok(k)}
<1>1. NumPages \in Nat
  BY PagingAssumption
<1>2. \A v \in 0 .. NumPages : f[v] = IF v = 0 THEN q ELSE SwapFree(f[v - 1], e[v - 1].swap)
  BY DEF FreesPages
<1>3. 0 \notin DOMAIN q.next
  BY DEF Ascending
<1>4. Bad = {}
  <2> SUFFICES ASSUME Bad # {} PROVE FALSE
    OBVIOUS
  <2>1. PICK k \in Bad : \A j \in Bad : k <= j
    <3>1. Bad \in SUBSET Nat
      BY <1>1
    <3> HIDE DEF Bad
    <3> QED BY <3>1, LeastNumber
  <2>2. k \in 0 .. NumPages /\ ~Ok(k)
    BY <2>1
  <2>3. CASE k = 0
    <3>1. f[k] = q /\ {e[v].swap : v \in 0 .. k - 1} = {}
      BY <1>1, <1>2, <2>2, <2>3
    <3> QED BY <2>2, <3>1
  <2>4. CASE k # 0
    <3>1. k - 1 \in 0 .. NumPages /\ k - 1 \in Page /\ ~(k <= k - 1)
      BY <1>1, <2>2, <2>4 DEF Page
    <3>2. Ok(k - 1)
      BY <2>1, <3>1
    <3>3. PICK j, t, l : j = k - 1 /\ t = e[j].swap /\ l = f[j]
      OBVIOUS
    <3>4. /\ Ascending(l) /\ DOMAIN l.next = DOMAIN q.next \ {e[v].swap : v \in 0 .. j - 1}
          /\ j \in Page /\ f[k] = SwapFree(l, t)
      BY <1>2, <2>2, <2>4, <3>1, <3>2, <3>3
    <3>5. {e[v].swap : v \in 0 .. k - 1} = {e[v].swap : v \in 0 .. j - 1} \cup {t}
      <4>1. 0 .. k - 1 = (0 .. j - 1) \cup {j}
        BY <1>1, <2>2, <2>4, <3>3
      <4> QED BY <3>3, <4>1
    <3>6. CASE t = NoSwap
      <4>1. f[k] = l
        BY <3>4, <3>6 DEF SwapFree
      <4> QED BY <1>3, <2>2, <3>4, <3>5, <3>6, <4>1 DEF NoSwap
    <3>7. CASE t # NoSwap
      <4>1. t \notin {e[v].swap : v \in 0 .. j - 1}
        <5> SUFFICES ASSUME NEW v \in 0 .. j - 1, t = e[v].swap PROVE FALSE
          OBVIOUS
        <5>1. v \in Page /\ v # j
          BY <1>1, <3>4 DEF Page
        <5> QED BY <3>3, <3>4, <3>7, <5>1
      <4>2. t \in DOMAIN l.next
        BY <3>3, <3>4, <3>7, <4>1
      <4>3. f[k] = Dequeue(l, t)
        BY <3>4, <3>7 DEF SwapFree
      <4>4. Ascending(f[k]) /\ DOMAIN f[k].next = DOMAIN l.next \ {t}
        BY <3>4, <4>2, <4>3, DequeueAscends
      <4> QED BY <2>2, <3>4, <3>5, <4>4
    <3> QED BY <3>6, <3>7
  <2> QED BY <2>3, <2>4
<1>5. Ok(NumPages)
  BY <1>1, <1>4
<1> QED BY <1>5 DEF Page

-----------------------------------------------------------------------------
(***************************************************************************)
(* The steps.                                                              *)
(***************************************************************************)
LEMMA InitSwapInv == SwapInit => SwapInv
<1> SUFFICES ASSUME SwapInit PROVE SwapInv
  OBVIOUS
<1>1. DOMAIN queue.next = {} /\ DOMAIN swapQueue = {}
  BY DEF SwapInit, Init, EmptyQueue
<1>2. queue.head = 0 /\ queue.tail = 0 /\ queue.size = 0
  BY DEF SwapInit, EmptyQueue, Null, NoSwap
<1>3. IsFiniteSet({}) /\ Cardinality({}) = 0
  BY FS_EmptySet
<1>4. PICK D : D = DOMAIN queue.next
  OBVIOUS
<1>5. Ascending(queue)
  BY <1>1, <1>2, <1>3, <1>4, AscendingIs
<1> QED BY <1>1, <1>5 DEF SwapInv

(* START and a page fault: a new token means a new node.                    *)
LEMMA FreeFrameAscends ==
  ASSUME IInv, SwapInv, NEW f \in Frame, FreeFrame(f), running \subseteq running', SwapStep
  PROVE SwapInv'
<1>1. token \in Nat \ {0} /\ DOMAIN queue.next = DOMAIN swapQueue /\ Ascending(queue)
  BY PagingAssumption DEF IInv, TypeOK, SwapInv
<1>2. CASE NeedsToken(f)
  <2>1. token' = token + 1 /\ queue' = Enqueue(queue, token)
    BY <1>1, <1>2 DEF FreeFrame, FreedToken, SwapStep
  <2>2. DOMAIN swapQueue' = DOMAIN swapQueue \cup {token}
    BY <1>2 DEF FreeFrame, FreedSwap, SwapToken, NeedsToken
  <2>3. \A d \in DOMAIN queue.next : d < token
    BY <1>1 DEF IInv, TokensGiven
  <2>4. Ascending(Enqueue(queue, token))
          /\ DOMAIN Enqueue(queue, token).next = DOMAIN queue.next \cup {token}
    BY <1>1, <2>3, EnqueueAscends
  <2> QED BY <1>1, <2>1, <2>2, <2>4 DEF SwapInv, Ascending
<1>3. CASE ~NeedsToken(f)
  <2>1. token' = token /\ queue' = queue
    BY <1>3 DEF FreeFrame, FreedToken, SwapStep
  <2>2. WritesBack(f) => SwapToken(f) \in DOMAIN swapQueue
    <3> SUFFICES ASSUME WritesBack(f) PROVE VictimPte(f).swap \in DOMAIN swapQueue
      BY <1>3 DEF SwapToken
    <3>1. frameTable[f].mapped /\ VictimPte(f).swap # NoSwap
      BY <1>3 DEF NeedsToken, WritesBack
    <3>2. PICK p \in running, v \in Page : VictimPte(f) = Entry(p, v)
      BY <3>1, VictimEntry
    <3> QED BY <3>1, <3>2 DEF IInv, SwapExists, Entry
  <2>3. DOMAIN swapQueue' = DOMAIN swapQueue
    <3>1. CASE WritesBack(f)
      <4>1. DOMAIN swapQueue' = DOMAIN swapQueue \cup {SwapToken(f)}
        BY <3>1 DEF FreeFrame, FreedSwap
      <4> QED BY <2>2, <3>1, <4>1
    <3>2. CASE ~WritesBack(f)
      BY <3>2 DEF FreeFrame, FreedSwap
    <3> QED BY <3>1, <3>2
  <2> QED BY <1>1, <2>1, <2>3 DEF SwapInv, Ascending
<1> QED BY <1>2, <1>3

(* STOP frees the entries of the process's pages, and no other process has  *)
(* any of them.                                                             *)
LEMMA StopAscends ==
  ASSUME IInv, SwapInv, NEW p \in Pid, Stop(p), SwapStep
  PROVE SwapInv'
<1>1. /\ p \in running /\ running' = running \ {p} /\ token' = token
      /\ DOMAIN swapQueue' = DOMAIN swapQueue \ {table[savedPtbr[p]][v].swap : v \in Page}
  BY DEF Stop
<1>2. queue' = Cleanup(p)
  <2>1. (CHOOSE q \in running : q \notin running') = p
    BY <1>1
  <2> QED BY <1>1, <2>1 DEF SwapStep
<1>3. PICK e, q : e = table[savedPtbr[p]] /\ q = queue
  OBVIOUS
<1>4. e \in [Page -> Pte]
  BY <1>1, <1>3 DEF IInv, TypeOK
<1>5. Ascending(q) /\ DOMAIN q.next = DOMAIN swapQueue
  BY <1>3 DEF SwapInv
<1>6. \A v \in Page : e[v].swap \in DOMAIN q.next \cup {NoSwap}
  BY <1>1, <1>3, <1>5 DEF IInv, SwapExists
<1>7. \A v, w \in Page : e[v].swap = e[w].swap /\ e[v].swap # NoSwap => v = w
  BY <1>1, <1>3 DEF IInv, SwapOwned
<1>8. PICK f : FreesPages(f, q, e, NumPages) /\ Cleanup(p) = f[NumPages]
  BY <1>3, CleanupLists
<1>9. Ascending(f[NumPages])
        /\ DOMAIN f[NumPages].next = DOMAIN q.next \ {e[v].swap : v \in Page}
  BY <1>4, <1>5, <1>6, <1>7, <1>8, FreedAscends
<1>10. queue' = f[NumPages]
  BY <1>2, <1>8
<1>11. Ascending(queue') /\ DOMAIN queue'.next = DOMAIN swapQueue'
  BY <1>1, <1>3, <1>5, <1>9, <1>10
<1> QED BY <1>11 DEF SwapInv, Ascending

LEMMA NextSwapInv == IInv /\ SwapInv /\ [SwapNext]_swapVars => SwapInv'
<1> SUFFICES ASSUME IInv, SwapInv, [SwapNext]_swapVars PROVE SwapInv'
  OBVIOUS
<1>1. ASSUME queue' = queue, swapQueue' = swapQueue PROVE SwapInv'
  BY <1>1 DEF SwapInv, Ascending
<1>2. CASE UNCHANGED swapVars
  BY <1>1, <1>2 DEF swapVars, vars
<1>3. ASSUME SwapStep, NEW p \in Pid, Start(p) PROVE SwapInv'
  <2>1. PICK f \in Victims : FreeFrame(f)
    BY <1>3 DEF Start
  <2>2. f \in Frame /\ running \subseteq running'
    BY <1>3, VictimsAre DEF Start, Unprotected
  <2> QED BY <1>3, <2>1, <2>2, FreeFrameAscends
<1>4. ASSUME SwapStep, NEW p \in Pid, Stop(p) PROVE SwapInv'
  BY <1>4, StopAscends
<1>5. ASSUME SwapStep, NEW p \in Pid, NEW a \in TraceAddress, NEW rw, NEW byte,
             Access(p, a, rw, byte)
      PROVE SwapInv'
  <2>1. running' = running
    BY <1>5 DEF Access
  <2>2. CASE Hit(p, a, rw, byte)
    <3>1. token' = token /\ swapQueue' = swapQueue
      BY <2>2 DEF Hit
    <3> QED BY <1>1, <1>5, <2>1, <3>1 DEF SwapStep
  <2>3. CASE Fault(p, a, rw, byte)
    <3>1. PICK f \in Victims : FreeFrame(f)
      BY <2>3 DEF Fault
    <3>2. f \in Frame /\ running \subseteq running'
      BY <2>1, VictimsAre DEF Unprotected
    <3> QED BY <1>5, <3>1, <3>2, FreeFrameAscends
  <2> QED BY <1>5, <2>2, <2>3 DEF Access
<1>6. ASSUME SwapStep, OutOfMemory PROVE SwapInv'
  <2>1. token' = token /\ running' = running /\ swapQueue' = swapQueue
    BY <1>6 DEF OutOfMemory
  <2> QED BY <1>1, <1>6, <2>1 DEF SwapStep
<1>7. CASE SwapNext
  BY <1>3, <1>4, <1>5, <1>6, <1>7 DEF SwapNext, Next, Read, Write
<1> QED BY <1>2, <1>7

-----------------------------------------------------------------------------
(***************************************************************************)
(* Walking over the list.                                                  *)
(***************************************************************************)

(* How many tokens come before d.                                           *)
Before(D, d) == {e \in D : e < d}
Rank(D, d) == Cardinality(Before(D, d))

LEMMA RankIs ==
  ASSUME NEW D, IsFiniteSet(D), \A d \in D : d \in Nat
  PROVE /\ Cardinality(D) \in Nat
        /\ \A d \in D : Rank(D, d) \in Nat /\ Rank(D, d) < Cardinality(D)
        /\ \A d, e \in D : d < e => Rank(D, d) < Rank(D, e)
<1>1. Cardinality(D) \in Nat
  BY FS_CardinalityType
<1>2. \A d \in D : Before(D, d) \in SUBSET D /\ d \notin Before(D, d)
  BY DEF Before
<1>3. \A d \in D : IsFiniteSet(Before(D, d)) /\ Rank(D, d) \in Nat
  BY <1>2, FS_Subset, FS_CardinalityType DEF Rank
<1>4. ASSUME NEW d \in D PROVE Rank(D, d) < Cardinality(D)
  <2>1. Rank(D, d) <= Cardinality(D) /\ (Cardinality(D) = Rank(D, d) => D = Before(D, d))
    BY <1>2, FS_Subset DEF Rank
  <2> QED BY <1>1, <1>2, <1>3, <2>1
<1>5. ASSUME NEW d \in D, NEW e \in D, d < e PROVE Rank(D, d) < Rank(D, e)
  <2>1. Before(D, d) \in SUBSET Before(D, e) /\ d \in Before(D, e)
    BY <1>5 DEF Before
  <2>2. /\ Rank(D, d) <= Rank(D, e)
        /\ Rank(D, e) = Rank(D, d) => Before(D, e) = Before(D, d)
    BY <1>3, <2>1, FS_Subset DEF Rank
  <2> QED BY <1>2, <1>3, <2>1, <2>2
<1> QED BY <1>1, <1>3, <1>4, <1>5

LEMMA FirstRank ==
  ASSUME NEW D, NEW t, \A d \in D : d \in Nat /\ t \in Nat /\ t <= d
  PROVE Rank(D, t) = 0
<1>1. Before(D, t) = {}
  BY DEF Before
<1> QED BY <1>1, FS_EmptySet DEF Rank

LEMMA LastRank ==
  ASSUME NEW D, IsFiniteSet(D), NEW t \in D, \A d \in D : d \in Nat /\ d <= t
  PROVE Rank(D, t) = Cardinality(D) - 1
<1>1. Before(D, t) = D \ {t}
  BY DEF Before
<1> QED BY <1>1, FS_RemoveElement DEF Rank

LEMMA NextRank ==
  ASSUME NEW D, IsFiniteSet(D), \A d \in D : d \in Nat,
         NEW n \in D, NEW t \in D, n < t, \A d \in D : n < d => t <= d
  PROVE Rank(D, t) = Rank(D, n) + 1
<1>1. Before(D, t) = Before(D, n) \cup {n}
  BY DEF Before
<1>2. n \notin Before(D, n) /\ Before(D, n) \in SUBSET D
  BY DEF Before
<1>3. IsFiniteSet(Before(D, n))
  BY <1>2, FS_Subset
<1> QED BY <1>1, <1>2, <1>3, FS_AddElement DEF Rank

(* The nodes of a walk over n nodes and what follows them.                  *)
WalksOver(w, q, n) ==
  w = [k \in 1 .. n + 1 |-> IF k = 1 THEN q.head
                            ELSE IF w[k - 1] \in DOMAIN q.next THEN q.next[w[k - 1]] ELSE Null]

LEMMA WalksExist ==
  ASSUME NEW q, NEW n \in Nat
  PROVE \E w : WalksOver(w, q, n)
<1> DEFINE Bad == {m \in Nat : ~\E w : WalksOver(w, q, m)}
           After(t) == IF t \in DOMAIN q.next THEN q.next[t] ELSE Null
<1> HIDE DEF After
<1>0. \A w, m : WalksOver(w, q, m)
                  <=> w = [k \in 1 .. m + 1 |-> IF k = 1 THEN q.head ELSE After(w[k - 1])]
  BY Zenon DEF After, WalksOver
<1> SUFFICES ASSUME Bad # {} PROVE FALSE
  OBVIOUS
<1>1. PICK m \in Bad : \A k \in Bad : m <= k
  <2>1. Bad \in SUBSET Nat
    OBVIOUS
  <2> HIDE DEF Bad
  <2> QED BY <2>1, LeastNumber
<1>2. m \in Nat /\ ~\E w : WalksOver(w, q, m)
  BY <1>1
<1>3. CASE m = 0
  <2> DEFINE w == [k \in 1 .. m + 1 |-> q.head]
  <2>1. w = [k \in 1 .. m + 1 |-> IF k = 1 THEN q.head ELSE After(w[k - 1])]
    BY <1>3
  <2> HIDE DEF w
  <2> QED BY <1>0, <1>2, <2>1
<1>4. CASE m # 0
  <2>1. m - 1 \in Nat /\ ~(m <= m - 1) /\ (m - 1) + 1 = m
    BY <1>2, <1>4
  <2>2. PICK g : WalksOver(g, q, m - 1)
    BY <1>1, <2>1
  <2>3. \A k \in 1 .. m : g[k] = IF k = 1 THEN q.head ELSE After(g[k - 1])
    BY <1>0, <2>1, <2>2
  <2> DEFINE w == [k \in 1 .. m + 1 |-> IF k <= m THEN g[k] ELSE After(g[k - 1])]
             h == [k \in 1 .. m + 1 |-> IF k = 1 THEN q.head ELSE After(w[k - 1])]
  <2>4. \A k \in 1 .. m : w[k] = g[k]
    BY <1>2
  <2>5. ASSUME NEW k \in 1 .. m + 1 PROVE w[k] = h[k]
    <3>1. w[k] = (IF k <= m THEN g[k] ELSE After(g[k - 1]))
            /\ h[k] = IF k = 1 THEN q.head ELSE After(w[k - 1])
      OBVIOUS
    <3> HIDE DEF w, h
    <3>2. CASE k = 1
      BY <1>2, <1>4, <2>3, <3>1, <3>2
    <3>3. CASE k # 1
      <4>1. k \in Nat /\ k - 1 \in 1 .. m /\ (k <= m => k \in 1 .. m)
        BY <1>2, <3>3
      <4>2. w[k - 1] = g[k - 1]
        BY <2>4, <4>1
      <4> QED BY <2>3, <3>1, <3>3, <4>1, <4>2
    <3> QED BY <3>2, <3>3
  <2>6. w = [k \in 1 .. m + 1 |-> w[k]] /\ h = [k \in 1 .. m + 1 |-> h[k]]
    OBVIOUS
  <2>7. h = [k \in 1 .. m + 1 |-> IF k = 1 THEN q.head ELSE After(w[k - 1])]
    OBVIOUS
  <2> HIDE DEF w, h
  <2>8. w = h
    BY <2>5, <2>6
  <2>9. WalksOver(w, q, m)
    BY <1>0, <2>7, <2>8
  <2> QED BY <1>2, <2>9
<1> QED BY <1>3, <1>4

LEMMA NodesWalkOver ==
  ASSUME NEW q, NEW n \in Nat
  PROVE WalksOver(Nodes(q, n), q, n)
<1> DEFINE g == CHOOSE w : w = [k \in 1 .. n + 1 |-> IF k = 1 THEN q.head
                  ELSE IF w[k - 1] \in DOMAIN q.next THEN q.next[w[k - 1]] ELSE Null]
<1>1. \E w : w = [k \in 1 .. n + 1 |-> IF k = 1 THEN q.head
                  ELSE IF w[k - 1] \in DOMAIN q.next THEN q.next[w[k - 1]] ELSE Null]
  <2>1. PICK w : WalksOver(w, q, n)
    BY WalksExist
  <2>2. w = [k \in 1 .. n + 1 |-> IF k = 1 THEN q.head
                  ELSE IF w[k - 1] \in DOMAIN q.next THEN q.next[w[k - 1]] ELSE Null]
    BY <2>1, Zenon DEF WalksOver
  <2> QED BY <2>2, Zenon
<1>2. WalksOver(g, q, n)
  <2>1. g = [k \in 1 .. n + 1 |-> IF k = 1 THEN q.head
                  ELSE IF g[k - 1] \in DOMAIN q.next THEN q.next[g[k - 1]] ELSE Null]
    BY <1>1, Zenon
  <2> HIDE DEF g
  <2> QED BY <2>1, Zenon DEF WalksOver
<1>3. Nodes(q, n) = g
  BY Zenon DEF Nodes
<1> HIDE DEF g
<1> QED BY <1>2, <1>3

(* The k-th node is the k-th token.                                         *)
LEMMA NodesAre ==
  ASSUME NEW q, Ascending(q), NEW D, D = DOMAIN q.next,
         NEW n \in Nat, n = Cardinality(D),
         NEW w, WalksOver(w, q, n)
  PROVE \A k \in 1 .. n : w[k] \in D /\ Rank(D, w[k]) = k - 1
<1>1. /\ IsFiniteSet(D) /\ \A d \in D : d \in Nat /\ 0 < d
      /\ q.head = 0 => D = {}
      /\ q.head # 0 => q.head \in D /\ \A d \in D : q.head <= d
      /\ \A t \in D : q.next[t] = 0 => \A d \in D : d <= t
      /\ \A t \in D : q.next[t] # 0 =>
           q.next[t] \in D /\ t < q.next[t] /\ \A d \in D : t < d => q.next[t] <= d
  BY AscendingIs
<1>2. \A k \in 1 .. n + 1 :
        w[k] = IF k = 1 THEN q.head ELSE IF w[k - 1] \in D THEN q.next[w[k - 1]] ELSE 0
  BY DEF WalksOver, Null, NoSwap
<1> DEFINE Ok(k) == w[k] \in D /\ Rank(D, w[k]) = k - 1
           Bad == {k \in 1 .. n : ~Ok(k)}
<1> SUFFICES ASSUME Bad # {} PROVE FALSE
  OBVIOUS
<1>3. PICK k \in Bad : \A j \in Bad : k <= j
  <2>1. Bad \in SUBSET Nat
    OBVIOUS
  <2> HIDE DEF Bad
  <2> QED BY <2>1, LeastNumber
<1>4. k \in 1 .. n /\ ~Ok(k)
  BY <1>3
<1>5. CASE k = 1
  <2>1. w[k] = q.head
    BY <1>2, <1>4, <1>5
  <2>2. q.head # 0
    BY <1>1, <1>4, <1>5, FS_EmptySet
  <2>3. Rank(D, q.head) = 0
    BY <1>1, <2>2, FirstRank
  <2> QED BY <1>1, <1>4, <1>5, <2>1, <2>2, <2>3
<1>6. CASE k # 1
  <2>1. k \in Nat /\ k - 1 \in 1 .. n /\ ~(k <= k - 1)
    BY <1>4, <1>6
  <2>2. Ok(k - 1)
    BY <1>3, <2>1
  <2>3. PICK t : t = w[k - 1]
    OBVIOUS
  <2>4. t \in D /\ Rank(D, t) = k - 2 /\ w[k] = q.next[t]
    BY <1>2, <1>4, <1>6, <2>1, <2>2, <2>3
  <2>5. q.next[t] # 0
    <3> SUFFICES ASSUME q.next[t] = 0 PROVE FALSE
      OBVIOUS
    <3>1. Rank(D, t) = n - 1
      BY <1>1, <2>4, LastRank
    <3> QED BY <1>4, <2>1, <2>4, <3>1
  <2>6. PICK u : u = q.next[t]
    OBVIOUS
  <2>7. u \in D /\ t < u /\ \A d \in D : t < d => u <= d
    BY <1>1, <2>4, <2>5, <2>6
  <2>8. Rank(D, u) = k - 1
    BY <1>1, <2>1, <2>4, <2>7, NextRank
  <2> QED BY <1>4, <2>4, <2>6, <2>7, <2>8
<1> QED BY <1>5, <1>6

(* SwapListIntact, for a list q of n nodes that w walks over.               *)
Intact(q, D, n, w) ==
  /\ {w[k] : k \in 1 .. n} = D
  /\ w[n + 1] = Null
  /\ q.tail = IF n = 0 THEN Null ELSE w[n]
  /\ q.size = n

LEMMA AscendingIsIntact ==
  ASSUME NEW q, Ascending(q), NEW D, D = DOMAIN q.next,
         NEW n, n = Cardinality(D), NEW w, w = Nodes(q, n)
  PROVE Intact(q, D, n, w)
<1>1. /\ IsFiniteSet(D) /\ q.size = Cardinality(D)
      /\ \A d \in D : d \in Nat /\ 0 < d
      /\ q.head = 0 => D = {}
      /\ q.head # 0 => q.head \in D /\ \A d \in D : q.head <= d
      /\ \A t \in D : q.next[t] # 0 =>
           q.next[t] \in D /\ t < q.next[t] /\ \A d \in D : t < d => q.next[t] <= d
      /\ q.tail = 0 => D = {}
      /\ q.tail # 0 => q.tail \in D /\ \A d \in D : d <= q.tail
  BY AscendingIs
<1>2. n \in Nat /\ (n = 0 <=> D = {})
  BY <1>1, FS_CardinalityType, FS_EmptySet
<1>3. WalksOver(w, q, n)
  BY <1>2, NodesWalkOver
<1>4. \A k \in 1 .. n : w[k] \in D /\ Rank(D, w[k]) = k - 1
  BY <1>2, <1>3, NodesAre
<1>5. /\ \A d \in D : Rank(D, d) \in Nat /\ Rank(D, d) < n
      /\ \A d, e \in D : d < e => Rank(D, d) < Rank(D, e)
  BY <1>1, RankIs
<1>6. \A d, e \in D : Rank(D, d) = Rank(D, e) => d = e
  BY <1>1, <1>5
<1>7. ASSUME NEW d \in D PROVE Rank(D, d) + 1 \in 1 .. n /\ w[Rank(D, d) + 1] = d
  <2>1. Rank(D, d) + 1 \in 1 .. n /\ (Rank(D, d) + 1) - 1 = Rank(D, d)
    BY <1>2, <1>5
  <2> QED BY <1>4, <1>6, <2>1
<1>8. {w[k] : k \in 1 .. n} = D
  BY <1>4, <1>7
<1>9. w[n + 1] = IF n = 0 THEN q.head ELSE IF w[n] \in D THEN q.next[w[n]] ELSE 0
  BY <1>2, <1>3 DEF WalksOver, Null, NoSwap
<1>10. w[n + 1] = 0
  <2>1. CASE n = 0
    BY <1>1, <1>2, <1>9, <2>1
  <2>2. CASE n # 0
    <3>1. n \in 1 .. n
      BY <1>2, <2>2
    <3>2. PICK t : t = w[n]
      OBVIOUS
    <3>3. t \in D /\ Rank(D, t) = n - 1 /\ w[n + 1] = q.next[t]
      BY <1>4, <1>9, <2>2, <3>1, <3>2
    <3> SUFFICES ASSUME q.next[t] # 0 PROVE FALSE
      BY <3>3
    <3>4. PICK u : u = q.next[t]
      OBVIOUS
    <3>5. u \in D /\ t < u /\ \A d \in D : t < d => u <= d
      BY <1>1, <3>3, <3>4
    <3>6. Rank(D, u) = Rank(D, t) + 1
      BY <1>1, <3>3, <3>5, NextRank
    <3> QED BY <1>2, <1>5, <3>3, <3>5, <3>6
  <2> QED BY <2>1, <2>2
<1>11. q.tail = IF n = 0 THEN 0 ELSE w[n]
  <2>1. CASE n = 0
    BY <1>1, <1>2, <2>1
  <2>2. CASE n # 0
    <3>1. q.tail \in D /\ \A d \in D : d \in Nat /\ d <= q.tail
      BY <1>1, <1>2, <2>2
    <3>2. Rank(D, q.tail) = n - 1
      BY <1>1, <3>1, LastRank
    <3>3. n \in 1 .. n
      BY <1>2, <2>2
    <3> QED BY <1>4, <1>6, <2>2, <3>1, <3>2, <3>3
  <2> QED BY <2>1, <2>2
<1> QED BY <1>1, <1>8, <1>10, <1>11 DEF Intact, Null, NoSwap

-----------------------------------------------------------------------------
LEMMA InvariantIsIntact == IInv /\ SwapInv => SwapListIntact
<1> SUFFICES ASSUME IInv, SwapInv PROVE SwapListIntact
  OBVIOUS
<1>1. PICK q, D, n, w :
        q = queue /\ D = DOMAIN q.next /\ n = Cardinality(D) /\ w = Nodes(q, n)
  OBVIOUS
<1>2. D = DOMAIN swapQueue /\ Ascending(q)
  BY <1>1 DEF SwapInv
<1>3. Intact(q, D, n, w)
  BY <1>1, <1>2, AscendingIsIntact
<1>4. running = {} => queue.size = 0
  <2> SUFFICES ASSUME running = {} PROVE n = 0
    BY <1>1, <1>3 DEF Intact
  <2>1. D = {}
    BY <1>2 DEF IInv, SwapOwned
  <2> QED BY <1>1, <2>1, FS_EmptySet
<1>5. Intact(queue, DOMAIN swapQueue, Cardinality(DOMAIN swapQueue),
             Nodes(queue, Cardinality(DOMAIN swapQueue)))
  BY <1>1, <1>2, <1>3
<1> QED BY <1>4, <1>5, Zenon DEF SwapListIntact, Intact

(* swap_queue holds the swap entries in use, each once, its tail is the     *)
(* last node and its size their number, after whatever processes have       *)
(* swapped and stopped in between (swap_write(), swap_free()).              *)
THEOREM SwapListIsIntact == ASSUME ~RestartCurrent PROVE SwapSpec => []SwapListIntact
<1>1. SwapInit => Init
  BY DEF SwapInit
<1>2. [SwapNext]_swapVars => [Next]_vars
  BY DEF SwapNext, swapVars
<1>3. Spec => []IInv
  BY InvariantHolds
<1> QED BY <1>1, <1>2, <1>3, InitSwapInv, NextSwapInv, InvariantIsIntact, PTL DEF SwapSpec, Spec
=============================================================================

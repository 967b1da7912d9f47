------------------------------ MODULE PagingSwap ------------------------------
(***************************************************************************)
(* Paging with its swap space as swap.c keeps it: a singly linked list     *)
(* with a head, a tail and a size.  The nodes are named by their tokens;   *)
(* their page contents stay in swapQueue.  size_max, which only the final  *)
(* statistics print, is left out.                                          *)
(***************************************************************************)
EXTENDS Paging

VARIABLE queue  \* swap_queue

swapVars == <<vars, queue>>

Null == NoSwap  \* the NULL pointer: no node has token 0

EmptyQueue == [head |-> Null, tail |-> Null, next |-> [t \in {} |-> Null], size |-> 0]

(* swap_queue_enqueue() of a new node.                                      *)
Enqueue(q, t) ==
  [head |-> IF q.head = Null THEN t ELSE q.head,
   tail |-> t,
   next |-> [n \in DOMAIN q.next \cup {t} |->
               CASE n = t -> Null [] n # t /\ n = q.tail -> t [] OTHER -> q.next[n]],
   size |-> q.size + 1]

(* Variant, for mutation: the list ends where the node was.                 *)
LinksWithoutRest(q, t, prev) ==
  [n \in DOMAIN q.next \ {t} |-> IF n = prev THEN Null ELSE q.next[n]]

LinksWithout(q, t, prev) ==
  [n \in DOMAIN q.next \ {t} |-> IF n = prev THEN q.next[t] ELSE q.next[n]]

(* swap_queue_dequeue() of node t, which is in the list.                    *)
Dequeue(q, t) ==
  LET prev == IF q.head = t THEN Null ELSE CHOOSE n \in DOMAIN q.next : q.next[n] = t
  IN [head |-> IF q.head = t THEN q.next[t] ELSE q.head,
      tail |-> IF q.tail = t THEN prev ELSE q.tail,
      next |-> LinksWithout(q, t, prev),
      size |-> q.size - 1]

(* swap_free(), for a page that has a swap entry.                           *)
SwapFree(q, t) == IF t = NoSwap THEN q ELSE Dequeue(q, t)

(* The cleanup of process p frees the swap entries of its pages, in order.  *)
Cleanup(p) ==
  LET freed[v \in 0 .. NumPages] ==
        IF v = 0 THEN queue ELSE SwapFree(freed[v - 1], table[savedPtbr[p]][v - 1].swap)
  IN freed[NumPages]

(* swap_write() appends a node for each new token; a process that stops is  *)
(* cleaned up.                                                              *)
SwapStep ==
  queue' = CASE token' # token -> Enqueue(queue, token)
             [] running \subseteq running' /\ token' = token -> queue
             [] OTHER -> Cleanup(CHOOSE p \in running : p \notin running')

SwapInit == Init /\ queue = EmptyQueue

SwapNext == Next /\ SwapStep

SwapSpec == SwapInit /\ [][SwapNext]_swapVars

-----------------------------------------------------------------------------
(* The first n nodes that swap_queue_find() walks over, and what follows    *)
(* them.                                                                    *)
Nodes(q, n) ==
  LET node[k \in 1 .. n + 1] ==
        IF k = 1 THEN q.head
        ELSE IF node[k - 1] \in DOMAIN q.next THEN q.next[node[k - 1]] ELSE Null
  IN node

(* The list holds exactly the swap entries that page table entries refer    *)
(* to, each once; the tail is its last node, where the next one goes, and   *)
(* size counts it, so that "Swap Not Freed" is printed for leaks only.  It  *)
(* takes entries freed out of order -- a process that stops while another   *)
(* has swapped before and after it -- to break the links.                   *)
SwapListIntact ==
  LET count == Cardinality(DOMAIN swapQueue)
      node == Nodes(queue, count)
  IN /\ {node[k] : k \in 1 .. count} = DOMAIN swapQueue
     /\ node[count + 1] = Null
     /\ queue.tail = IF count = 0 THEN Null ELSE node[count]
     /\ queue.size = count
     /\ running = {} => queue.size = 0
=============================================================================

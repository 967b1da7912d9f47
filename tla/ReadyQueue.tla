------------------------------ MODULE ReadyQueue ------------------------------
(***************************************************************************)
(* The scheduler with its ready queue as scheduler.c                       *)
(* (os_scheduler_simulator/src) stores it: a singly linked list threaded   *)
(* through the next fields of the process control blocks, with a head and  *)
(* a tail pointer.  Scheduler.tla takes the queue for a sequence; here the *)
(* list runs beside it, driven by the calls that the handlers make.        *)
(***************************************************************************)
EXTENDS Scheduler

VARIABLES head,    \* ready_head
          tail,    \* ready_tail
          next     \* next[p]: p->next

list == <<head, tail, next>>

queueVars == <<vars, list>>

Null == NoProc  \* the NULL pointer

ListInit == /\ head = Null
            /\ tail = Null
            /\ next = [p \in Proc |-> Null]

(* enqueue_process().                                                       *)
EnqueueProcess(p) ==
  /\ IF tail = Null
     THEN head' = p /\ next' = [next EXCEPT ![p] = Null]
     ELSE head' = head /\ next' = [next EXCEPT ![p] = Null, ![tail] = p]
  /\ tail' = p

(* Variant, for mutation: the tail pointer is not reset when the list       *)
(* becomes empty.                                                           *)
DequeueKeepsTail ==
  IF head = Null
  THEN UNCHANGED list
  ELSE /\ head' = next[head]
       /\ next' = [next EXCEPT ![head] = Null]
       /\ UNCHANGED tail

(* dequeue_process(): no change when the queue is empty.                    *)
DequeueProcess ==
  IF head = Null
  THEN UNCHANGED list
  ELSE /\ head' = next[head]
       /\ tail' = IF next[head] = Null THEN Null ELSE tail
       /\ next' = [next EXCEPT ![head] = Null]

(* The calls: schedule() on some CPU dequeues a process, preempt() and      *)
(* wake_up() enqueue the one that the queue then ends with.                 *)
Dequeues == \E c \in CPU : pc[c] = "dequeue" /\ pc'[c] = "install"

Enqueued == readyQueue[Len(readyQueue)]

ListStep ==
  CASE Dequeues                                -> DequeueProcess
    [] ~Dequeues /\ readyQueue' # readyQueue   -> EnqueueProcess(Enqueued')
    [] ~Dequeues /\ readyQueue' = readyQueue   -> UNCHANGED list

QueueInit == Init /\ ListInit

QueueNext == Next /\ ListStep

QueueSpec == QueueInit /\ [][QueueNext]_queueVars

QueueFairSpec == QueueSpec /\ Fairness

-----------------------------------------------------------------------------

(* What pointer a queue has at position i of its list, NULL past the end.   *)
At(i) == IF i \in 1..Len(readyQueue) THEN readyQueue[i] ELSE Null

(* The list is exactly the queue, whichever CPUs and wake-ups the calls     *)
(* come from: it starts at the first element, every element leads to the    *)
(* following one, the last to NULL, the tail pointer is the last element,   *)
(* and a process outside the queue points nowhere (so that it can be        *)
(* enqueued again without dragging others along).  It takes the scheduler's *)
(* OnePlace: a process enqueued twice makes the list cyclic.                *)
ListIsQueue ==
  /\ head = At(1)
  /\ tail = At(Len(readyQueue))
  /\ \A i \in 1..Len(readyQueue) : next[readyQueue[i]] = At(i + 1)
  /\ \A p \in Proc : ~Queued(p) => next[p] = Null
=============================================================================

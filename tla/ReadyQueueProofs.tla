--------------------------- MODULE ReadyQueueProofs ---------------------------
(***************************************************************************)
(* The linked list of ReadyQueue.tla is the queue of Scheduler.tla, for    *)
(* every number of CPUs and processes.  It rests on the scheduler's own    *)
(* invariant (SchedulerProofs.IInv): a process is enqueued only while it   *)
(* is not in the queue.                                                    *)
(***************************************************************************)
EXTENDS ReadyQueue, SchedulerProofs

ListTypeOK == /\ head \in Proc \cup {Null}
              /\ tail \in Proc \cup {Null}
              /\ next \in [Proc -> Proc \cup {Null}]

(* The inductive invariant.                                                 *)
ListInv == IInv /\ ListTypeOK /\ ListIsQueue

(* What a step of the scheduler does to the queue.                          *)
QueueAppends == \E p \in Proc : ~Queued(p) /\ readyQueue' = Append(readyQueue, p)

QueueShrinks == IF readyQueue = <<>> THEN UNCHANGED readyQueue ELSE readyQueue' = Tail(readyQueue)

-----------------------------------------------------------------------------
(* enqueue_process() of a process that is not in the queue.                 *)
LEMMA EnqueueKeepsList ==
  ASSUME ListInv, NEW p \in Proc, ~Queued(p), readyQueue' = Append(readyQueue, p),
         EnqueueProcess(p)
  PROVE  ListTypeOK' /\ ListIsQueue'
<1>. DEFINE len == Len(readyQueue)
<1>. USE SchedulerAssumption DEF Null
<1>0. /\ readyQueue \in Seq(Proc)
      /\ ListTypeOK /\ ListIsQueue /\ Distinct(readyQueue)
  BY DEF ListInv, IInv, TypeOK, OnePlace
<1>. USE <1>0
<1>1. len \in Nat /\ (\A i \in 1..len : readyQueue[i] \in Proc) /\ p # Null
  BY LenProperties, ElementOfSeq DEF ListTypeOK
<1>2. /\ readyQueue' \in Seq(Proc)
      /\ Len(readyQueue') = len + 1
      /\ \A i \in 1..len : readyQueue'[i] = readyQueue[i]
      /\ readyQueue'[len + 1] = p
  BY AppendProperties
<1>3. \A i \in 1..len : readyQueue[i] # p
  BY DEF EnqueueProcess, Queued, Within
<1>. HIDE DEF len
<1>4. ListTypeOK'
  BY <1>2 DEF ListTypeOK, EnqueueProcess
<1>6. tail = Null <=> len = 0
  BY <1>1 DEF ListIsQueue, At, len
<1>7. At(1)' = head' /\ At(Len(readyQueue))' = tail'
  <2>1. CASE len = 0
    BY <1>1, <1>2, <1>6, <2>1 DEF At, EnqueueProcess
  <2>2. CASE len # 0
    BY <1>1, <1>2, <1>6, <2>2 DEF At, EnqueueProcess, ListIsQueue, len
  <2>. QED BY <2>1, <2>2
<1>8. \A i \in 1..(len + 1) : next'[readyQueue'[i]] = At(i + 1)'
  <2>. SUFFICES ASSUME NEW i \in 1..(len + 1) PROVE next'[readyQueue'[i]] = At(i + 1)'
    OBVIOUS
  <2>1. CASE i = len + 1
    <3>1. next'[p] = Null
      BY <1>1, <1>3, <1>6, SchedulerAssumption DEF EnqueueProcess, ListTypeOK, ListIsQueue, At, len
    <3>2. At(i + 1)' = Null
      BY <1>1, <1>2, <2>1 DEF At
    <3>. QED BY <1>2, <2>1, <3>1, <3>2
  <2>2. CASE i = len
    <3>1. tail = readyQueue[len] /\ tail \in Proc /\ tail # Null /\ tail # p
      BY <1>1, <1>3, <2>2 DEF ListIsQueue, At, len
    <3>2. next'[tail] = p
      BY <3>1 DEF EnqueueProcess, ListTypeOK
    <3>3. At(i + 1)' = p
      BY <1>1, <1>2, <2>2 DEF At
    <3>. QED BY <1>1, <1>2, <2>2, <3>1, <3>2, <3>3
  <2>3. CASE i \in 1..(len - 1)
    <3>1. i \in 1..len /\ len \in 1..len /\ i # len /\ i + 1 \in 1..len
      BY <1>1, <2>3
    <3>2. /\ tail = readyQueue[len]
          /\ readyQueue[i] \in Proc \ {p, readyQueue[len]}
      BY <1>1, <1>3, <3>1 DEF ListIsQueue, At, len, Distinct
    <3>3. next'[readyQueue[i]] = next[readyQueue[i]]
      BY <3>2 DEF EnqueueProcess, ListTypeOK
    <3>4. next[readyQueue[i]] = readyQueue[i + 1]
      BY <3>1 DEF ListIsQueue, At, len
    <3>5. At(i + 1)' = readyQueue[i + 1]
      BY <1>1, <1>2, <3>1 DEF At
    <3>6. readyQueue'[i] = readyQueue[i]
      BY <1>2, <3>1
    <3>. QED BY <3>3, <3>4, <3>5, <3>6
  <2>4. i = len + 1 \/ i = len \/ i \in 1..(len - 1)
    BY <1>1
  <2>. QED BY <2>1, <2>2, <2>3, <2>4, Zenon
<1>9. \A r \in Proc : ~Queued(r)' => next'[r] = Null
  <2>. SUFFICES ASSUME NEW r \in Proc, ~Queued(r)' PROVE next'[r] = Null
    OBVIOUS
  <2>1. ~Queued(r) /\ r # p
    BY <1>1, <1>2 DEF Queued, Within, len
  <2>2. next[r] = Null
    BY <2>1 DEF ListIsQueue
  <2>3. tail # r
    BY <1>1, <1>6, <2>1 DEF ListIsQueue, At, Queued, Within, len
  <2>. QED BY <2>1, <2>2, <2>3 DEF EnqueueProcess, ListTypeOK
<1>. QED BY <1>2, <1>4, <1>7, <1>8, <1>9 DEF ListIsQueue

(* dequeue_process(), of an empty queue or not.                             *)
LEMMA DequeueKeepsList ==
  ASSUME ListInv, QueueShrinks, DequeueProcess
  PROVE  ListTypeOK' /\ ListIsQueue'
<1>. DEFINE len == Len(readyQueue)
<1>. USE SchedulerAssumption DEF Null
<1>0. /\ readyQueue \in Seq(Proc)
      /\ ListTypeOK /\ ListIsQueue /\ Distinct(readyQueue)
  BY DEF ListInv, IInv, TypeOK, OnePlace
<1>. USE <1>0
<1>1. len \in Nat /\ \A i \in 1..len : readyQueue[i] \in Proc
  BY LenProperties, ElementOfSeq DEF ListTypeOK
<1>2. CASE head = Null
  <2>1. readyQueue = <<>>
    <3>1. len = 0
      BY <1>1, <1>2 DEF ListIsQueue, At, len
    <3>. QED BY <3>1, EmptySeq
  <2>. QED BY <1>2, <2>1 DEF DequeueProcess, QueueShrinks, list, ListTypeOK, ListIsQueue, At, Queued
<1>3. CASE head # Null
  <2>1. len > 0 /\ head = readyQueue[1] /\ head \in Proc
    BY <1>1, <1>3 DEF ListIsQueue, At, ListTypeOK, len
  <2>2. /\ readyQueue' \in Seq(Proc)
        /\ Len(readyQueue') = len - 1
        /\ \A i \in 1..(len - 1) : readyQueue'[i] = readyQueue[i + 1]
    BY <1>1, <1>3, <2>1, HeadTailProperties, EmptySeq DEF QueueShrinks
  <2>3. /\ head' = next[head]
        /\ tail' = IF next[head] = Null THEN Null ELSE tail
        /\ next' = [next EXCEPT ![head] = Null]
    BY <1>3 DEF DequeueProcess
  <2>4. \A i \in 1..len : next[readyQueue[i]] = IF i < len THEN readyQueue[i + 1] ELSE Null
    BY <1>1 DEF ListIsQueue, At, len
  <2>5. \A i, j \in 1..len : readyQueue[i] = readyQueue[j] => i = j
    BY DEF Distinct, len
  <2>6. tail = readyQueue[len]
    BY <1>1, <2>1 DEF ListIsQueue, At, len
  <2>. HIDE DEF len
  <2>7. ListTypeOK'
    BY <2>1, <2>2, <2>3 DEF ListTypeOK
  <2>9. head' = At(1)' /\ tail' = At(Len(readyQueue))'
    <3>1. CASE len = 1
      BY <2>1, <2>2, <2>3, <2>4, <3>1 DEF At
    <3>2. CASE len > 1
      <4>1. 1 \in 1..(len - 1) /\ len - 1 \in 1..(len - 1) /\ (len - 1) + 1 = len /\ 1 \in 1..len
        BY <1>1, <3>2
      <4>2. next[head] = readyQueue[2] /\ readyQueue[2] # Null /\ 2 \in 1..len
        BY <1>1, <2>1, <2>4, <3>2, <4>1
      <4>3. At(1)' = readyQueue[2] /\ At(Len(readyQueue))' = readyQueue[len]
        BY <2>2, <4>1 DEF At
      <4>. QED BY <2>3, <2>6, <4>2, <4>3
    <3>. QED BY <1>1, <2>1, <3>1, <3>2
  <2>10. \A i \in 1..(len - 1) : next'[readyQueue'[i]] = At(i + 1)'
    <3>. SUFFICES ASSUME NEW i \in 1..(len - 1) PROVE next'[readyQueue'[i]] = At(i + 1)'
      OBVIOUS
    <3>1. i + 1 \in 1..len /\ 1 \in 1..len /\ i + 1 # 1
      BY <1>1
    <3>2. readyQueue'[i] = readyQueue[i + 1] /\ readyQueue[i + 1] # head /\ readyQueue[i + 1] \in Proc
      BY <1>1, <2>1, <2>2, <2>5, <3>1
    <3>3. next'[readyQueue'[i]] = IF i + 1 < len THEN readyQueue[i + 2] ELSE Null
      BY <1>1, <2>3, <2>4, <3>1, <3>2 DEF ListTypeOK
    <3>4. At(i + 1)' = IF i + 1 < len THEN readyQueue[i + 2] ELSE Null
      BY <1>1, <2>2 DEF At
    <3>. QED BY <3>3, <3>4
  <2>11. \A r \in Proc : ~Queued(r)' => next'[r] = Null
    <3>. SUFFICES ASSUME NEW r \in Proc, ~Queued(r)', r # head PROVE next'[r] = Null
      BY <2>1, <2>3 DEF ListTypeOK
    <3>1. ASSUME NEW i \in 1..len, readyQueue[i] = r PROVE FALSE
      <4>1. i # 1 /\ i - 1 \in 1..(len - 1) /\ (i - 1) + 1 = i
        BY <1>1, <2>1, <3>1
      <4>2. readyQueue'[i - 1] = r
        BY <2>2, <3>1, <4>1
      <4>. QED BY <2>2, <4>1, <4>2 DEF Queued, Within
    <3>2. next[r] = Null
      BY <3>1 DEF ListIsQueue, Queued, Within, len
    <3>. QED BY <2>1, <2>3, <3>2 DEF ListTypeOK
  <2>. QED BY <2>2, <2>7, <2>9, <2>10, <2>11 DEF ListIsQueue
<1>. QED BY <1>2, <1>3

-----------------------------------------------------------------------------
(* The calls a step of the scheduler makes                                  *)

(* wake_up() and preempt() append a process that was not in the queue; no   *)
(* thread leaves its dequeue.                                               *)
LEMMA MakeReadyEnqueues ==
  ASSUME IInv, NEW p \in Proc, NEW f, MakeReady(p, f), ~Queued(p),
         f = pc \/ \E c \in CPU : pc[c] = "requeue" /\ f = [pc EXCEPT ![c] = "dequeue"]
  PROVE  ~Dequeues /\ QueueAppends
<1>1. f \in [CPU -> Locations] /\ \A d \in CPU : f[d] = "install" => pc[d] = "install"
  BY DEF IInv, TypeOK, Locations
<1>2. \A d \in CPU : pc'[d] = f[d] \/ (pc[d] = "asleep" /\ pc'[d] = "woken")
  BY <1>1, SignalEffect DEF MakeReady
<1>. QED BY <1>1, <1>2 DEF MakeReady, Dequeues, QueueAppends

(* Every step of the scheduler dequeues once, enqueues one process that was *)
(* not queued, or leaves the queue alone.                                   *)
LEMMA StepCalls ==
  ASSUME IInv, [Next]_vars
  PROVE  \/ Dequeues /\ QueueShrinks
         \/ ~Dequeues /\ QueueAppends
         \/ ~Dequeues /\ UNCHANGED readyQueue
<1>. USE DEF IInv
<1>1. ASSUME NEW c \in CPU, CpuStep(c) \/ SpuriousWakeup(c), ~PreemptRequeue(c), ~Dequeue(c)
      PROVE  ~Dequeues /\ UNCHANGED readyQueue
  <2>1. UNCHANGED readyQueue /\ \E to \in Locations : pc' = [pc EXCEPT ![c] = to]
    BY <1>1 DEF CpuStep, HandlerStep, Event, IdleCall, IdleResume, Idle, IdleTest, PreemptTake, Yield,
                Terminate, Release, Install, ContextSwitch, SpuriousWakeup, Locations
  <2>2. ~(pc[c] = "dequeue" /\ pc'[c] = "install")
    BY <1>1 DEF TypeOK, CpuStep, HandlerStep, Event, IdleCall, IdleResume, Idle, IdleTest, PreemptTake,
                Yield, Terminate, Release, Install, ContextSwitch, SpuriousWakeup
  <2>. QED BY <2>1, <2>2 DEF TypeOK, Dequeues
<1>2. ASSUME NEW c \in CPU, Dequeue(c) PROVE Dequeues /\ QueueShrinks
  BY <1>2 DEF TypeOK, Dequeue, Dequeues, QueueShrinks
<1>3. ASSUME NEW c \in CPU, PreemptRequeue(c) PROVE ~Dequeues /\ QueueAppends
  <2>1. local[c] \in Proc /\ ~Queued(local[c])
    BY <1>3 DEF PreemptRequeue, TypeOK, LocalMatchesPc, OnePlace, Holds
  <2>. QED BY <1>3, <2>1, MakeReadyEnqueues DEF PreemptRequeue
<1>4. ASSUME NEW p \in Proc, Admit(p) \/ IoDone(p) PROVE ~Dequeues /\ QueueAppends
  <2>1. ~Queued(p)
    BY <1>4 DEF Admit, IoDone, StateMatchesPlace
  <2>. QED BY <1>4, <2>1, MakeReadyEnqueues DEF Admit, IoDone, WakeUp
<1>5. CASE UNCHANGED vars
  BY <1>5 DEF vars, Dequeues
<1>. QED BY <1>1, <1>2, <1>3, <1>4, <1>5 DEF Next, CpuStep, HandlerStep, Exit

-----------------------------------------------------------------------------
(* The invariant                                                            *)

(* Initially both the list and the queue are empty.                         *)
LEMMA InitListInv == QueueInit => ListInv
BY InitIInv, SchedulerAssumption
   DEF QueueInit, Init, ListInit, ListInv, ListTypeOK, ListIsQueue, At, Null

(* Every call keeps the list and the queue together.                        *)
LEMMA NextListInv == ListInv /\ [QueueNext]_queueVars => ListInv'
<1>. SUFFICES ASSUME ListInv, [QueueNext]_queueVars PROVE ListInv'
  OBVIOUS
<1>1. IInv /\ [Next]_vars
  BY DEF ListInv, QueueNext, queueVars
<1>2. IInv'
  BY <1>1, NextIInv
<1>3. CASE UNCHANGED queueVars
  BY <1>2, <1>3 DEF queueVars, vars, list, ListInv, ListTypeOK, ListIsQueue, At, Queued
<1>4. CASE QueueNext
  <2>1. CASE Dequeues /\ QueueShrinks
    BY <1>2, <1>4, <2>1, DequeueKeepsList DEF QueueNext, ListStep, ListInv
  <2>2. CASE ~Dequeues /\ QueueAppends
    <3>1. PICK p \in Proc : ~Queued(p) /\ readyQueue' = Append(readyQueue, p)
      BY <2>2 DEF QueueAppends
    <3>2. Enqueued' = p /\ readyQueue' # readyQueue
      BY <1>1, <3>1, AppendProperties, LenProperties DEF IInv, TypeOK, Enqueued
    <3>3. EnqueueProcess(p)
      BY <1>4, <2>2, <3>2 DEF QueueNext, ListStep
    <3>. QED BY <1>2, <3>1, <3>3, EnqueueKeepsList DEF ListInv
  <2>3. CASE ~Dequeues /\ UNCHANGED readyQueue
    <3>1. UNCHANGED <<list, readyQueue>>
      BY <1>4, <2>3 DEF QueueNext, ListStep
    <3>. QED BY <1>2, <3>1 DEF list, ListInv, ListTypeOK, ListIsQueue, At, Queued
  <2>. QED BY <1>1, <2>1, <2>2, <2>3, StepCalls
<1>. QED BY <1>3, <1>4

(* The linked list that the handlers' calls of enqueue_process() and        *)
(* dequeue_process() maintain is the queue, for every number of CPUs and    *)
(* processes and every interleaving of the handlers.                        *)
THEOREM ListRepresentsQueue == QueueSpec => []ListIsQueue
<1>1. ListInv => ListIsQueue
  BY DEF ListInv
<1>. QED BY <1>1, InitListInv, NextListInv, PTL DEF QueueSpec
=============================================================================

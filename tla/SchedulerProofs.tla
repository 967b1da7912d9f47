--------------------------- MODULE SchedulerProofs ---------------------------
(***************************************************************************)
(* Proofs about Scheduler.tla, for every number of CPUs and processes.     *)
(*                                                                         *)
(* IInv is inductive: TypeOK, OnePlace and StateMatchesPlace need each     *)
(* other (a process may be appended to the queue because its state says it *)
(* is nowhere) and LocalMatchesPc and SimulatorAgrees (what a handler      *)
(* saved is what it took off the CPU).                                     *)
(***************************************************************************)
EXTENDS Scheduler, TLAPS, SequenceTheorems, FiniteSetTheorems

-----------------------------------------------------------------------------
(* Lemmas on sequences without repetitions                                  *)

(* The members of a queue after an append: the old ones and the new one.    *)
LEMMA AppendWithin ==
  ASSUME NEW S, NEW q \in Seq(S), NEW e \in S
  PROVE  /\ Append(q, e) \in Seq(S)
         /\ \A x : Within(Append(q, e), x) <=> Within(q, x) \/ x = e
<1>1. /\ Append(q, e) \in Seq(S)
      /\ Len(Append(q, e)) = Len(q) + 1
      /\ \A i \in 1..Len(q) : Append(q, e)[i] = q[i]
      /\ Append(q, e)[Len(q) + 1] = e
  BY AppendProperties
<1>2. Len(q) \in Nat
  BY LenProperties
<1>3. ASSUME NEW x, Within(Append(q, e), x) PROVE Within(q, x) \/ x = e
  <2>1. PICK i \in 1..(Len(q) + 1) : Append(q, e)[i] = x
    BY <1>1, <1>3 DEF Within
  <2>2. CASE i = Len(q) + 1
    BY <1>1, <2>1, <2>2
  <2>3. CASE i \in 1..Len(q)
    BY <1>1, <2>1, <2>3 DEF Within
  <2>. QED BY <1>2, <2>2, <2>3
<1>4. ASSUME NEW x, Within(q, x) PROVE Within(Append(q, e), x)
  <2>1. PICK i \in 1..Len(q) : q[i] = x
    BY <1>4 DEF Within
  <2>2. i \in 1..(Len(q) + 1) /\ Append(q, e)[i] = x
    BY <1>1, <1>2, <2>1
  <2>. QED BY <1>1, <2>2 DEF Within
<1>5. Within(Append(q, e), e)
  <2>1. Len(q) + 1 \in 1..(Len(q) + 1)
    BY <1>2
  <2>. QED BY <1>1, <2>1 DEF Within
<1>. QED BY <1>1, <1>3, <1>4, <1>5

(* Appending a stranger keeps the elements distinct.                        *)
LEMMA AppendDistinct ==
  ASSUME NEW S, NEW q \in Seq(S), NEW e \in S, Distinct(q), ~Within(q, e)
  PROVE  Distinct(Append(q, e))
<1>1. /\ Len(Append(q, e)) = Len(q) + 1
      /\ \A i \in 1..Len(q) : Append(q, e)[i] = q[i]
      /\ Append(q, e)[Len(q) + 1] = e
  BY AppendProperties
<1>2. Len(q) \in Nat
  BY LenProperties
<1>3. \A i \in 1..Len(q) : q[i] # e
  BY DEF Within
<1>4. ASSUME NEW i \in 1..(Len(q) + 1), NEW j \in 1..(Len(q) + 1),
             Append(q, e)[i] = Append(q, e)[j]
      PROVE  i = j
  <2>1. CASE i \in 1..Len(q) /\ j \in 1..Len(q)
    BY <1>1, <1>4, <2>1 DEF Distinct
  <2>2. CASE i = Len(q) + 1 /\ j \in 1..Len(q)
    BY <1>1, <1>3, <1>4, <2>2
  <2>3. CASE i \in 1..Len(q) /\ j = Len(q) + 1
    BY <1>1, <1>3, <1>4, <2>3
  <2>. QED BY <1>2, <2>1, <2>2, <2>3
<1>. QED BY <1>1, <1>4 DEF Distinct

(* The members of a queue after its head is removed: all the others, and    *)
(* the head is gone when the elements were distinct.                        *)
LEMMA TailWithin ==
  ASSUME NEW S, NEW q \in Seq(S), q # <<>>, Distinct(q)
  PROVE  /\ Head(q) \in S /\ Within(q, Head(q))
         /\ Tail(q) \in Seq(S) /\ Distinct(Tail(q))
         /\ \A x : Within(Tail(q), x) <=> Within(q, x) /\ x # Head(q)
<1>1. /\ Head(q) = q[1] /\ Head(q) \in S
      /\ Tail(q) \in Seq(S)
      /\ Len(Tail(q)) = Len(q) - 1
      /\ \A i \in 1..Len(Tail(q)) : Tail(q)[i] = q[i + 1]
  BY HeadTailProperties
<1>2. Len(q) \in Nat /\ Len(q) > 0
  BY LenProperties, EmptySeq
<1>3. 1 \in 1..Len(q) /\ \A i \in 1..(Len(q) - 1) : i + 1 \in 1..Len(q)
  BY <1>2
<1>4. Within(q, Head(q))
  BY <1>1, <1>3 DEF Within
<1>5. Distinct(Tail(q))
  <2>. SUFFICES ASSUME NEW i \in 1..(Len(q) - 1), NEW j \in 1..(Len(q) - 1),
                       Tail(q)[i] = Tail(q)[j]
                PROVE  i = j
    BY <1>1 DEF Distinct
  <2>1. i + 1 = j + 1
    BY <1>1, <1>3 DEF Distinct
  <2>. QED BY <2>1, <1>2
<1>6. ASSUME NEW x, Within(Tail(q), x) PROVE Within(q, x) /\ x # Head(q)
  <2>1. PICK i \in 1..(Len(q) - 1) : Tail(q)[i] = x
    BY <1>1, <1>6 DEF Within
  <2>2. i + 1 \in 1..Len(q) /\ q[i + 1] = x /\ i + 1 # 1
    BY <1>1, <1>2, <1>3, <2>1
  <2>3. q[1] # x
    BY <1>3, <2>2 DEF Distinct
  <2>. QED BY <1>1, <2>2, <2>3 DEF Within
<1>7. ASSUME NEW x, Within(q, x), x # Head(q) PROVE Within(Tail(q), x)
  <2>1. PICK i \in 1..Len(q) : q[i] = x
    BY <1>7 DEF Within
  <2>2. i # 1
    BY <1>1, <1>7, <2>1
  <2>3. i - 1 \in 1..(Len(q) - 1) /\ (i - 1) + 1 = i
    BY <1>2, <2>1, <2>2
  <2>4. Tail(q)[i - 1] = x
    BY <1>1, <2>1, <2>3
  <2>. QED BY <1>1, <2>3, <2>4 DEF Within
<1>. QED BY <1>1, <1>4, <1>5, <1>6, <1>7

-----------------------------------------------------------------------------
(* The inductive invariant                                                  *)

(* Initially nothing is anywhere.                                           *)
LEMMA InitIInv == Init => IInv
<1>. SUFFICES ASSUME Init PROVE IInv
  OBVIOUS
<1>. USE SchedulerAssumption DEF Init
<1>1. TypeOK
  BY DEF TypeOK, ProcStates, Locations
<1>2. \A p : ~Within(<<>>, p)
  BY DEF Within
<1>3. OnePlace
  BY <1>2 DEF OnePlace, Distinct, Queued, Holds
<1>4. StateMatchesPlace
  BY <1>2 DEF StateMatchesPlace, Queued
<1>5. SimulatorAgrees /\ LocalMatchesPc
  BY DEF SimulatorAgrees, LocalMatchesPc
<1>. QED BY <1>1, <1>3, <1>4, <1>5 DEF IInv

(* A signal changes the location of sleeping threads only.                  *)
LEMMA SignalEffect ==
  ASSUME NEW f \in [CPU -> Locations], pc' \in Signal(f)
  PROVE  /\ pc' \in [CPU -> Locations]
         /\ \A d \in CPU : pc'[d] = f[d] \/ (pc[d] = "asleep" /\ pc'[d] = "woken")
  BY DEF Signal, Asleep, Locations

(* IdleTest moves one thread between places where it holds nothing.         *)
LEMMA IdleTestStep ==
  ASSUME IInv, NEW c \in CPU, pc[c] \in {"outside", "woken"}, current[c] = NoProc, IdleTest(c)
  PROVE  IInv'
<1>. USE SchedulerAssumption DEF IInv, IdleTest
<1>1. TypeOK'
  BY DEF TypeOK, Locations
<1>2. OnePlace'
  BY DEF TypeOK, OnePlace, Queued, Holds
<1>3. StateMatchesPlace'
  BY DEF TypeOK, StateMatchesPlace, Queued
<1>4. SimulatorAgrees' /\ LocalMatchesPc'
  BY DEF TypeOK, SimulatorAgrees, LocalMatchesPc
<1>. QED BY <1>1, <1>2, <1>3, <1>4

(* preempt() takes the process off its CPU: it is in the handler's hands.   *)
LEMMA PreemptTakeStep ==
  ASSUME IInv, NEW c \in CPU, PreemptTake(c)
  PROVE  IInv'
<1>. USE SchedulerAssumption DEF IInv, PreemptTake
<1>1. TypeOK'
  BY DEF TypeOK, Locations
<1>2. OnePlace'
  BY DEF TypeOK, OnePlace, Queued, Holds
<1>3. StateMatchesPlace'
  BY DEF TypeOK, StateMatchesPlace, Queued, LocalMatchesPc
<1>4. SimulatorAgrees' /\ LocalMatchesPc'
  BY DEF TypeOK, SimulatorAgrees, LocalMatchesPc
<1>. QED BY <1>1, <1>2, <1>3, <1>4

(* yield() and terminate(): the process is nowhere afterwards.              *)
LEMMA ReleaseStep ==
  ASSUME IInv, NEW c \in CPU, NEW state \in {"WAITING", "TERMINATED"}, Release(c, state)
  PROVE  IInv'
<1>. USE SchedulerAssumption DEF IInv, Release
<1>1. TypeOK'
  BY DEF TypeOK, Locations, ProcStates
<1>2. OnePlace'
  BY DEF TypeOK, OnePlace, Queued, Holds
<1>3. StateMatchesPlace'
  BY DEF TypeOK, StateMatchesPlace, OnePlace, Holds, Queued, LocalMatchesPc
<1>4. SimulatorAgrees' /\ LocalMatchesPc'
  BY DEF TypeOK, SimulatorAgrees, LocalMatchesPc
<1>. QED BY <1>1, <1>2, <1>3, <1>4

(* The head of the queue passes into the hands of one CPU.                  *)
LEMMA DequeueStep ==
  ASSUME IInv, NEW c \in CPU, Dequeue(c)
  PROVE  IInv'
<1>. USE SchedulerAssumption DEF IInv, Dequeue
<1>1. CASE readyQueue = <<>>
  <2>1. TypeOK'
    BY <1>1 DEF TypeOK, Locations
  <2>2. OnePlace'
    BY <1>1 DEF TypeOK, OnePlace, Queued, Holds
  <2>3. StateMatchesPlace'
    BY <1>1 DEF TypeOK, StateMatchesPlace, Queued
  <2>4. SimulatorAgrees' /\ LocalMatchesPc'
    BY <1>1 DEF TypeOK, SimulatorAgrees, LocalMatchesPc
  <2>. QED BY <2>1, <2>2, <2>3, <2>4
<1>2. CASE readyQueue # <<>>
  <2>. DEFINE h == Head(readyQueue)
  <2>1. /\ h \in Proc /\ Queued(h)
        /\ readyQueue' \in Seq(Proc) /\ Distinct(readyQueue')
        /\ \A x : Queued(x)' <=> Queued(x) /\ x # h
    <3>1. /\ readyQueue \in Seq(Proc) /\ Distinct(readyQueue)
          /\ readyQueue' = Tail(readyQueue)
      BY <1>2 DEF TypeOK, OnePlace
    <3>2. /\ h \in Proc /\ Within(readyQueue, h)
          /\ Tail(readyQueue) \in Seq(Proc) /\ Distinct(Tail(readyQueue))
          /\ \A x : Within(Tail(readyQueue), x) <=> Within(readyQueue, x) /\ x # h
      BY <1>2, <3>1, TailWithin
    <3>. QED BY <3>1, <3>2 DEF Queued
  <2>2. /\ local' = [local EXCEPT ![c] = h]
        /\ pc[c] = "dequeue" /\ pc' = [pc EXCEPT ![c] = "install"]
        /\ UNCHANGED <<current, procState, simCurrent>>
        /\ local[c] = NoProc /\ current[c] = NoProc /\ h # NoProc
    BY <1>2, <2>1 DEF LocalMatchesPc
  <2>. HIDE DEF h, Dequeue
  <2>3. \A d \in CPU : ~Holds(d, h)
    BY <2>1 DEF OnePlace
  <2>4. \A p \in Proc, d \in CPU : Holds(d, p)' <=> Holds(d, p) \/ (d = c /\ p = h)
    BY <2>2 DEF TypeOK, Holds
  <2>5. TypeOK'
    BY <2>1, <2>2 DEF TypeOK, Locations
  <2>6. OnePlace'
    BY <2>1, <2>3, <2>4 DEF OnePlace
  <2>7. StateMatchesPlace'
    <3>1. \A p \in Proc : (\E d \in CPU : pc'[d] = "install" /\ local'[d] = p)
                            <=> p = h \/ \E d \in CPU : pc[d] = "install" /\ local[d] = p
      BY <2>2 DEF TypeOK
    <3>2. \A p \in Proc : (\E d \in CPU : current'[d] = p \/ (pc'[d] = "requeue" /\ local'[d] = p))
                            <=> \E d \in CPU : current[d] = p \/ (pc[d] = "requeue" /\ local[d] = p)
      BY <2>2 DEF TypeOK
    <3>. QED BY <2>1, <2>2, <3>1, <3>2 DEF StateMatchesPlace
  <2>8. SimulatorAgrees' /\ LocalMatchesPc'
    BY <2>2 DEF TypeOK, SimulatorAgrees, LocalMatchesPc
  <2>. QED BY <2>5, <2>6, <2>7, <2>8
<1>. QED BY <1>1, <1>2

(* The process a CPU holds becomes its current process.                     *)
LEMMA InstallStep ==
  ASSUME IInv, NEW c \in CPU, Install(c)
  PROVE  IInv'
<1>. USE SchedulerAssumption DEF IInv, Install
<1>1. TypeOK'
  BY DEF TypeOK, Locations, ProcStates
<1>2. OnePlace'
  BY DEF TypeOK, OnePlace, Queued, Holds, LocalMatchesPc
<1>3. StateMatchesPlace'
  BY DEF TypeOK, StateMatchesPlace, OnePlace, Holds, Queued, LocalMatchesPc
<1>4. SimulatorAgrees' /\ LocalMatchesPc'
  BY DEF TypeOK, SimulatorAgrees, LocalMatchesPc
<1>. QED BY <1>1, <1>2, <1>3, <1>4

(* context_switch() tells the simulator; nothing moves.                     *)
LEMMA ContextSwitchStep ==
  ASSUME IInv, NEW c \in CPU, ContextSwitch(c)
  PROVE  IInv'
<1>. USE SchedulerAssumption DEF IInv, ContextSwitch
<1>1. TypeOK'
  BY DEF TypeOK, Locations
<1>2. OnePlace'
  BY DEF TypeOK, OnePlace, Queued, Holds
<1>3. StateMatchesPlace'
  BY DEF TypeOK, StateMatchesPlace, Queued
<1>4. SimulatorAgrees' /\ LocalMatchesPc'
  BY DEF TypeOK, SimulatorAgrees, LocalMatchesPc
<1>. QED BY <1>1, <1>2, <1>3, <1>4

(* The preempted process passes from the handler's hands into the queue.    *)
LEMMA PreemptRequeueStep ==
  ASSUME IInv, NEW c \in CPU, PreemptRequeue(c)
  PROVE  IInv'
<1>. USE SchedulerAssumption DEF IInv, PreemptRequeue, MakeReady
<1>0. /\ local[c] \in Proc /\ ~Queued(local[c])
      /\ [pc EXCEPT ![c] = "dequeue"] \in [CPU -> Locations]
  BY DEF TypeOK, LocalMatchesPc, OnePlace, Holds, Locations
<1>q. /\ readyQueue' \in Seq(Proc) /\ Distinct(readyQueue')
      /\ \A x : Within(readyQueue', x) <=> Within(readyQueue, x) \/ x = local[c]
  BY <1>0, AppendWithin, AppendDistinct DEF TypeOK, OnePlace, Queued
<1>s. /\ pc' \in [CPU -> Locations]
      /\ pc'[c] = "dequeue"
      /\ \A d \in CPU \ {c} : pc'[d] = pc[d] \/ (pc[d] = "asleep" /\ pc'[d] = "woken")
  BY <1>0, SignalEffect DEF TypeOK
<1>1. TypeOK'
  BY <1>0, <1>q, <1>s DEF TypeOK, ProcStates
<1>h. \A p \in Proc, d \in CPU : Holds(d, p)' <=> Holds(d, p) /\ d # c
  BY <1>0, <1>s DEF TypeOK, Holds, LocalMatchesPc
<1>2. OnePlace'
  BY <1>0, <1>q, <1>s, <1>h DEF OnePlace, Queued, Holds
<1>3. StateMatchesPlace'
  <2>1. \A p \in Proc : (\E d \in CPU : pc'[d] = "install" /\ local'[d] = p)
                          <=> \E d \in CPU : pc[d] = "install" /\ local[d] = p
    BY <1>s DEF TypeOK
  <2>2. \A p \in Proc : (\E d \in CPU : current'[d] = p \/ (pc'[d] = "requeue" /\ local'[d] = p))
                          <=> /\ p # local[c]
                              /\ \E d \in CPU : current[d] = p \/ (pc[d] = "requeue" /\ local[d] = p)
    BY <1>0, <1>s DEF TypeOK, OnePlace, Holds, LocalMatchesPc
  <2>. QED BY <1>0, <1>q, <2>1, <2>2 DEF TypeOK, StateMatchesPlace, Queued
<1>4. SimulatorAgrees' /\ LocalMatchesPc'
  BY <1>0, <1>s DEF TypeOK, SimulatorAgrees, LocalMatchesPc
<1>. QED BY <1>1, <1>2, <1>3, <1>4

(* A process that is nowhere enters the queue.                              *)
LEMMA WakeUpStep ==
  ASSUME IInv, NEW p \in Proc, procState[p] \in {"NEW", "WAITING"}, WakeUp(p)
  PROVE  IInv'
<1>. USE SchedulerAssumption DEF IInv, WakeUp, MakeReady
<1>0. /\ ~Queued(p)
      /\ \A c \in CPU : ~Holds(c, p)
      /\ pc \in [CPU -> Locations]
  BY DEF TypeOK, StateMatchesPlace, Holds
<1>q. /\ readyQueue' \in Seq(Proc) /\ Distinct(readyQueue')
      /\ \A x : Within(readyQueue', x) <=> Within(readyQueue, x) \/ x = p
  BY <1>0, AppendWithin, AppendDistinct DEF TypeOK, OnePlace, Queued
<1>s. /\ pc' \in [CPU -> Locations]
      /\ \A d \in CPU : pc'[d] = pc[d] \/ (pc[d] = "asleep" /\ pc'[d] = "woken")
  BY <1>0, SignalEffect
<1>1. TypeOK'
  BY <1>q, <1>s DEF TypeOK, ProcStates
<1>2. OnePlace'
  BY <1>0, <1>q, <1>s, SMTT(30) DEF TypeOK, OnePlace, Queued, Holds
<1>3. StateMatchesPlace'
  BY <1>0, <1>q, <1>s DEF TypeOK, StateMatchesPlace, Queued, Holds
<1>4. SimulatorAgrees' /\ LocalMatchesPc'
  BY <1>s DEF TypeOK, SimulatorAgrees, LocalMatchesPc
<1>. QED BY <1>1, <1>2, <1>3, <1>4

(* A spurious wakeup moves one thread that holds nothing.                   *)
LEMMA SpuriousWakeupStep ==
  ASSUME IInv, NEW c \in CPU, SpuriousWakeup(c)
  PROVE  IInv'
<1>. USE SchedulerAssumption DEF IInv, SpuriousWakeup
<1>1. TypeOK'
  BY DEF TypeOK, Locations
<1>2. OnePlace'
  BY DEF TypeOK, OnePlace, Queued, Holds
<1>3. StateMatchesPlace'
  BY DEF TypeOK, StateMatchesPlace, Queued
<1>4. SimulatorAgrees' /\ LocalMatchesPc'
  BY DEF TypeOK, SimulatorAgrees, LocalMatchesPc
<1>. QED BY <1>1, <1>2, <1>3, <1>4

(* Every step of the scheduler and its clients preserves the invariant.     *)
LEMMA NextIInv == IInv /\ [Next]_vars => IInv'
<1>. SUFFICES ASSUME IInv, [Next]_vars PROVE IInv'
  OBVIOUS
<1>1. ASSUME NEW c \in CPU, CpuStep(c) PROVE IInv'
  <2>1. CASE IdleResume(c)
    BY <2>1, IdleTestStep DEF IdleResume, IInv, LocalMatchesPc
  <2>2. CASE PreemptRequeue(c)
    BY <2>2, PreemptRequeueStep
  <2>3. CASE Dequeue(c)
    BY <2>3, DequeueStep
  <2>4. CASE Install(c)
    BY <2>4, InstallStep
  <2>5. CASE ContextSwitch(c)
    BY <2>5, ContextSwitchStep
  <2>6. CASE PreemptTake(c)
    BY <2>6, PreemptTakeStep
  <2>7. CASE Yield(c) \/ Terminate(c)
    BY <2>7, ReleaseStep DEF Yield, Terminate
  <2>8. CASE IdleCall(c)
    BY <2>8, IdleTestStep DEF IdleCall, Idle, IInv, SimulatorAgrees
  <2>. QED BY <1>1, <2>1, <2>2, <2>3, <2>4, <2>5, <2>6, <2>7, <2>8 DEF CpuStep, HandlerStep, Event
<1>2. ASSUME NEW c \in CPU, SpuriousWakeup(c) PROVE IInv'
  BY <1>2, SpuriousWakeupStep
<1>3. ASSUME NEW p \in Proc, Admit(p) \/ IoDone(p) PROVE IInv'
  BY <1>3, WakeUpStep DEF Admit, IoDone
<1>4. CASE Exit \/ UNCHANGED vars
  BY <1>4 DEF Exit, vars, IInv, TypeOK, OnePlace, StateMatchesPlace, SimulatorAgrees,
              LocalMatchesPc, Queued, Holds
<1>. QED BY <1>1, <1>2, <1>3, <1>4 DEF Next

(* In every reachable state the invariant holds.                            *)
THEOREM InvariantHolds == Spec => []IInv
<1>. QED BY InitIInv, NextIInv, PTL DEF Spec

(* Type correctness, for every number of CPUs and processes.                *)
THEOREM TypeCorrect == Spec => []TypeOK
<1>1. IInv => TypeOK
  BY DEF IInv
<1>. QED BY <1>1, InvariantHolds, PTL

(* No process is ever in two places (in the ready queue twice, on two CPUs, *)
(* in the queue and on a CPU), however many CPU threads interleave.         *)
THEOREM ProcessesInOnePlace == Spec => []OnePlace
<1>1. IInv => OnePlace
  BY DEF IInv
<1>. QED BY <1>1, InvariantHolds, PTL

(* The state of every process agrees with where it is, so that no ready     *)
(* process is ever lost between the two mutexes.                            *)
THEOREM StatesAreRight == Spec => []StateMatchesPlace
<1>1. IInv => StateMatchesPlace
  BY DEF IInv
<1>. QED BY <1>1, InvariantHolds, PTL

(* The simulator's and the scheduler's idea of the running process agree    *)
(* whenever a CPU thread is outside the handlers.                           *)
THEOREM SimulatorIsUpToDate == Spec => []SimulatorAgrees
<1>1. IInv => SimulatorAgrees
  BY DEF IInv
<1>. QED BY <1>1, InvariantHolds, PTL

-----------------------------------------------------------------------------
(* No lost wakeup                                                           *)

(* The sets of CPUs that NoLostWakeup counts are finite.                    *)
LEMMA CountsAreNat ==
  /\ IsFiniteSet(OnTheWay) /\ Cardinality(OnTheWay) \in Nat
  /\ IsFiniteSet(OnTheWay') /\ Cardinality(OnTheWay') \in Nat
<1>1. IsFiniteSet(CPU)
  BY SchedulerAssumption
<1>2. OnTheWay \subseteq CPU /\ OnTheWay' \subseteq CPU
  BY DEF OnTheWay
<1>. QED BY <1>1, <1>2, FS_Subset, FS_CardinalityType

(* More CPUs on the way: more, counted; one more: at least one more.        *)
LEMMA CountGrows ==
  /\ OnTheWay \subseteq OnTheWay' => Cardinality(OnTheWay) <= Cardinality(OnTheWay')
  /\ \A c : OnTheWay \subseteq OnTheWay' /\ c \notin OnTheWay /\ c \in OnTheWay'
              => Cardinality(OnTheWay) + 1 <= Cardinality(OnTheWay')
<1>1. OnTheWay \subseteq OnTheWay' => Cardinality(OnTheWay) <= Cardinality(OnTheWay')
  BY CountsAreNat, FS_Subset
<1>2. ASSUME NEW c, OnTheWay \subseteq OnTheWay', c \notin OnTheWay, c \in OnTheWay'
      PROVE  Cardinality(OnTheWay) + 1 <= Cardinality(OnTheWay')
  <2>1. Cardinality(OnTheWay \cup {c}) = Cardinality(OnTheWay) + 1
    BY <1>2, CountsAreNat, FS_AddElement
  <2>2. OnTheWay \cup {c} \subseteq OnTheWay'
    BY <1>2
  <2>3. Cardinality(OnTheWay \cup {c}) <= Cardinality(OnTheWay')
    BY <2>2, CountsAreNat, FS_Subset
  <2>. QED BY <2>1, <2>3
<1>. QED BY <1>1, <1>2

(* A process is made ready.  If a CPU still sleeps afterwards, one that     *)
(* slept has been woken, so that one more CPU is on the way.                *)
LEMMA MakeReadyWakes ==
  ASSUME IInv, NoLostWakeup, NEW p \in Proc, NEW f, MakeReady(p, f),
         f = pc \/ \E c \in CPU : pc[c] = "requeue" /\ f = [pc EXCEPT ![c] = "dequeue"]
  PROVE  NoLostWakeup'
<1>. USE DEF IInv
<1>1. Len(readyQueue') = Len(readyQueue) + 1 /\ Len(readyQueue) \in Nat
  BY AppendProperties, LenProperties DEF MakeReady, TypeOK
<1>2. SUFFICES ASSUME Asleep' # {} PROVE Len(readyQueue') <= Cardinality(OnTheWay')
  BY DEF NoLostWakeup
<1>3. f \in [CPU -> Locations] /\ \A d \in CPU : f[d] = "asleep" <=> pc[d] = "asleep"
  BY DEF TypeOK, Locations
<1>4. Asleep # {}
  BY <1>2, <1>3, SignalEffect DEF MakeReady, Asleep
<1>5. PICK w \in Asleep : pc' = [f EXCEPT ![w] = "woken"]
  BY <1>4 DEF MakeReady, Signal
<1>6. w \in CPU /\ pc[w] = "asleep" /\ pc'[w] = "woken"
  BY <1>3, <1>5 DEF Asleep
<1>7. OnTheWay \subseteq OnTheWay' /\ w \notin OnTheWay /\ w \in OnTheWay'
  BY <1>3, <1>5, <1>6 DEF OnTheWay, TypeOK
<1>8. Cardinality(OnTheWay) + 1 <= Cardinality(OnTheWay')
  BY <1>7, CountGrows
<1>9. Len(readyQueue) <= Cardinality(OnTheWay)
  BY <1>4 DEF NoLostWakeup
<1>. QED BY <1>1, <1>8, <1>9, CountsAreNat

(* The other steps: either a CPU that falls asleep has seen an empty queue, *)
(* or nobody stops being on the way before taking a process.                *)
LEMMA IdleTestWakes ==
  ASSUME IInv, NoLostWakeup, NEW c \in CPU, pc[c] \in {"outside", "woken"}, IdleTest(c)
  PROVE  NoLostWakeup'
<1>. USE DEF IInv, IdleTest
<1>1. CASE readyQueue = <<>>
  BY <1>1, CountsAreNat, EmptySeq DEF NoLostWakeup
<1>2. CASE readyQueue # <<>>
  <2>1. Asleep' = Asleep
    BY <1>2 DEF Asleep, TypeOK
  <2>2. OnTheWay \subseteq OnTheWay'
    BY <1>2 DEF OnTheWay, TypeOK
  <2>3. Len(readyQueue) \in Nat
    BY LenProperties DEF TypeOK
  <2>. QED BY <2>1, <2>2, <2>3, CountGrows, CountsAreNat DEF NoLostWakeup
<1>. QED BY <1>1, <1>2

(* A dequeue takes one process and one CPU off the two sides.              *)
LEMMA DequeueWakes ==
  ASSUME IInv, NoLostWakeup, NEW c \in CPU, Dequeue(c)
  PROVE  NoLostWakeup'
<1>. USE DEF IInv, Dequeue
<1>1. Asleep' = Asleep
  BY DEF Asleep, TypeOK
<1>2. CASE readyQueue = <<>>
  BY <1>2, CountsAreNat, EmptySeq DEF NoLostWakeup
<1>3. CASE readyQueue # <<>>
  <2>1. Len(readyQueue') = Len(readyQueue) - 1 /\ Len(readyQueue) \in Nat
    BY <1>3, HeadTailProperties, LenProperties DEF TypeOK
  <2>2. OnTheWay' = OnTheWay \ {c} /\ c \in OnTheWay
    BY DEF OnTheWay, TypeOK
  <2>3. Cardinality(OnTheWay') = Cardinality(OnTheWay) - 1
    BY <2>2, CountsAreNat, FS_RemoveElement
  <2>. QED BY <1>1, <2>1, <2>3, CountsAreNat DEF NoLostWakeup
<1>. QED BY <1>2, <1>3

(* A CPU that is not on the way moves elsewhere, but not to sleep.          *)
LEMMA OtherWakes ==
  ASSUME IInv, NoLostWakeup, NEW c \in CPU, UNCHANGED readyQueue,
         NEW to \in Locations \ {"asleep"}, pc' = [pc EXCEPT ![c] = to],
         pc[c] \notin {"woken", "dequeue"}
  PROVE  NoLostWakeup'
<1>1. Asleep' \subseteq Asleep
  BY DEF Asleep, IInv, TypeOK
<1>2. OnTheWay \subseteq OnTheWay'
  BY DEF OnTheWay, IInv, TypeOK
<1>3. Len(readyQueue) \in Nat
  BY LenProperties DEF IInv, TypeOK
<1>. QED BY <1>1, <1>2, <1>3, CountGrows, CountsAreNat DEF NoLostWakeup

(* Every step keeps the balance.                                            *)
LEMMA NextNoLostWakeup == IInv /\ NoLostWakeup /\ [Next]_vars => NoLostWakeup'
<1>. SUFFICES ASSUME IInv, NoLostWakeup, [Next]_vars PROVE NoLostWakeup'
  OBVIOUS
<1>1. ASSUME NEW c \in CPU, CpuStep(c) PROVE NoLostWakeup'
  <2>1. CASE IdleResume(c) \/ IdleCall(c)
    BY <2>1, IdleTestWakes DEF IdleResume, IdleCall, Idle
  <2>2. CASE PreemptRequeue(c)
    BY <2>2, MakeReadyWakes DEF PreemptRequeue, IInv, TypeOK, LocalMatchesPc
  <2>3. CASE Dequeue(c)
    BY <2>3, DequeueWakes
  <2>4. CASE Install(c) \/ ContextSwitch(c) \/ PreemptTake(c) \/ Yield(c) \/ Terminate(c)
    BY <2>4, OtherWakes DEF Install, ContextSwitch, PreemptTake, Yield, Terminate, Release, Locations
  <2>. QED BY <1>1, <2>1, <2>2, <2>3, <2>4 DEF CpuStep, HandlerStep, Event
<1>2. ASSUME NEW c \in CPU, SpuriousWakeup(c) PROVE NoLostWakeup'
  BY <1>2, OtherWakes DEF SpuriousWakeup, Locations
<1>3. ASSUME NEW p \in Proc, Admit(p) \/ IoDone(p) PROVE NoLostWakeup'
  BY <1>3, MakeReadyWakes DEF Admit, IoDone, WakeUp
<1>4. CASE Exit \/ UNCHANGED vars
  BY <1>4 DEF Exit, vars, NoLostWakeup, Asleep, OnTheWay
<1>. QED BY <1>1, <1>2, <1>3, <1>4 DEF Next

(* No wakeup of ready_not_empty is ever lost: while some CPU sleeps in      *)
(* idle(), every ready process has a CPU of its own on the way to dequeue   *)
(* it -- for every number of CPUs and processes, spurious wakeups included. *)
THEOREM WakeupsAreNotLost == Spec => []NoLostWakeup
<1>1. Init => NoLostWakeup
  BY DEF Init, NoLostWakeup, Asleep
<1>. QED BY <1>1, InvariantHolds, NextNoLostWakeup, PTL DEF Spec

-----------------------------------------------------------------------------
(* Refinement of ProcessLifecycle                                           *)

(* A step that leaves the queue and every process's stage and CPU alone is  *)
(* a stutter of the abstract specification.                                 *)
LEMMA Stutters ==
  ASSUME UNCHANGED readyQueue,
         \A p \in Proc : Stage(p)' = Stage(p),
         \A c \in CPU : Devoted(c)' = Devoted(c)
  PROVE  UNCHANGED Life!vars
BY DEF Life!vars

(* Initially every process is new and every CPU free.                       *)
LEMMA InitImplements == Init => Life!Init
  BY DEF Init, Life!Init, Stage, Devoted

(* The steps between the locks change nothing of the abstract state.        *)
LEMMA StutterSteps ==
  ASSUME IInv, NEW c \in CPU,
         \/ IdleTest(c) /\ pc[c] \in {"outside", "woken"}
         \/ PreemptTake(c) \/ Install(c) \/ ContextSwitch(c) \/ SpuriousWakeup(c)
  PROVE  UNCHANGED Life!vars
<1>. USE DEF IInv
<1>1. CASE IdleTest(c) /\ pc[c] \in {"outside", "woken"}
  BY <1>1, Stutters DEF IdleTest, TypeOK, Stage, Devoted
<1>2. CASE PreemptTake(c)
  BY <1>2, Stutters DEF PreemptTake, TypeOK, Stage, Devoted
<1>3. CASE Install(c)
  <2>1. \A d \in CPU : Devoted(d)' = Devoted(d)
    BY <1>3 DEF Install, TypeOK, Devoted
  <2>2. \A p \in Proc : Stage(p)' = Stage(p)
    BY <1>3, SchedulerAssumption DEF Install, TypeOK, Stage, OnePlace, Holds
  <2>3. UNCHANGED readyQueue
    BY <1>3 DEF Install
  <2>. QED BY <2>1, <2>2, <2>3, Stutters
<1>4. CASE ContextSwitch(c)
  BY <1>4, Stutters DEF ContextSwitch, TypeOK, Stage, Devoted
<1>5. CASE SpuriousWakeup(c)
  BY <1>5, Stutters DEF SpuriousWakeup, TypeOK, Stage, Devoted
<1>. QED BY <1>1, <1>2, <1>3, <1>4, <1>5

(* yield() and terminate() are the abstract Leave.                          *)
LEMMA ReleaseImplements ==
  ASSUME IInv, NEW c \in CPU, NEW state \in {"WAITING", "TERMINATED"}, Release(c, state),
         current[c] # NoProc
  PROVE  Life!Leave(c, state)
<1>. USE DEF IInv, Release
<1>1. Devoted(c) = current[c] /\ current[c] \in Proc
  BY DEF TypeOK, Devoted
<1>2. \A d \in CPU : Devoted(d)' = IF d = c THEN NoProc ELSE Devoted(d)
  BY DEF TypeOK, Devoted
<1>3. \A p \in Proc : Stage(p)' = IF p = current[c] THEN state ELSE Stage(p)
  BY DEF TypeOK, Stage, OnePlace, Holds
<1>. QED BY <1>1, <1>2, <1>3 DEF Life!Leave

(* preempt() is the abstract Preempt when it puts the process back.         *)
LEMMA RequeueImplements ==
  ASSUME IInv, NEW c \in CPU, PreemptRequeue(c)
  PROVE  Life!Preempt(c)
<1>. USE DEF IInv, PreemptRequeue, MakeReady
<1>1. Devoted(c) = local[c] /\ local[c] \in Proc /\ local[c] # NoProc
  BY DEF TypeOK, Devoted, LocalMatchesPc
<1>2. /\ pc' \in [CPU -> Locations] /\ pc'[c] = "dequeue"
      /\ \A d \in CPU \ {c} : pc'[d] = pc[d] \/ (pc[d] = "asleep" /\ pc'[d] = "woken")
  <2>1. [pc EXCEPT ![c] = "dequeue"] \in [CPU -> Locations]
    BY DEF TypeOK, Locations
  <2>. QED BY <2>1, SignalEffect DEF TypeOK
<1>3. \A d \in CPU : Devoted(d)' = IF d = c THEN NoProc ELSE Devoted(d)
  BY <1>2 DEF TypeOK, Devoted, LocalMatchesPc
<1>4. \A p \in Proc : Stage(p)' = IF p = local[c] THEN "READY" ELSE Stage(p)
  BY <1>2 DEF TypeOK, Stage, OnePlace, Holds
<1>. QED BY <1>1, <1>3, <1>4 DEF Life!Preempt

(* schedule() is the abstract Dispatch when it finds a process, from the    *)
(* moment it leaves the queue, and no step at all when it finds none.       *)
LEMMA DequeueImplements ==
  ASSUME IInv, NEW c \in CPU, Dequeue(c)
  PROVE  Life!Dispatch(c) \/ UNCHANGED Life!vars
<1>. USE DEF IInv, Dequeue
<1>1. Devoted(c) = NoProc
  BY DEF TypeOK, Devoted, LocalMatchesPc
<1>2. CASE readyQueue = <<>>
  BY <1>2, Stutters, SchedulerAssumption DEF TypeOK, Stage, Devoted, LocalMatchesPc
<1>3. CASE readyQueue # <<>>
  <2>. DEFINE h == Head(readyQueue)
  <2>1. h \in Proc /\ local'[c] = h /\ Queued(h)
    BY <1>3, TailWithin DEF TypeOK, OnePlace, Queued
  <2>2. \A d \in CPU : Devoted(d)' = IF d = c THEN h ELSE Devoted(d)
    BY <1>3, <2>1 DEF TypeOK, Devoted
  <2>3. \A p \in Proc : Stage(p)' = IF p = h THEN "RUNNING" ELSE Stage(p)
    BY <1>3, <2>1 DEF TypeOK, Stage
  <2>. QED BY <1>1, <1>3, <2>1, <2>2, <2>3 DEF Life!Dispatch
<1>. QED BY <1>2, <1>3

(* wake_up() is the abstract BecomeReady.                                   *)
LEMMA WakeUpImplements ==
  ASSUME IInv, NEW p \in Proc, procState[p] \in {"NEW", "WAITING"}, WakeUp(p)
  PROVE  Life!BecomeReady(p)
<1>. USE DEF IInv, WakeUp, MakeReady
<1>1. /\ pc' \in [CPU -> Locations]
      /\ \A d \in CPU : pc'[d] = pc[d] \/ (pc[d] = "asleep" /\ pc'[d] = "woken")
  BY SignalEffect DEF TypeOK
<1>2. \A d \in CPU : ~(pc[d] = "install" /\ local[d] = p)
  BY DEF StateMatchesPlace
<1>3. \A d \in CPU : Devoted(d)' = Devoted(d)
  BY <1>1 DEF TypeOK, Devoted
<1>4. \A r \in Proc : Stage(r)' = IF r = p THEN "READY" ELSE Stage(r)
  BY <1>1, <1>2 DEF TypeOK, Stage
<1>5. Stage(p) \in {"NEW", "WAITING"}
  BY <1>2 DEF Stage
<1>. QED BY <1>3, <1>4, <1>5 DEF Life!BecomeReady

(* Every step is a step of the abstract specification or a stutter.         *)
LEMMA NextImplements == IInv /\ [Next]_vars => [Life!Next]_(Life!vars)
<1>. SUFFICES ASSUME IInv, [Next]_vars PROVE Life!Next \/ UNCHANGED Life!vars
  OBVIOUS
<1>1. ASSUME NEW c \in CPU, CpuStep(c) PROVE Life!Next \/ UNCHANGED Life!vars
  <2>1. CASE IdleResume(c) \/ IdleCall(c) \/ PreemptTake(c) \/ Install(c) \/ ContextSwitch(c)
    BY <2>1, StutterSteps DEF IdleResume, IdleCall, Idle
  <2>2. CASE PreemptRequeue(c)
    BY <2>2, RequeueImplements DEF Life!Next
  <2>3. CASE Dequeue(c)
    BY <2>3, DequeueImplements DEF Life!Next
  <2>4. CASE Event(c) /\ (Yield(c) \/ Terminate(c))
    <3>1. current[c] # NoProc
      BY <2>4 DEF Event, Yield, Terminate, Release, IInv, SimulatorAgrees
    <3>. QED BY <2>4, <3>1, ReleaseImplements DEF Yield, Terminate, Life!Next
  <2>. QED BY <1>1, <2>1, <2>2, <2>3, <2>4 DEF CpuStep, HandlerStep, Event
<1>2. ASSUME NEW c \in CPU, SpuriousWakeup(c) PROVE UNCHANGED Life!vars
  BY <1>2, StutterSteps
<1>3. ASSUME NEW p \in Proc, Admit(p) \/ IoDone(p) PROVE Life!Next
  BY <1>3, WakeUpImplements DEF Admit, IoDone, Life!Next
<1>4. CASE Exit \/ UNCHANGED vars
  <2>1. UNCHANGED vars
    BY <1>4 DEF Exit
  <2>. QED BY <2>1, Stutters DEF vars, Stage, Devoted
<1>. QED BY <1>1, <1>2, <1>3, <1>4 DEF Next

(* The scheduler, lock by lock and for every number of CPUs and processes,  *)
(* implements the abstract life of processes: only legal transitions, first *)
(* come first served, one process per CPU.                                  *)
THEOREM SchedulerImplementsLifecycle == Spec => ImplementsLifecycle
<1>. QED BY InvariantHolds, InitImplements, NextImplements, PTL
         DEF Spec, ImplementsLifecycle, Life!Spec
=============================================================================

------------------------------ MODULE Scheduler ------------------------------
(***************************************************************************)
(* The CPU scheduler (os_scheduler_simulator/src/scheduler.c): the ready   *)
(* queue behind ready_mutex, the current[] array behind current_mutex, and *)
(* the five handlers idle, preempt, yield, terminate and wake_up that CPU  *)
(* threads and the supervisor thread run concurrently.                     *)
(*                                                                         *)
(* Every section of the code that runs under one mutex is one action, so   *)
(* the handlers interleave exactly where the code releases a lock.  The    *)
(* clients are as free as the handlers' comments allow: a CPU with a       *)
(* process may report any of the three events, a CPU without one idles,    *)
(* and a process that was never admitted or that waits for I/O may be      *)
(* woken at any time.  OSSim.tla replaces them by the simulator's threads. *)
(*                                                                         *)
(* The queue is a sequence here; ReadyQueue.tla runs the linked list of    *)
(* the code beside it.                                                     *)
(***************************************************************************)
EXTENDS Naturals, Sequences, FiniteSets

CONSTANTS CPU, Proc, NoProc,
          SpuriousWakeups   \* may pthread_cond_wait return without a signal?

ASSUME SchedulerAssumption == /\ NoProc \notin Proc
                              /\ SpuriousWakeups \in BOOLEAN
                              /\ IsFiniteSet(CPU)

VARIABLES
  readyQueue,   \* ready_head .. ready_tail, as a sequence
  current,      \* current[c]
  procState,    \* processes[p].state
  simCurrent,   \* simulator_cpu_data[c].current: what context_switch() tells the simulator
  pc,           \* where CPU thread c is in the handlers
  local         \* preempted_process / next_process of the handler CPU c is in

vars == <<readyQueue, current, procState, simCurrent, pc, local>>

ProcStates == {"NEW", "READY", "RUNNING", "WAITING", "TERMINATED"}

(* "outside" is outside every handler; "asleep" is inside pthread_cond_wait *)
(* on ready_not_empty, "woken" is signalled but without the mutex yet.      *)
Locations == {"outside", "asleep", "woken", "requeue", "dequeue", "install", "switch"}

TypeOK == /\ readyQueue \in Seq(Proc)
          /\ current \in [CPU -> Proc \cup {NoProc}]
          /\ procState \in [Proc -> ProcStates]
          /\ simCurrent \in [CPU -> Proc \cup {NoProc}]
          /\ pc \in [CPU -> Locations]
          /\ local \in [CPU -> Proc \cup {NoProc}]

Init == /\ readyQueue = <<>>
        /\ current = [c \in CPU |-> NoProc]
        /\ procState = [p \in Proc |-> "NEW"]
        /\ simCurrent = [c \in CPU |-> NoProc]
        /\ pc = [c \in CPU |-> "outside"]
        /\ local = [c \in CPU |-> NoProc]

-----------------------------------------------------------------------------

Asleep == {c \in CPU : pc[c] = "asleep"}

(* pthread_cond_signal(&ready_not_empty): of the CPUs blocked in idle(), if *)
(* there are any, one is woken; the thread locations that may result.       *)
Signal(locations) ==
  IF Asleep = {} THEN {locations}
                 ELSE {[locations EXCEPT ![w] = "woken"] : w \in Asleep}

(* Variants of MakeReady, for mutation: no signal, the state not updated,   *)
(* the process put at the front of the queue.                               *)
MakeReadyNoSignal(p, locations) ==
  /\ procState' = [procState EXCEPT ![p] = "READY"]
  /\ readyQueue' = Append(readyQueue, p)
  /\ pc' = locations

MakeReadyNoState(p, locations) ==
  /\ readyQueue' = Append(readyQueue, p)
  /\ pc' \in Signal(locations)
  /\ UNCHANGED procState

MakeReadyFront(p, locations) ==
  /\ procState' = [procState EXCEPT ![p] = "READY"]
  /\ readyQueue' = <<p>> \o readyQueue
  /\ pc' \in Signal(locations)

(* The ready_mutex section that wake_up() and preempt() have in common.     *)
MakeReady(p, locations) ==
  /\ procState' = [procState EXCEPT ![p] = "READY"]
  /\ readyQueue' = Append(readyQueue, p)
  /\ pc' \in Signal(locations)

(* idle(): leave the while loop once the queue is not empty.  The test is   *)
(* made on entry and again after each wakeup.                               *)
IdleTest(c) ==
  /\ pc' = [pc EXCEPT ![c] = IF readyQueue = <<>> THEN "asleep" ELSE "dequeue"]
  /\ UNCHANGED <<readyQueue, current, procState, simCurrent, local>>

Idle(c) == pc[c] = "outside" /\ IdleTest(c)

IdleResume(c) == pc[c] = "woken" /\ IdleTest(c)

(* Variant of PreemptTake, for mutation: current[] keeps the process.       *)
PreemptTakeNoReset(c) ==
  /\ pc[c] = "outside"
  /\ local' = [local EXCEPT ![c] = current[c]]
  /\ pc' = [pc EXCEPT ![c] = IF current[c] # NoProc THEN "requeue" ELSE "dequeue"]
  /\ UNCHANGED <<readyQueue, current, procState, simCurrent>>

(* preempt(), current_mutex section: take the process off the CPU.          *)
PreemptTake(c) ==
  /\ pc[c] = "outside"
  /\ local' = [local EXCEPT ![c] = current[c]]
  /\ current' = [current EXCEPT ![c] = NoProc]
  /\ pc' = [pc EXCEPT ![c] = IF current[c] # NoProc THEN "requeue" ELSE "dequeue"]
  /\ UNCHANGED <<readyQueue, procState, simCurrent>>

(* Variant of PreemptRequeue, for mutation: it enqueues current[c], already *)
(* NULL, instead of the process it saved.                                   *)
PreemptRequeueCurrent(c) ==
  /\ pc[c] = "requeue"
  /\ MakeReady(current[c], [pc EXCEPT ![c] = "dequeue"])
  /\ local' = [local EXCEPT ![c] = NoProc]
  /\ UNCHANGED <<current, simCurrent>>

(* preempt(), ready_mutex section: put it at the end of the ready queue.    *)
PreemptRequeue(c) ==
  /\ pc[c] = "requeue"
  /\ MakeReady(local[c], [pc EXCEPT ![c] = "dequeue"])
  /\ local' = [local EXCEPT ![c] = NoProc]
  /\ UNCHANGED <<current, simCurrent>>

(* yield() and terminate(), current_mutex section: they differ in the state *)
(* they leave the process in.                                               *)
Release(c, state) ==
  /\ pc[c] = "outside"
  /\ IF current[c] # NoProc
     THEN procState' = [procState EXCEPT ![current[c]] = state]
     ELSE UNCHANGED procState
  /\ current' = [current EXCEPT ![c] = NoProc]
  /\ pc' = [pc EXCEPT ![c] = "dequeue"]
  /\ UNCHANGED <<readyQueue, simCurrent, local>>

(* Variant of Yield, for mutation: the process stays ready.                 *)
YieldReady(c) == Release(c, "READY")

Yield(c) == Release(c, "WAITING")

Terminate(c) == Release(c, "TERMINATED")

(* Variant of Dequeue, for mutation: the head pointer does not move.        *)
DequeueNoRemove(c) ==
  /\ pc[c] = "dequeue"
  /\ local' = [local EXCEPT ![c] = IF readyQueue = <<>> THEN NoProc ELSE Head(readyQueue)]
  /\ pc' = [pc EXCEPT ![c] = "install"]
  /\ UNCHANGED <<readyQueue, current, procState, simCurrent>>

(* schedule(), ready_mutex section: dequeue_process(), NULL when another    *)
(* CPU emptied the queue first.                                             *)
Dequeue(c) ==
  /\ pc[c] = "dequeue"
  /\ IF readyQueue = <<>>
     THEN local' = [local EXCEPT ![c] = NoProc] /\ UNCHANGED readyQueue
     ELSE /\ local' = [local EXCEPT ![c] = Head(readyQueue)]
          /\ readyQueue' = Tail(readyQueue)
  /\ pc' = [pc EXCEPT ![c] = "install"]
  /\ UNCHANGED <<current, procState, simCurrent>>

(* schedule(), current_mutex section.                                       *)
Install(c) ==
  /\ pc[c] = "install"
  /\ current' = [current EXCEPT ![c] = local[c]]
  /\ IF local[c] # NoProc
     THEN procState' = [procState EXCEPT ![local[c]] = "RUNNING"]
     ELSE UNCHANGED procState
  /\ pc' = [pc EXCEPT ![c] = "switch"]
  /\ UNCHANGED <<readyQueue, simCurrent, local>>

(* Variant of ContextSwitch, for mutation: only processes are handed over,  *)
(* not NULL.                                                                *)
ContextSwitchNoIdle(c) ==
  /\ pc[c] = "switch"
  /\ simCurrent' = [simCurrent EXCEPT ![c] = IF local[c] # NoProc THEN local[c] ELSE @]
  /\ local' = [local EXCEPT ![c] = NoProc]
  /\ pc' = [pc EXCEPT ![c] = "outside"]
  /\ UNCHANGED <<readyQueue, current, procState>>

(* schedule(): context_switch() hands the choice to the simulator and the   *)
(* handler returns.                                                         *)
ContextSwitch(c) ==
  /\ pc[c] = "switch"
  /\ simCurrent' = [simCurrent EXCEPT ![c] = local[c]]
  /\ local' = [local EXCEPT ![c] = NoProc]
  /\ pc' = [pc EXCEPT ![c] = "outside"]
  /\ UNCHANGED <<readyQueue, current, procState>>

(* wake_up(), run by the supervisor thread: one ready_mutex section.        *)
WakeUp(p) ==
  /\ MakeReady(p, pc)
  /\ UNCHANGED <<current, simCurrent, local>>

(* pthread_cond_wait may return without a signal.                           *)
SpuriousWakeup(c) ==
  /\ SpuriousWakeups
  /\ pc[c] = "asleep"
  /\ pc' = [pc EXCEPT ![c] = "woken"]
  /\ UNCHANGED <<readyQueue, current, procState, simCurrent, local>>

-----------------------------------------------------------------------------
(* The handlers and the clients the code's comments describe: the simulator *)
(* reports an event only on a CPU it has a process on, idles a CPU only     *)
(* when it has none, and wakes only processes that are new or waiting.      *)

HandlerStep(c) == IdleResume(c) \/ PreemptRequeue(c) \/ Dequeue(c) \/ Install(c) \/ ContextSwitch(c)

Event(c) == simCurrent[c] # NoProc /\ (PreemptTake(c) \/ Yield(c) \/ Terminate(c))

IdleCall(c) == simCurrent[c] = NoProc /\ Idle(c)

CpuStep(c) == HandlerStep(c) \/ Event(c) \/ IdleCall(c)

Admit(p) == procState[p] = "NEW" /\ WakeUp(p)

IoDone(p) == procState[p] = "WAITING" /\ WakeUp(p)

AllTerminated == \A p \in Proc : procState[p] = "TERMINATED"

(* The simulator exits once every process has terminated (os-sim.c:181).    *)
Exit == AllTerminated /\ UNCHANGED vars

Next == \/ \E c \in CPU : CpuStep(c) \/ SpuriousWakeup(c)
        \/ \E p \in Proc : Admit(p) \/ IoDone(p)
        \/ Exit

Spec == Init /\ [][Next]_vars

(* Every CPU thread keeps running, whatever the others do: the mutexes are  *)
(* held for a few instructions only, and a process has finitely many ticks  *)
(* to run before its slice, its burst or its program ends.                  *)
Fairness == \A c \in CPU : WF_vars(CpuStep(c))

FairSpec == Spec /\ Fairness

-----------------------------------------------------------------------------
(* Safety                                                                   *)

Within(q, p) == \E i \in 1..Len(q) : q[i] = p

Distinct(q) == \A i, j \in 1..Len(q) : q[i] = q[j] => i = j

Queued(p) == Within(readyQueue, p)

(* CPU c is devoted to p: p is its current process, or p has left the queue *)
(* for it, or p has left the CPU and not reached the queue yet.             *)
Holds(c, p) == current[c] = p \/ (local[c] = p /\ pc[c] \in {"requeue", "install"})

(* No process is in two places: not twice in the queue, not in the queue    *)
(* and on a CPU, not on two CPUs (enqueue_process and dequeue_process would *)
(* corrupt the list, two CPUs would run one process).                       *)
OnePlace ==
  /\ Distinct(readyQueue)
  /\ \A p \in Proc, c \in CPU : Holds(c, p) => ~Queued(p)
  /\ \A p \in Proc, c, d \in CPU : Holds(c, p) /\ Holds(d, p) => c = d

(* The state field agrees with the place although it is written under two   *)
(* different mutexes: READY exactly in the queue or between a CPU's dequeue *)
(* and install, RUNNING exactly on a CPU or between a CPU's take and        *)
(* requeue.  In particular no READY process is lost.                        *)
StateMatchesPlace ==
  \A p \in Proc :
    /\ procState[p] = "READY" <=>
         Queued(p) \/ \E c \in CPU : pc[c] = "install" /\ local[c] = p
    /\ procState[p] = "RUNNING" <=>
         \E c \in CPU : current[c] = p \/ (pc[c] = "requeue" /\ local[c] = p)

(* No wakeup of ready_not_empty is lost: while a CPU sleeps in idle(), each *)
(* ready process has a CPU of its own on the way to dequeue_process().      *)
OnTheWay == {c \in CPU : pc[c] \in {"woken", "dequeue"}}

NoLostWakeup == Asleep # {} => Len(readyQueue) <= Cardinality(OnTheWay)

(* Outside the handlers the simulator and the scheduler agree on what each  *)
(* CPU runs, so that the event a CPU reports is about the process the       *)
(* handler will find in current[].                                          *)
SimulatorAgrees == \A c \in CPU : pc[c] \in {"outside", "asleep", "woken"} =>
                                     simCurrent[c] = current[c]

(* What the handlers' local variables hold: nothing outside the handlers,   *)
(* and while a handler has the CPU's process in its hands, current[] is     *)
(* empty.                                                                   *)
LocalMatchesPc ==
  \A c \in CPU :
    /\ pc[c] \in {"outside", "asleep", "woken", "dequeue"} => local[c] = NoProc
    /\ pc[c] = "requeue" => local[c] # NoProc
    /\ pc[c] = "switch" => local[c] = current[c]
    /\ pc[c] \in {"asleep", "woken", "requeue", "dequeue", "install"} => current[c] = NoProc

(* The inductive invariant: none of its conjuncts is inductive alone.       *)
IInv == TypeOK /\ OnePlace /\ StateMatchesPlace /\ SimulatorAgrees /\ LocalMatchesPc

-----------------------------------------------------------------------------
(* Liveness                                                                 *)

(* A ready process is eventually given a CPU, whatever the number of CPUs   *)
(* and whichever CPUs sleep when it becomes ready.                          *)
ReadyRuns == \A p \in Proc : procState[p] = "READY" ~> procState[p] = "RUNNING"

-----------------------------------------------------------------------------
(* The scheduler implements the abstract life of processes: a process       *)
(* counts as running from the moment it leaves the queue until it is back   *)
(* in it.                                                                   *)
Devoted(c) == IF pc[c] \in {"requeue", "install"} THEN local[c] ELSE current[c]

Stage(p) == IF \E c \in CPU : pc[c] = "install" /\ local[c] = p
            THEN "RUNNING" ELSE procState[p]

Life == INSTANCE ProcessLifecycle
          WITH stage <- [p \in Proc |-> Stage(p)],
               fifo <- readyQueue,
               running <- [c \in CPU |-> Devoted(c)]

(* Processes live as ProcessLifecycle says: legal transitions only, FIFO    *)
(* service, one process per CPU.                                            *)
ImplementsLifecycle == Life!Spec
=============================================================================

--------------------------- MODULE ProcessLifecycle ---------------------------
(***************************************************************************)
(* What the multiprocessor scheduler of os_scheduler_simulator promises,   *)
(* with no threads, no locks and no intermediate states: every process is  *)
(* in one stage of its life, ready processes are served in the order in    *)
(* which they became ready, and a CPU runs at most one process.            *)
(*                                                                         *)
(* Scheduler.tla (the code, lock by lock) implements this specification.   *)
(***************************************************************************)
EXTENDS Sequences

CONSTANTS Proc,    \* the processes of the simulation (pcb_t)
          CPU,     \* the simulated CPUs
          NoProc   \* the NULL process, not in Proc

VARIABLES stage,   \* stage[p]: where p is in its life
          fifo,    \* the ready processes, longest waiting first
          running  \* running[c]: the process CPU c is devoted to, or NoProc

vars == <<stage, fifo, running>>

Stages == {"NEW", "READY", "RUNNING", "WAITING", "TERMINATED"}

TypeOK == /\ stage \in [Proc -> Stages]
          /\ fifo \in Seq(Proc)
          /\ running \in [CPU -> Proc \cup {NoProc}]

Init == /\ stage = [p \in Proc |-> "NEW"]
        /\ fifo = <<>>
        /\ running = [c \in CPU |-> NoProc]

(* A process is created, or its I/O completes. *)
BecomeReady(p) == /\ stage[p] \in {"NEW", "WAITING"}
                  /\ stage' = [stage EXCEPT ![p] = "READY"]
                  /\ fifo' = Append(fifo, p)
                  /\ UNCHANGED running

(* A free CPU takes the process that has been ready the longest. *)
Dispatch(c) == /\ running[c] = NoProc
               /\ fifo # <<>>
               /\ running' = [running EXCEPT ![c] = Head(fifo)]
               /\ stage' = [stage EXCEPT ![Head(fifo)] = "RUNNING"]
               /\ fifo' = Tail(fifo)

(* The time slice is over: back to the end of the line. *)
Preempt(c) == /\ running[c] # NoProc
              /\ stage' = [stage EXCEPT ![running[c]] = "READY"]
              /\ fifo' = Append(fifo, running[c])
              /\ running' = [running EXCEPT ![c] = NoProc]

(* The process gives up its CPU: for an I/O request, or for good. *)
Leave(c, next) == /\ running[c] # NoProc
                  /\ stage' = [stage EXCEPT ![running[c]] = next]
                  /\ running' = [running EXCEPT ![c] = NoProc]
                  /\ UNCHANGED fifo

Next == \/ \E p \in Proc : BecomeReady(p)
        \/ \E c \in CPU : \/ Dispatch(c)
                          \/ Preempt(c)
                          \/ Leave(c, "WAITING")
                          \/ Leave(c, "TERMINATED")

Spec == Init /\ [][Next]_vars
=============================================================================

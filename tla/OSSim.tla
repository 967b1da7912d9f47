-------------------------------- MODULE OSSim --------------------------------
(***************************************************************************)
(* The operating system simulation (os_scheduler_simulator/src/os-sim.c)   *)
(* around the scheduler of Scheduler.tla: one thread per simulated CPU,    *)
(* which waits while its process is "simulated" and then calls the handler *)
(* it was told to, and the supervisor thread, which at every tick runs one *)
(* step of each process, of the I/O device and of process creation.        *)
(*                                                                         *)
(* The threads meet in simulator_mutex, one condition variable per CPU     *)
(* (wakeup) and the inverted readers-writers lock scheduler_lock.  Each    *)
(* section under simulator_mutex, and each use of scheduler_lock, is an    *)
(* action; the scheduler's own sections are the actions of Scheduler.tla.  *)
(***************************************************************************)
EXTENDS Scheduler, Integers

CONSTANTS
  Program,        \* Program[p]: the operations of process p (process.c)
  TimeSlices,     \* what the command line may set time_slice to
  CreatePeriod    \* one process is created every CreatePeriod ticks (10 in the code)

OpTypes == {"CPU", "IO", "TERMINATE"}

(* A program alternates CPU bursts and I/O and ends with OP_TERMINATE after *)
(* a CPU burst (process.c:12-16).                                           *)
LegalProgram(ops) ==
  /\ ops \in Seq([type : OpTypes, time : Nat])
  /\ Len(ops) > 0 /\ Len(ops) % 2 = 0
  /\ \A i \in 1..Len(ops) :
       ops[i].type = IF i % 2 = 1 THEN "CPU" ELSE IF i < Len(ops) THEN "IO" ELSE "TERMINATE"

ASSUME OSSimAssumption ==
  /\ CPU = 1..Cardinality(CPU)
  /\ IsFiniteSet(Proc) /\ Proc = 1..Cardinality(Proc)
  /\ TimeSlices \subseteq {-1} \cup (Nat \ {0})
  /\ CreatePeriod \in Nat \ {0}
  /\ \A p \in Proc : LegalProgram(Program[p])

VARIABLES
  timeSlice,   \* time_slice: -1 for FIFO, positive for round robin
  sup,         \* where the supervisor thread is
  n,           \* the CPU simulate_cpus() is at
  at,          \* at[c]: where CPU thread c is, outside the scheduler's own code
  called,      \* called[c]: the CPU thread's copy of its state: the handler to call
  cpuState,    \* simulator_cpu_data[c].state
  timer,       \* simulator_cpu_data[c].preemption_timer; -1 stands for every negative value
  ip,          \* ip[p]: the index of the operation pcb->pc points to
  left,        \* left[p]: what remains of its time
  ioQueue,     \* io_queue_head .. io_queue_tail
  waking,      \* the process simulate_io() is about to wake
  terminated,  \* processes_terminated
  created,     \* processes_created
  tick,        \* simulator_time modulo CreatePeriod, until the last creation
  writers,     \* scheduler_lock.writers
  served,      \* history: has the handler of the last event run to its end?
  lost         \* history: has a CPU thread been told of an event before it waited?

simVars == <<sup, n, at, called, cpuState, timer, ip, left, ioQueue, waking,
             terminated, created, tick, writers, served, lost>>

allVars == <<vars, simVars, timeSlice>>

NumCpus == Cardinality(CPU)
NumProcs == Cardinality(Proc)

CpuStates == {"IDLE", "RUNNING", "PREEMPT", "YIELD", "TERMINATE"}

(* "noWriters" and "answer" are the supervisor's two condition variables;   *)
(* "answered" is past the second, without the mutex yet.                    *)
SupLocations == {"sleep", "print", "noWriters", "reading", "cpus", "answer", "answered",
                 "io", "ioWake", "ioRelock", "creat", "creatWake", "creatRelock", "exited"}

(* "simulated" is a CPU thread inside pthread_cond_wait on its wakeup.      *)
ThreadLocations == {"top", "simulated", "signalled", "count", "enter", "handler",
                    "unlocked", "relock", "leave"}

SimTypeOK ==
  /\ TypeOK
  /\ timeSlice \in TimeSlices
  /\ sup \in SupLocations
  /\ n \in 1..(NumCpus + 1)
  /\ at \in [CPU -> ThreadLocations]
  /\ called \in [CPU -> CpuStates \ {"RUNNING"}]
  /\ cpuState \in [CPU -> CpuStates]
  /\ timer \in [CPU -> -1..(IF timeSlice > 0 THEN timeSlice ELSE 0)]
  /\ \A p \in Proc : ip[p] \in 1..Len(Program[p]) /\ left[p] \in 0..Program[p][ip[p]].time
  /\ \A i \in 1..Len(ioQueue) : ioQueue[i] \in [proc : Proc, left : Nat]
  /\ waking \in Proc \cup {NoProc}
  /\ terminated \in 0..NumProcs
  /\ created \in 0..NumProcs
  /\ tick \in 0..(CreatePeriod - 1)
  /\ writers \in -NumCpus..NumCpus
  /\ served \in BOOLEAN /\ lost \in BOOLEAN

(* main() of scheduler.c: FIFO by default, or round robin with a positive   *)
(* time slice.                                                              *)
Options == timeSlice \in TimeSlices

(* start_simulator()                                                        *)
SimInit ==
  /\ Init
  /\ Options
  /\ sup = "sleep" /\ n = 1
  /\ at = [c \in CPU |-> "top"]
  /\ called = [c \in CPU |-> "IDLE"]
  /\ cpuState = [c \in CPU |-> "IDLE"]
  /\ timer = [c \in CPU |-> -1]
  /\ ip = [p \in Proc |-> 1]
  /\ left = [p \in Proc |-> Program[p][1].time]
  /\ ioQueue = <<>> /\ waking = NoProc
  /\ terminated = 0 /\ created = 0 /\ tick = 0 /\ writers = 0
  /\ served = TRUE /\ lost = FALSE

-----------------------------------------------------------------------------
(* The locks                                                                *)

(* The supervisor keeps simulator_mutex except in these places; the other   *)
(* threads hold it within one action only.                                  *)
MutexFree == sup \in {"sleep", "answer", "answered", "ioWake", "ioRelock", "creatWake", "creatRelock"}

(* IRWL_READER_LOCK keeps the lock's inner mutex: writers wait for it.      *)
WriterLock == sup # "reading" /\ writers' = writers + 1 /\ UNCHANGED sup

WriterUnlock == /\ sup # "reading"
                /\ writers' = writers - 1
                /\ sup' = IF writers' = 0 /\ sup = "noWriters" THEN "print" ELSE sup

-----------------------------------------------------------------------------
(* The CPU threads: simulator_cpu_thread() and context_switch()             *)

Move(c, from, to) == at[c] = from /\ at' = [at EXCEPT ![c] = to]

simData == <<ip, left, ioQueue, waking, terminated, created, tick, lost>>

(* Variant of Answers, for mutation: any CPU's signal ends the wait, as with *)
(* one condition variable for all.                                          *)
AnswersAny(c) == sup = "answer"

(* The supervisor waits for CPU c to say that its scheduler has run.        *)
Answers(c) == sup = "answer" /\ n = c

(* The loop's mutex section up to the wait: tell the supervisor that the    *)
(* scheduler has run, and see what it chose.                                *)
LoopTop(c) ==
  /\ MutexFree
  /\ sup' = IF Answers(c) THEN "answered" ELSE sup
  /\ IF simCurrent[c] = NoProc
     THEN /\ Move(c, "top", "handler")
          /\ cpuState' = [cpuState EXCEPT ![c] = "IDLE"]
          /\ called' = [called EXCEPT ![c] = "IDLE"]
     ELSE /\ Move(c, "top", "simulated")
          /\ cpuState' = [cpuState EXCEPT ![c] = "RUNNING"]
          /\ UNCHANGED called
  /\ UNCHANGED <<vars, simData, n, timer, writers, served>>

(* The wait is over: the loop's test again, and the copy of the state.      *)
Awake(c) ==
  /\ MutexFree
  /\ IF cpuState[c] = "RUNNING"
     THEN Move(c, "signalled", "simulated") /\ UNCHANGED called
     ELSE /\ Move(c, "signalled", IF cpuState[c] = "TERMINATE" THEN "count" ELSE "enter")
          /\ called' = [called EXCEPT ![c] = cpuState[c]]
  /\ UNCHANGED <<vars, simData, sup, n, cpuState, timer, writers, served>>

(* CPU_TERMINATE: the process is counted before terminate() is called.      *)
CountTerminated(c) ==
  /\ MutexFree
  /\ Move(c, "count", "enter")
  /\ terminated' = terminated + 1
  /\ UNCHANGED <<vars, sup, n, called, cpuState, timer, ip, left, ioQueue, waking, created,
                 tick, writers, served, lost>>

EnterHandler(c) ==
  /\ Move(c, "enter", "handler")
  /\ WriterLock
  /\ UNCHANGED <<vars, simData, n, called, cpuState, timer, served>>

(* The scheduler's code: the first section of the handler that was asked    *)
(* for, or a later one.                                                     *)
InHandler(c) ==
  /\ at[c] = "handler"
  /\ \/ called[c] = "IDLE" /\ Idle(c)
     \/ called[c] = "PREEMPT" /\ PreemptTake(c)
     \/ called[c] = "YIELD" /\ Yield(c)
     \/ called[c] = "TERMINATE" /\ Terminate(c)
     \/ IdleResume(c) \/ PreemptRequeue(c) \/ Dequeue(c) \/ Install(c)
  /\ UNCHANGED simVars

(* context_switch(): the writer lock is given up around simulator_mutex --  *)
(* also by idle(), which does not hold it.                                  *)
SwitchUnlock(c) ==
  /\ pc[c] = "switch"
  /\ Move(c, "handler", "unlocked")
  /\ WriterUnlock
  /\ UNCHANGED <<vars, simData, n, called, cpuState, timer, served>>

(* Variant of SetTimer, for mutation: the timer is not restarted.           *)
SetTimerNever(c) == UNCHANGED timer

SetTimer(c) == timer' = [timer EXCEPT ![c] = timeSlice]

(* context_switch() itself: what the simulator will run, and for how long.   *)
SwitchProcess(c) ==
  /\ MutexFree
  /\ Move(c, "unlocked", "relock")
  /\ ContextSwitch(c)
  /\ SetTimer(c)
  /\ UNCHANGED <<simData, sup, n, called, cpuState, writers, served>>

(* Variant of SwitchRelock, for mutation: idle() does not take the lock that *)
(* it does not hold, but still gives it up.                                 *)
SwitchRelockNotIdle(c) ==
  /\ Move(c, "relock", IF called[c] = "IDLE" THEN "top" ELSE "leave")
  /\ IF called[c] = "IDLE" THEN UNCHANGED <<sup, writers>> ELSE WriterLock
  /\ UNCHANGED <<vars, simData, n, called, cpuState, timer, served>>

SwitchRelock(c) ==
  /\ Move(c, "relock", IF called[c] = "IDLE" THEN "top" ELSE "leave")
  /\ WriterLock
  /\ UNCHANGED <<vars, simData, n, called, cpuState, timer, served>>

LeaveHandler(c) ==
  /\ Move(c, "leave", "top")
  /\ WriterUnlock
  /\ served' = (served \/ c = n)
  /\ UNCHANGED <<vars, simData, n, called, cpuState, timer>>

ThreadStep(c) ==
  /\ sup # "exited"
  /\ \/ LoopTop(c) \/ Awake(c) \/ CountTerminated(c) \/ EnterHandler(c) \/ InHandler(c)
     \/ SwitchUnlock(c) \/ SwitchProcess(c) \/ SwitchRelock(c) \/ LeaveHandler(c)
  /\ UNCHANGED timeSlice

-----------------------------------------------------------------------------
(* The supervisor thread                                                    *)

Goto(from, to) == sup = from /\ sup' = to

threadVars == <<called, writers>>

(* Variant of AllEnded, for mutation: one process too few is waited for.     *)
AllEndedEarly == terminated >= NumProcs - 1

AllEnded == terminated >= NumProcs

(* A tick begins, or the simulation ends.                                   *)
BeginTick ==
  /\ Goto("sleep", IF AllEnded THEN "exited" ELSE "print")
  /\ UNCHANGED <<vars, simData, threadVars, n, at, cpuState, timer, served>>

(* print_gantt_line(): IRWL_READER_LOCK, its loop's test ...                *)
ReaderLock ==
  /\ Goto("print", IF writers > 0 THEN "noWriters" ELSE "reading")
  /\ UNCHANGED <<vars, simData, threadVars, n, at, cpuState, timer, served>>

(* ... and IRWL_READER_UNLOCK once the process states have been counted.    *)
ReaderUnlock ==
  /\ Goto("reading", "cpus")
  /\ n' = 1
  /\ UNCHANGED <<vars, simData, threadVars, at, cpuState, timer, served>>

(* Tell CPU thread c what happened, and wait until its scheduler has run.   *)
(* A thread that comes from idle() with a process may not have reached its  *)
(* wait yet: then the event is lost, because the thread sets cpuState to    *)
(* RUNNING on its way there (os-sim.c:242), answering what it has not seen. *)
Dispatch(c, event) ==
  /\ sup' = "answer"
  /\ cpuState' = [cpuState EXCEPT ![c] = event]
  /\ at' = [at EXCEPT ![c] = IF @ = "simulated" THEN "signalled" ELSE @]
  /\ served' = FALSE
  /\ lost' = (lost \/ at[c] \notin {"simulated", "signalled"})
  /\ UNCHANGED n

NextCpu == sup' = "cpus" /\ n' = n + 1 /\ UNCHANGED <<at, cpuState, served, lost>>

Op(p) == Program[p][ip[p]]

Advance(p) == /\ ip' = [ip EXCEPT ![p] = @ + 1]
              /\ left' = [left EXCEPT ![p] = Program[p][ip[p] + 1].time]

(* Variant of Expired, for mutation: a negative timer has expired as well.   *)
ExpiredNegative(remaining) == remaining <= 0

(* The timer, decremented, is 0: never when it started from -1.             *)
Expired(remaining) == remaining = 0

(* simulate_process(), a CPU burst that is not over.                        *)
RunBurst(c, p) ==
  LET remaining == IF timer[c] < 0 THEN -1 ELSE timer[c] - 1
  IN /\ Op(p).type = "CPU" /\ left[p] > 0
     /\ left' = [left EXCEPT ![p] = @ - 1]
     /\ timer' = [timer EXCEPT ![c] = remaining]
     /\ IF Expired(remaining) THEN Dispatch(c, "PREEMPT") ELSE NextCpu
     /\ UNCHANGED <<ip, ioQueue>>

(* submit_io_request()                                                      *)
SubmitIo(p, time) == ioQueue' = Append(ioQueue, [proc |-> p, left |-> time])

(* simulate_process(), the end of a CPU burst: I/O or the end.              *)
EndBurst(c, p) ==
  /\ Op(p).type = "CPU" /\ left[p] = 0
  /\ Advance(p)
  /\ LET op == Program[p][ip[p] + 1]
     IN IF op.type = "IO"
        THEN SubmitIo(p, op.time) /\ Dispatch(c, "YIELD")
        ELSE UNCHANGED ioQueue /\ Dispatch(c, "TERMINATE")
  /\ UNCHANGED timer

(* simulate_process(), "Scheduled a process that's blocked on I/0!" and     *)
(* "Scheduled a terminated process!": nothing but a message.                *)
ReportBlocked(p) ==
  /\ Op(p).type # "CPU"
  /\ NextCpu
  /\ UNCHANGED <<timer, ip, left, ioQueue>>

(* simulate_cpus(), one round of its loop.                                  *)
SimulateCpu ==
  /\ sup = "cpus" /\ n \in CPU
  /\ IF simCurrent[n] = NoProc
     THEN NextCpu /\ UNCHANGED <<timer, ip, left, ioQueue>>
     ELSE \/ RunBurst(n, simCurrent[n])
          \/ EndBurst(n, simCurrent[n])
          \/ ReportBlocked(simCurrent[n])
  /\ UNCHANGED <<vars, threadVars, waking, terminated, created, tick>>

CpusDone ==
  /\ n \notin CPU
  /\ Goto("cpus", "io")
  /\ UNCHANGED <<vars, simData, threadVars, n, at, cpuState, timer, served>>

(* The wait for the CPU's answer is over; there is no test around it.       *)
Answered ==
  /\ Goto("answered", "cpus")
  /\ n' = n + 1
  /\ UNCHANGED <<vars, simData, threadVars, at, cpuState, timer, served>>

supOther == <<threadVars, n, at, cpuState, timer, terminated, served, lost>>

(* simulate_io(): one tick of the request at the head of the I/O queue, and *)
(* when it has no time left, its completion: the request is removed before  *)
(* the mutex is released.                                                   *)
SimulateIo ==
  /\ IF ioQueue = <<>>
     THEN Goto("io", "creat") /\ UNCHANGED <<ip, left, ioQueue, waking>>
     ELSE IF Head(ioQueue).left > 0
     THEN /\ Goto("io", "creat")
          /\ ioQueue' = [ioQueue EXCEPT ![1].left = @ - 1]
          /\ UNCHANGED <<ip, left, waking>>
     ELSE /\ Goto("io", "ioWake")
          /\ waking' = Head(ioQueue).proc
          /\ Advance(waking')
          /\ ioQueue' = Tail(ioQueue)
  /\ UNCHANGED <<vars, supOther, created, tick>>

(* wake_up(), without the mutex, between IRWL_WRITER_LOCK and _UNLOCK.  The *)
(* only thread that ever waits for the writers is this one, so that its own *)
(* count is never seen.                                                     *)
IoWakeUp ==
  /\ Goto("ioWake", "ioRelock")
  /\ WakeUp(waking)
  /\ waking' = NoProc
  /\ UNCHANGED <<supOther, ip, left, ioQueue, created, tick>>

IoRelock ==
  /\ Goto("ioRelock", "creat")
  /\ UNCHANGED <<vars, supOther, ip, left, ioQueue, waking, created, tick>>

(* simulator_time only matters until the last process is created.           *)
NextTick == tick' = IF created' = NumProcs THEN 0 ELSE (tick + 1) % CreatePeriod

(* Variant of CreationDue, for mutation: one process too many.              *)
CreationDueOneMore == tick = 0 /\ created <= NumProcs

CreationDue == tick = 0 /\ created < NumProcs

(* simulate_creat() and the end of the tick.                                *)
SimulateCreat ==
  /\ IF CreationDue
     THEN Goto("creat", "creatWake") /\ UNCHANGED <<created, tick>>
     ELSE Goto("creat", "sleep") /\ UNCHANGED created /\ NextTick
  /\ UNCHANGED <<vars, supOther, ip, left, ioQueue, waking>>

CreatWakeUp ==
  /\ Goto("creatWake", "creatRelock")
  /\ WakeUp(created + 1)
  /\ UNCHANGED <<supOther, ip, left, ioQueue, waking, created, tick>>

(* Variant of CountCreated, for mutation: no process is counted.            *)
CountCreatedNot == UNCHANGED created

CountCreated == created' = created + 1

CreatRelock ==
  /\ Goto("creatRelock", "sleep")
  /\ CountCreated
  /\ NextTick
  /\ UNCHANGED <<vars, supOther, ip, left, ioQueue, waking>>

SupervisorStep ==
  /\ \/ BeginTick \/ ReaderLock \/ ReaderUnlock \/ SimulateCpu \/ CpusDone \/ Answered
     \/ SimulateIo \/ IoWakeUp \/ IoRelock \/ SimulateCreat \/ CreatWakeUp \/ CreatRelock
  /\ UNCHANGED timeSlice

-----------------------------------------------------------------------------

(* pthread_cond_wait may return without a signal.  The waits that sit in a  *)
(* loop must withstand it; the supervisor's wait for an answer, which sits  *)
(* in none, is taken to end by a signal only.                               *)
SpuriousWait ==
  /\ SpuriousWakeups
  /\ sup # "exited" /\ UNCHANGED timeSlice
  /\ \/ \E c \in CPU : SpuriousWakeup(c) /\ UNCHANGED simVars
     \/ \E c \in CPU : Move(c, "simulated", "signalled") /\ UNCHANGED sup
          /\ UNCHANGED <<vars, simData, n, called, cpuState, timer, writers, served>>
     \/ Goto("noWriters", "print")
          /\ UNCHANGED <<vars, simData, n, at, called, cpuState, timer, writers, served>>

Exited == sup = "exited" /\ UNCHANGED allVars

SimNext == (\E c \in CPU : ThreadStep(c)) \/ SupervisorStep
           \/ SpuriousWait \/ Exited

SimSpec == SimInit /\ [][SimNext]_allVars

(* The operating system schedules every thread, and a thread that keeps     *)
(* finding simulator_mutex or scheduler_lock taken gets it in the end: the  *)
(* supervisor gives both up at every tick, and sleeps.                      *)
SimFairness == /\ \A c \in CPU : SF_allVars(ThreadStep(c))
               /\ WF_allVars(SupervisorStep)

SimFairSpec == SimSpec /\ SimFairness

-----------------------------------------------------------------------------
(* Safety, as long as no event has been lost.  After that, each of these    *)
(* properties but the type invariant and LockBalanced can fail; and a ready *)
(* queue to which a process was added twice is no longer a sequence.        *)

(* "Ensure the scheduler gets run before the simulator" (os-sim.c:483, 504, *)
(* 515): when the supervisor resumes after an event, the handler of that    *)
(* event has run to its end.                                                *)
SchedulerRanFirst == ~lost /\ sup = "answered" => served

(* The supervisor never finds a process on a CPU that is blocked on I/O or  *)
(* has terminated: the two messages of simulate_process() are never printed.*)
NeverScheduledBlocked ==
  ~lost /\ sup = "cpus" /\ n \in CPU /\ simCurrent[n] # NoProc => Op(simCurrent[n]).type = "CPU"

(* No process is simulated on two CPUs in one tick.                         *)
NoDoubleSimulation ==
  ~lost /\ sup = "cpus" => \A c, d \in CPU : simCurrent[c] = simCurrent[d] /\ simCurrent[c] # NoProc => c = d

(* A process waits for I/O exactly while it has one request in the queue    *)
(* (seen from the supervisor, at the points where it works on that queue).  *)
IoQueueMatchesWaiting ==
  ~lost /\ sup \in {"io", "creat"} =>
    /\ \A i, j \in 1..Len(ioQueue) : ioQueue[i].proc = ioQueue[j].proc => i = j
    /\ \A p \in Proc : procState[p] = "WAITING" <=> \E i \in 1..Len(ioQueue) : ioQueue[i].proc = p

(* A time slice is never overrun: no process is simulated on a CPU whose    *)
(* round-robin timer has expired.                                           *)
SliceHonoured ==
  ~lost /\ timeSlice > 0 /\ sup = "cpus" /\ n \in CPU /\ simCurrent[n] # NoProc => timer[n] > 0

(* The simulation ends only when every process has been through terminate() *)
(* although processes_terminated is incremented before the handler runs.    *)
ExitsWhenDone == ~lost /\ sup = "exited" => AllTerminated

(* context_switch() gives the writer lock back and takes it again, also for *)
(* idle(), which has not taken it before and does not give it back after:   *)
(* when every CPU thread is outside the handlers or asleep in idle(), no    *)
(* count is left in scheduler_lock, or the reader would wait for ever, or   *)
(* never again (os-sim.c:255-258, 394-399).                                 *)
LockBalanced ==
  (\A c \in CPU : at[c] = "handler" => pc[c] \in {"outside", "asleep", "woken"} /\ called[c] = "IDLE")
  /\ (\A c \in CPU : at[c] \notin {"unlocked", "relock", "leave"})
  => writers = 0

(* The threads use the scheduler as its handlers expect: an event is        *)
(* reported on the CPU that runs the process, a process is woken only when  *)
(* it is new or waits (so it is never in the queue twice).                  *)
ImplementsScheduler == Init /\ [][lost \/ Next]_vars

(* Under FIFO scheduling a process leaves its CPU only for I/O or for good. *)
FifoRunsToBlock ==
  [][~lost /\ timeSlice = -1 =>
       \A p \in Proc : procState[p] = "RUNNING" => procState'[p] \in {"RUNNING", "WAITING", "TERMINATED"}
    ]_allVars

(* The first event that is lost is one for a thread that comes from idle(): *)
(* a thread that the supervisor waited for is at its wait again in time.    *)
OnlyIdleLosesEvents == [][~lost /\ lost' => called[n] = "IDLE"]_allVars

-----------------------------------------------------------------------------
(* Liveness                                                                 *)

(* Every process runs its program to the end, and the simulation exits.     *)
Terminates == <>(sup = "exited")

(* The same, unless an event is lost.                                       *)
TerminatesUnlessLost == <>(lost \/ sup = "exited")
=============================================================================

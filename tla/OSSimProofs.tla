------------------------------ MODULE OSSimProofs ------------------------------
(***************************************************************************)
(* Proofs about the operating system simulation, for any number of CPUs    *)
(* and processes, any programs and any time slices.                        *)
(***************************************************************************)
EXTENDS OSSim, SchedulerProofs

(* An event that CPU thread c has been told of, until the scheduler's choice *)
(* is handed over, and then until the handler returns.                       *)
Pending(c) == \/ at[c] = "signalled" /\ cpuState[c] # "RUNNING"
              \/ at[c] \in {"count", "enter"}
              \/ at[c] \in {"handler", "unlocked"} /\ called[c] # "IDLE"

Returning(c) == at[c] \in {"relock", "leave", "top"} /\ called[c] # "IDLE"

(* The event e is reported on CPU c and its handler has not yet acted on it. *)
Unserved(c, e) == /\ Pending(c) /\ pc[c] = "outside"
                  /\ e = IF at[c] = "signalled" THEN cpuState[c] ELSE called[c]

(* Where a thread is in the simulator's code tells where it is in the        *)
(* scheduler's, and what it runs.                                            *)
ThreadOK(c) ==
  /\ at[c] \notin {"handler", "unlocked"} => pc[c] = "outside"
  /\ at[c] = "unlocked" => pc[c] = "switch"
  /\ at[c] = "simulated" => cpuState[c] = "RUNNING"
  /\ at[c] = "signalled" => cpuState[c] # "IDLE"
  /\ at[c] \in {"count", "enter", "leave"} => called[c] # "IDLE"
  /\ at[c] = "count" => called[c] = "TERMINATE"
  /\ at[c] \in {"simulated", "signalled"} \/ Pending(c) => simCurrent[c] # NoProc
  /\ at[c] \in {"handler", "unlocked"} /\ called[c] = "IDLE" => simCurrent[c] = NoProc

Threads == \A c \in CPU : ThreadOK(c)

(* The supervisor waits for the one CPU that it has told of an event.        *)
Handshake ==
  /\ \A c \in CPU : Pending(c) \/ Returning(c) => sup = "answer" /\ n = c
  /\ sup = "answer" => /\ n \in CPU
                       /\ Pending(n) \/ Returning(n)
                       /\ at[n] = "top" => served
  /\ sup = "answered" => n \in CPU /\ served

InIo(p) == \E i \in 1..Len(ioQueue) : ioQueue[i].proc = p

OneRequest == \A i, j \in 1..Len(ioQueue) : ioQueue[i].proc = ioQueue[j].proc => i = j

(* A process has an operation of I/O before it when it waits, unless it is   *)
(* about to be woken, or is about to yield; and the end when it has ended or *)
(* is about to.                                                              *)
Blocked(p) == \/ procState[p] = "WAITING" /\ waking # p
              \/ \E c \in CPU : Unserved(c, "YIELD") /\ current[c] = p

Ended(p) == \/ procState[p] = "TERMINATED"
            \/ \E c \in CPU : Unserved(c, "TERMINATE") /\ current[c] = p

Positions ==
  /\ OneRequest
  /\ \A p \in Proc : /\ Op(p).type = "IO" <=> InIo(p)
                     /\ Op(p).type = "IO" <=> Blocked(p)
                     /\ Op(p).type = "TERMINATE" <=> Ended(p)
  /\ IF sup = "ioWake" THEN waking \in Proc /\ procState[waking] = "WAITING"
                       ELSE waking = NoProc

(* The processes created, and those that have been counted as terminated.    *)
Creation ==
  /\ \A p \in Proc : procState[p] = "NEW" <=> p > IF sup = "creatRelock" THEN created + 1 ELSE created
  /\ sup \in {"creatWake", "creatRelock"} => created < NumProcs

Gone == {p \in Proc : \/ procState[p] = "TERMINATED"
                      \/ \E c \in CPU : /\ Unserved(c, "TERMINATE") /\ current[c] = p
                                        /\ at[c] \in {"enter", "handler"}}

EndedAtExit == sup = "exited" => AllTerminated

Termination == terminated = Cardinality(Gone) /\ EndedAtExit

(* Slices: a timer runs while its process does; under FIFO there is none.    *)
Slices ==
  /\ timeSlice > 0 => \A c \in CPU : simCurrent[c] # NoProc /\ ~Pending(c) => timer[c] > 0
  /\ timeSlice = -1 => \A c \in CPU : /\ timer[c] = -1 /\ pc[c] # "requeue"
                                      /\ "PREEMPT" \notin {cpuState[c], called[c]}

(* Who is counted in scheduler_lock, and who has been counted out without    *)
(* having been counted in.                                                   *)
CountedIn == {c \in CPU : at[c] \in {"handler", "leave"} /\ called[c] # "IDLE"}
CountedOut == {c \in CPU : at[c] \in {"unlocked", "relock"} /\ called[c] = "IDLE"}

LockCounted == writers = Cardinality(CountedIn) - Cardinality(CountedOut)

-----------------------------------------------------------------------------
(* The lock                                                                  *)

(* A thread that calls a handler for an event knows which; the others idle.  *)
Calls == /\ at \in [CPU -> ThreadLocations]
         /\ called \in [CPU -> CpuStates \ {"RUNNING"}]
         /\ cpuState \in [CPU -> CpuStates]
         /\ \A c \in CPU : /\ at[c] = "simulated" => cpuState[c] = "RUNNING"
                           /\ at[c] = "signalled" => cpuState[c] # "IDLE"
                           /\ at[c] \in {"count", "enter", "leave"} => called[c] # "IDLE"

LockInv == Calls /\ LockCounted

LEMMA Numbers ==
  /\ IsFiniteSet(CPU) /\ NumCpus \in Nat /\ CPU = 1..NumCpus
  /\ IsFiniteSet(Proc) /\ NumProcs \in Nat /\ Proc = 1..NumProcs
<1>1. IsFiniteSet(CPU) /\ IsFiniteSet(Proc)
  BY SchedulerAssumption, OSSimAssumption
<1>2. NumCpus \in Nat /\ NumProcs \in Nat
  BY <1>1, FS_CardinalityType DEF NumCpus, NumProcs
<1>. QED BY <1>1, <1>2, OSSimAssumption DEF NumCpus, NumProcs

LEMMA CallsStep == Calls /\ [SimNext]_allVars => Calls'
<1>. SUFFICES ASSUME Calls, [SimNext]_allVars PROVE Calls'
  OBVIOUS
<1>1. ASSUME NEW c \in CPU, LoopTop(c) PROVE Calls'
  BY <1>1 DEF LoopTop, Move, Calls, CpuStates, ThreadLocations
<1>2. ASSUME NEW c \in CPU, Awake(c) PROVE Calls'
  BY <1>2 DEF Awake, Move, Calls, CpuStates, ThreadLocations
<1>3. ASSUME NEW c \in CPU, CountTerminated(c) PROVE Calls'
  BY <1>3 DEF CountTerminated, Move, Calls, CpuStates, ThreadLocations
<1>4. ASSUME NEW c \in CPU, EnterHandler(c) PROVE Calls'
  BY <1>4 DEF EnterHandler, Move, Calls, CpuStates, ThreadLocations
<1>5. ASSUME NEW c \in CPU, InHandler(c) PROVE Calls'
  BY <1>5 DEF InHandler, simVars, Calls
<1>6. ASSUME NEW c \in CPU, SwitchUnlock(c) PROVE Calls'
  BY <1>6 DEF SwitchUnlock, Move, Calls, CpuStates, ThreadLocations
<1>7. ASSUME NEW c \in CPU, SwitchProcess(c) PROVE Calls'
  BY <1>7 DEF SwitchProcess, Move, Calls, CpuStates, ThreadLocations
<1>8. ASSUME NEW c \in CPU, SwitchRelock(c) PROVE Calls'
  BY <1>8 DEF SwitchRelock, Move, Calls, CpuStates, ThreadLocations
<1>9. ASSUME NEW c \in CPU, LeaveHandler(c) PROVE Calls'
  BY <1>9 DEF LeaveHandler, Move, Calls, CpuStates, ThreadLocations
<1>10. CASE SimulateCpu
  <2>1. \/ UNCHANGED <<at, cpuState>>
        \/ /\ n \in CPU
           /\ \E e \in {"PREEMPT", "YIELD", "TERMINATE"} :
                /\ cpuState' = [cpuState EXCEPT ![n] = e]
                /\ at' = [at EXCEPT ![n] = IF at[n] = "simulated" THEN "signalled" ELSE at[n]]
    BY <1>10 DEF SimulateCpu, NextCpu, RunBurst, EndBurst, ReportBlocked, Dispatch
  <2>2. called' = called
    BY <1>10 DEF SimulateCpu, threadVars
  <2>. QED BY <2>1, <2>2 DEF Calls, CpuStates, ThreadLocations
<1>11. CASE SupervisorStep /\ ~SimulateCpu
  <2>1. UNCHANGED <<at, called, cpuState>>
    BY <1>11 DEF SupervisorStep, BeginTick, ReaderLock, ReaderUnlock, CpusDone, Answered, SimulateIo,
         IoWakeUp, IoRelock, SimulateCreat, CreatWakeUp, CreatRelock, supOther, threadVars
  <2>. QED BY <2>1 DEF Calls
<1>12. CASE SpuriousWait
  BY <1>12 DEF SpuriousWait, Move, simVars, Calls, ThreadLocations, CpuStates
<1>13. CASE UNCHANGED allVars
  BY <1>13 DEF allVars, simVars, Calls
<1>. QED BY <1>1, <1>2, <1>3, <1>4, <1>5, <1>6, <1>7, <1>8, <1>9, <1>10, <1>11, <1>12, <1>13
       DEF SimNext, ThreadStep, Exited

LEMMA OneMore ==
  ASSUME NEW S \in SUBSET CPU, NEW T \in SUBSET CPU, NEW c \in T, c \notin S, T = S \cup {c}
  PROVE  Cardinality(S) \in Nat /\ Cardinality(T) = Cardinality(S) + 1
<1>1. IsFiniteSet(S) /\ Cardinality(S) \in Nat
  BY Numbers, FS_Subset, FS_CardinalityType
<1>. QED BY <1>1, FS_AddElement

LEMMA Counts ==
  /\ Cardinality(CountedIn) \in 0..NumCpus /\ Cardinality(CountedOut) \in 0..NumCpus
<1>1. ASSUME NEW S \in SUBSET CPU PROVE Cardinality(S) \in 0..NumCpus
  BY Numbers, FS_Subset, FS_CardinalityType DEF NumCpus
<1>. QED BY <1>1 DEF CountedIn, CountedOut

(* Each increment of the writers has its decrement, whether idle() or another *)
(* handler reaches context_switch().                                          *)
LEMMA LockStep == LockInv /\ [SimNext]_allVars => LockInv'
<1>. SUFFICES ASSUME LockInv, [SimNext]_allVars PROVE LockCounted'
  BY CallsStep DEF LockInv
<1>. USE DEF LockInv
<1>. DEFINE Same == CountedIn' = CountedIn /\ CountedOut' = CountedOut /\ writers' = writers
<1>1. /\ CountedIn \subseteq CPU /\ CountedOut \subseteq CPU
      /\ CountedIn' \subseteq CPU /\ CountedOut' \subseteq CPU
  BY DEF CountedIn, CountedOut
<1>2. /\ Cardinality(CountedIn) \in Nat /\ Cardinality(CountedOut) \in Nat
      /\ writers = Cardinality(CountedIn) - Cardinality(CountedOut)
  BY Numbers, Counts DEF LockCounted
<1>3. Same => LockCounted'
  BY DEF LockCounted
<1>. HIDE DEF Same
<1>4. ASSUME NEW c \in CPU, LoopTop(c) \/ Awake(c) \/ CountTerminated(c) PROVE LockCounted'
  <2>1. Same
    BY <1>4 DEF Same, LoopTop, Awake, CountTerminated, Move, Calls, CountedIn, CountedOut
  <2>. QED BY <2>1, <1>3
<1>5. ASSUME NEW c \in CPU, EnterHandler(c) PROVE LockCounted'
  <2>1. /\ c \notin CountedIn /\ c \in CountedIn' /\ CountedIn' = CountedIn \cup {c}
        /\ CountedOut' = CountedOut /\ writers' = writers + 1
    BY <1>5 DEF EnterHandler, WriterLock, Move, Calls, CountedIn, CountedOut
  <2>2. Cardinality(CountedIn') = Cardinality(CountedIn) + 1
    BY <1>1, <2>1, OneMore
  <2>. QED BY <1>2, <2>1, <2>2 DEF LockCounted
<1>6. ASSUME NEW c \in CPU, InHandler(c) PROVE LockCounted'
  <2>1. Same
    BY <1>6 DEF Same, InHandler, simVars, CountedIn, CountedOut
  <2>. QED BY <2>1, <1>3
<1>7. ASSUME NEW c \in CPU, SwitchUnlock(c) PROVE LockCounted'
  <2>0. writers' = writers - 1
    BY <1>7 DEF SwitchUnlock, WriterUnlock
  <2>1. CASE called[c] = "IDLE"
    <3>1. /\ c \notin CountedOut /\ c \in CountedOut' /\ CountedOut' = CountedOut \cup {c}
          /\ CountedIn' = CountedIn
      BY <1>7, <2>1 DEF SwitchUnlock, Move, Calls, CountedIn, CountedOut
    <3>2. Cardinality(CountedOut') = Cardinality(CountedOut) + 1
      BY <1>1, <3>1, OneMore
    <3>. QED BY <1>2, <2>0, <3>1, <3>2 DEF LockCounted
  <2>2. CASE called[c] # "IDLE"
    <3>1. /\ c \notin CountedIn' /\ c \in CountedIn /\ CountedIn = CountedIn' \cup {c}
          /\ CountedOut' = CountedOut
      BY <1>7, <2>2 DEF SwitchUnlock, Move, Calls, CountedIn, CountedOut
    <3>2. Cardinality(CountedIn') \in Nat /\ Cardinality(CountedIn) = Cardinality(CountedIn') + 1
      BY <1>1, <3>1, OneMore
    <3>. QED BY <1>2, <2>0, <3>1, <3>2 DEF LockCounted
  <2>. QED BY <2>1, <2>2
<1>8. ASSUME NEW c \in CPU, SwitchProcess(c) PROVE LockCounted'
  <2>1. Same
    BY <1>8 DEF Same, SwitchProcess, Move, Calls, CountedIn, CountedOut
  <2>. QED BY <2>1, <1>3
<1>9. ASSUME NEW c \in CPU, SwitchRelock(c) PROVE LockCounted'
  <2>0. writers' = writers + 1
    BY <1>9 DEF SwitchRelock, WriterLock
  <2>1. CASE called[c] = "IDLE"
    <3>1. /\ c \notin CountedOut' /\ c \in CountedOut /\ CountedOut = CountedOut' \cup {c}
          /\ CountedIn' = CountedIn
      BY <1>9, <2>1 DEF SwitchRelock, Move, Calls, CountedIn, CountedOut
    <3>2. Cardinality(CountedOut') \in Nat /\ Cardinality(CountedOut) = Cardinality(CountedOut') + 1
      BY <1>1, <3>1, OneMore
    <3>. QED BY <1>2, <2>0, <3>1, <3>2 DEF LockCounted
  <2>2. CASE called[c] # "IDLE"
    <3>1. /\ c \notin CountedIn /\ c \in CountedIn' /\ CountedIn' = CountedIn \cup {c}
          /\ CountedOut' = CountedOut
      BY <1>9, <2>2 DEF SwitchRelock, Move, Calls, CountedIn, CountedOut
    <3>2. Cardinality(CountedIn') = Cardinality(CountedIn) + 1
      BY <1>1, <3>1, OneMore
    <3>. QED BY <1>2, <2>0, <3>1, <3>2 DEF LockCounted
  <2>. QED BY <2>1, <2>2
<1>10. ASSUME NEW c \in CPU, LeaveHandler(c) PROVE LockCounted'
  <2>0. CountedOut' = CountedOut /\ writers' = writers - 1
    BY <1>10 DEF LeaveHandler, WriterUnlock, Move, Calls, CountedOut
  <2>1. c \notin CountedIn' /\ c \in CountedIn /\ CountedIn = CountedIn' \cup {c}
    BY <1>10 DEF LeaveHandler, Move, Calls, CountedIn
  <2>2. Cardinality(CountedIn') \in Nat /\ Cardinality(CountedIn) = Cardinality(CountedIn') + 1
    BY <1>1, <2>1, OneMore
  <2>. QED BY <1>2, <2>0, <2>2 DEF LockCounted
<1>11. CASE SupervisorStep
  <2>1. /\ called' = called /\ writers' = writers
        /\ \/ at' = at
           \/ n \in CPU /\ at' = [at EXCEPT ![n] = IF at[n] = "simulated" THEN "signalled" ELSE at[n]]
    BY <1>11 DEF SupervisorStep, BeginTick, ReaderLock, ReaderUnlock, CpusDone, Answered, SimulateIo,
         IoWakeUp, IoRelock, SimulateCreat, CreatWakeUp, CreatRelock, supOther, threadVars,
         SimulateCpu, NextCpu, RunBurst, EndBurst, ReportBlocked, Dispatch
  <2>2. Same
    BY <2>1 DEF Same, Calls, CountedIn, CountedOut
  <2>. QED BY <2>2, <1>3
<1>12. CASE SpuriousWait
  <2>1. Same
    BY <1>12 DEF Same, SpuriousWait, Move, simVars, Calls, CountedIn, CountedOut
  <2>. QED BY <2>1, <1>3
<1>13. CASE UNCHANGED allVars
  <2>1. Same
    BY <1>13 DEF Same, allVars, simVars, CountedIn, CountedOut
  <2>. QED BY <2>1, <1>3
<1>. QED BY <1>4, <1>5, <1>6, <1>7, <1>8, <1>9, <1>10, <1>11, <1>12, <1>13
       DEF SimNext, ThreadStep, Exited

LEMMA LockInvariance == SimSpec => []LockInv
<1>1. SimInit => LockInv
  <2>1. SimInit => CountedIn = {} /\ CountedOut = {} /\ writers = 0
    BY DEF SimInit, CountedIn, CountedOut
  <2>2. SimInit => Calls
    BY DEF SimInit, Calls, CpuStates, ThreadLocations
  <2>. QED BY <2>1, <2>2, FS_EmptySet DEF LockInv, LockCounted
<1>. QED BY <1>1, LockStep, PTL DEF SimSpec

(* scheduler_lock is given back exactly as often as it is taken, although   *)
(* idle() takes it in context_switch() only, after it has given it back     *)
(* there, and although threads leave their handlers in any order: when all  *)
(* are outside the handlers or asleep in idle(), the count is zero.         *)
THEOREM LockIsBalanced == SimSpec => []LockBalanced
<1>1. ASSUME LockInv, \A c \in CPU : at[c] = "handler" => called[c] = "IDLE",
             \A c \in CPU : at[c] \notin {"unlocked", "relock", "leave"}
      PROVE  writers = 0
  <2>1. CountedIn = {} /\ CountedOut = {}
    BY <1>1 DEF CountedIn, CountedOut
  <2>. QED BY <1>1, <2>1, FS_EmptySet DEF LockInv, LockCounted
<1>2. LockInv => LockBalanced
  BY <1>1 DEF LockBalanced
<1>. QED BY <1>2, LockInvariance, PTL

-----------------------------------------------------------------------------
(* The types. They are kept even after an event has been lost: an operation  *)
(* of I/O is asked for once, and a process has one end to be counted.        *)

DataOK ==
  /\ timeSlice \in TimeSlices
  /\ sup \in SupLocations /\ n \in 1..(NumCpus + 1) /\ served \in BOOLEAN
  /\ timer \in [CPU -> -1..(IF timeSlice > 0 THEN timeSlice ELSE 0)]
  /\ ip \in [Proc -> Nat] /\ left \in [Proc -> Nat]
  /\ \A p \in Proc : ip[p] \in 1..Len(Program[p]) /\ left[p] \in 0..Program[p][ip[p]].time
  /\ ioQueue \in Seq([proc : Proc, left : Nat])
  /\ waking \in Proc \cup {NoProc}
  /\ created \in 0..NumProcs /\ tick \in 0..(CreatePeriod - 1)

Asked == OneRequest /\ \A p \in Proc : Op(p).type = "IO" <=> InIo(p)

(* The processes at their end, and the threads that will count one.          *)
AtEnd == {p \in Proc : Op(p).type = "TERMINATE"}
Counting == {c \in CPU : at[c] = "count" \/ (at[c] = "signalled" /\ cpuState[c] = "TERMINATE")}

Counted == terminated \in Nat /\ terminated + Cardinality(Counting) <= Cardinality(AtEnd)

(* Where the supervisor is, what it holds is a CPU, or a process to wake.    *)
SupHolds == /\ sup \in {"answer", "answered"} => n \in CPU
            /\ sup = "ioWake" => waking \in Proc
            /\ sup \in {"creatWake", "creatRelock"} => created < NumProcs

SavedOK == \A c \in CPU : pc[c] = "requeue" => local[c] # NoProc

TypeInv == TypeOK /\ SavedOK /\ Calls /\ DataOK /\ SupHolds /\ Asked /\ Counted

(* A program alternates CPU bursts and I/O and ends after a burst.           *)
LEMMA ProgramShape ==
  ASSUME NEW p \in Proc
  PROVE  /\ Len(Program[p]) \in Nat \ {0} /\ Program[p][1].type = "CPU"
         /\ \A i \in 1..Len(Program[p]) :
              /\ Program[p][i].type \in OpTypes /\ Program[p][i].time \in Nat
              /\ Program[p][i].type = "CPU" =>
                   i + 1 \in 1..Len(Program[p]) /\ Program[p][i + 1].type \in {"IO", "TERMINATE"}
              /\ Program[p][i].type = "IO" =>
                   i + 1 \in 1..Len(Program[p]) /\ Program[p][i + 1].type = "CPU"
<1>. DEFINE ops == Program[p]
<1>1. LegalProgram(ops)
  BY OSSimAssumption
<1>2. ops \in Seq([type : OpTypes, time : Nat]) /\ Len(ops) > 0 /\ Len(ops) % 2 = 0
  BY <1>1 DEF LegalProgram
<1>3. Len(ops) \in Nat /\ \A i \in 1..Len(ops) : ops[i].type \in OpTypes /\ ops[i].time \in Nat
  <2>. DEFINE S == [type : OpTypes, time : Nat]
  <2>1. Len(ops) \in Nat /\ \A i \in 1..Len(ops) : ops[i] \in S
    <3>. HIDE DEF ops, S
    <3>. QED BY <1>2, LenProperties, ElementOfSeq DEF S
  <2>. QED BY <2>1
<1>4. \A i \in 1..Len(ops) :
        ops[i].type = IF i % 2 = 1 THEN "CPU" ELSE IF i < Len(ops) THEN "IO" ELSE "TERMINATE"
  BY <1>1 DEF LegalProgram
<1>. HIDE DEF ops
<1>5. \A k \in Nat : (k % 2 = 1 => (k + 1) % 2 = 0) /\ (k % 2 # 1 => (k + 1) % 2 = 1)
  OBVIOUS
<1>6. ASSUME NEW i \in 1..Len(ops), ops[i].type = "CPU"
      PROVE  i + 1 \in 1..Len(ops) /\ ops[i + 1].type \in {"IO", "TERMINATE"}
  <2>1. i % 2 = 1
    BY <1>4, <1>6
  <2>2. i + 1 \in 1..Len(ops) /\ (i + 1) % 2 = 0
    BY <1>2, <1>3, <1>5, <2>1
  <2>. QED BY <1>4, <2>2
<1>7. ASSUME NEW i \in 1..Len(ops), ops[i].type = "IO"
      PROVE  i + 1 \in 1..Len(ops) /\ ops[i + 1].type = "CPU"
  <2>1. i % 2 # 1 /\ i < Len(ops)
    BY <1>4, <1>7
  <2>2. i + 1 \in 1..Len(ops) /\ (i + 1) % 2 = 1
    BY <1>3, <1>5, <2>1
  <2>. QED BY <1>4, <2>2
<1>8. ops[1].type = "CPU" /\ Len(ops) # 0
  BY <1>2, <1>3, <1>4
<1>. QED BY <1>3, <1>6, <1>7, <1>8 DEF ops

(* The operation after a CPU burst is I/O or the end; the one after I/O is a *)
(* CPU burst.                                                                *)
LEMMA Advances ==
  ASSUME DataOK, NEW p \in Proc, Op(p).type \in {"CPU", "IO"}, Advance(p)
  PROVE  /\ ip'[p] = ip[p] + 1 /\ Op(p)' = Program[p][ip[p] + 1]
         /\ Op(p).type = "CPU" => Op(p)'.type \in {"IO", "TERMINATE"}
         /\ Op(p).type = "IO" => Op(p)'.type = "CPU"
         /\ Op(p)'.time \in Nat
         /\ \A q \in Proc \ {p} : ip'[q] = ip[q] /\ left'[q] = left[q] /\ Op(q)' = Op(q)
         /\ ip' \in [Proc -> Nat] /\ left' \in [Proc -> Nat]
         /\ \A q \in Proc : ip'[q] \in 1..Len(Program[q]) /\ left'[q] \in 0..Program[q][ip'[q]].time
<1>1. /\ ip \in [Proc -> Nat] /\ left \in [Proc -> Nat]
      /\ \A q \in Proc : ip[q] \in 1..Len(Program[q]) /\ left[q] \in 0..Program[q][ip[q]].time
  BY DEF DataOK
<1>2. ip[p] + 1 \in 1..Len(Program[p]) /\ Program[p][ip[p] + 1].time \in Nat
  BY <1>1, ProgramShape DEF Op
<1>3. /\ Op(p).type = "CPU" => Program[p][ip[p] + 1].type \in {"IO", "TERMINATE"}
      /\ Op(p).type = "IO" => Program[p][ip[p] + 1].type = "CPU"
  BY <1>1, ProgramShape DEF Op
<1>4. /\ ip' \in [Proc -> Nat] /\ left' \in [Proc -> Nat]
      /\ ip'[p] = ip[p] + 1 /\ left'[p] = Program[p][ip[p] + 1].time
      /\ \A q \in Proc \ {p} : ip'[q] = ip[q] /\ left'[q] = left[q]
  BY <1>1, <1>2 DEF Advance
<1>5. Op(p)' = Program[p][ip[p] + 1] /\ \A q \in Proc \ {p} : Op(q)' = Op(q)
  BY <1>4 DEF Op
<1>6. \A q \in Proc : ip'[q] \in 1..Len(Program[q]) /\ left'[q] \in 0..Program[q][ip'[q]].time
  BY <1>1, <1>2, <1>4
<1>. QED BY <1>2, <1>3, <1>4, <1>5, <1>6

(* A request put at the end of the I/O queue, and the one at its head        *)
(* removed or worked on.                                                     *)
Requests == [proc : Proc, left : Nat]

LEMMA RequestAdded ==
  ASSUME DataOK, OneRequest, NEW p \in Proc, NEW time \in Nat, SubmitIo(p, time), ~InIo(p)
  PROVE  /\ ioQueue' \in Seq(Requests) /\ OneRequest'
         /\ \A q \in Proc : InIo(q)' <=> InIo(q) \/ q = p
<1>. DEFINE r == [proc |-> p, left |-> time]
<1>1. ioQueue \in Seq(Requests) /\ r \in Requests /\ ioQueue' = Append(ioQueue, r)
  BY DEF DataOK, Requests, SubmitIo
<1>2. r.proc = p
  OBVIOUS
<1>. HIDE DEF r
<1>3. /\ ioQueue' \in Seq(Requests)
      /\ Len(ioQueue') = Len(ioQueue) + 1
      /\ \A i \in 1..Len(ioQueue) : ioQueue'[i] = ioQueue[i]
      /\ ioQueue'[Len(ioQueue) + 1] = r
  BY <1>1, AppendProperties
<1>4. Len(ioQueue) \in Nat
  BY <1>1, LenProperties
<1>5. \A i \in 1..Len(ioQueue) : ioQueue[i].proc # p
  BY DEF InIo
<1>7. ASSUME NEW i \in 1..(Len(ioQueue) + 1), NEW j \in 1..(Len(ioQueue) + 1),
             ioQueue'[i].proc = ioQueue'[j].proc
      PROVE  i = j
  <2>1. CASE i \in 1..Len(ioQueue) /\ j \in 1..Len(ioQueue)
    BY <1>3, <1>7, <2>1 DEF OneRequest
  <2>2. CASE i = Len(ioQueue) + 1 /\ j \in 1..Len(ioQueue)
    BY <1>2, <1>3, <1>5, <1>7, <2>2
  <2>3. CASE j = Len(ioQueue) + 1 /\ i \in 1..Len(ioQueue)
    BY <1>2, <1>3, <1>5, <1>7, <2>3
  <2>. QED BY <1>4, <2>1, <2>2, <2>3
<1>8. OneRequest'
  BY <1>3, <1>7 DEF OneRequest
<1>9. ASSUME NEW q \in Proc PROVE InIo(q)' <=> InIo(q) \/ q = p
  <2>1. ASSUME InIo(q)' PROVE InIo(q) \/ q = p
    <3>1. PICK i \in 1..(Len(ioQueue) + 1) : ioQueue'[i].proc = q
      BY <1>3, <2>1 DEF InIo
    <3>2. CASE i = Len(ioQueue) + 1
      BY <1>2, <1>3, <3>1, <3>2
    <3>3. CASE i \in 1..Len(ioQueue)
      BY <1>3, <3>1, <3>3 DEF InIo
    <3>. QED BY <1>4, <3>2, <3>3
  <2>2. ASSUME InIo(q) PROVE InIo(q)'
    <3>1. PICK i \in 1..Len(ioQueue) : ioQueue[i].proc = q
      BY <2>2 DEF InIo
    <3>2. i \in 1..(Len(ioQueue) + 1) /\ ioQueue'[i].proc = q
      BY <1>3, <1>4, <3>1
    <3>. QED BY <1>3, <3>2 DEF InIo
  <2>3. InIo(p)'
    <3>1. Len(ioQueue) + 1 \in 1..(Len(ioQueue) + 1) /\ ioQueue'[Len(ioQueue) + 1].proc = p
      BY <1>2, <1>3, <1>4
    <3>. QED BY <1>3, <3>1 DEF InIo
  <2>. QED BY <2>1, <2>2, <2>3
<1>. QED BY <1>3, <1>8, <1>9

LEMMA HeadRequest ==
  ASSUME DataOK, ioQueue # <<>>
  PROVE  Head(ioQueue) = ioQueue[1] /\ ioQueue[1] \in Requests /\ InIo(ioQueue[1].proc)
         /\ Len(ioQueue) \in Nat \ {0}
<1>1. ioQueue \in Seq(Requests)
  BY DEF DataOK, Requests
<1>2. Len(ioQueue) \in Nat \ {0} /\ Head(ioQueue) = ioQueue[1]
  BY <1>1, LenProperties, EmptySeq, HeadTailProperties
<1>3. 1 \in 1..Len(ioQueue)
  BY <1>2
<1>4. ioQueue[1] \in Requests
  BY <1>1, <1>3, ElementOfSeq
<1>5. InIo(ioQueue[1].proc)
  BY <1>3 DEF InIo
<1>. QED BY <1>2, <1>4, <1>5

LEMMA RequestRemoved ==
  ASSUME DataOK, OneRequest, ioQueue # <<>>, ioQueue' = Tail(ioQueue)
  PROVE  /\ ioQueue' \in Seq(Requests) /\ OneRequest'
         /\ \A q \in Proc : InIo(q)' <=> InIo(q) /\ q # Head(ioQueue).proc
<1>1. ioQueue \in Seq(Requests)
  BY DEF DataOK, Requests
<1>2. Head(ioQueue) = ioQueue[1] /\ Len(ioQueue) \in Nat \ {0}
  BY HeadRequest
<1>3. /\ ioQueue' \in Seq(Requests)
      /\ Len(ioQueue') = Len(ioQueue) - 1
      /\ \A i \in 1..(Len(ioQueue) - 1) : ioQueue'[i] = ioQueue[i + 1]
  BY <1>1, HeadTailProperties
<1>5. \A i \in 1..(Len(ioQueue) - 1) : i + 1 \in 1..Len(ioQueue) /\ i + 1 # 1
  BY <1>2
<1>6. 1 \in 1..Len(ioQueue)
  BY <1>2
<1>7. OneRequest'
  <2>. SUFFICES ASSUME NEW i \in 1..(Len(ioQueue) - 1), NEW j \in 1..(Len(ioQueue) - 1),
                       ioQueue'[i].proc = ioQueue'[j].proc
                PROVE  i = j
    BY <1>3 DEF OneRequest
  <2>1. i + 1 = j + 1
    BY <1>3, <1>5 DEF OneRequest
  <2>. QED BY <1>2, <2>1
<1>8. ASSUME NEW q \in Proc, InIo(q)' PROVE InIo(q) /\ q # ioQueue[1].proc
  <2>1. PICK i \in 1..(Len(ioQueue) - 1) : ioQueue'[i].proc = q
    BY <1>3, <1>8 DEF InIo
  <2>2. i + 1 \in 1..Len(ioQueue) /\ i + 1 # 1 /\ ioQueue[i + 1].proc = q
    BY <1>3, <1>5, <2>1
  <2>. QED BY <1>6, <2>2 DEF OneRequest, InIo
<1>9. ASSUME NEW q \in Proc, InIo(q), q # ioQueue[1].proc PROVE InIo(q)'
  <2>1. PICK i \in 1..Len(ioQueue) : ioQueue[i].proc = q
    BY <1>9 DEF InIo
  <2>2. i # 1
    BY <1>9, <2>1
  <2>3. i - 1 \in 1..(Len(ioQueue) - 1) /\ (i - 1) + 1 = i
    BY <1>2, <2>1, <2>2
  <2>4. ioQueue'[i - 1].proc = q
    BY <1>3, <2>1, <2>3
  <2>. QED BY <1>3, <2>3, <2>4 DEF InIo
<1>. QED BY <1>2, <1>3, <1>7, <1>8, <1>9

LEMMA RequestServed ==
  ASSUME DataOK, OneRequest, ioQueue # <<>>, Head(ioQueue).left > 0,
         ioQueue' = [ioQueue EXCEPT ![1].left = @ - 1]
  PROVE  /\ ioQueue' \in Seq(Requests) /\ OneRequest'
         /\ \A q \in Proc : InIo(q)' <=> InIo(q)
<1>1. ioQueue \in Seq(Requests)
  BY DEF DataOK, Requests
<1>2. Head(ioQueue) = ioQueue[1] /\ ioQueue[1] \in Requests /\ Len(ioQueue) \in Nat \ {0}
  BY HeadRequest
<1>. DEFINE r == [ioQueue[1] EXCEPT !.left = @ - 1]
<1>3. r \in Requests /\ r.proc = ioQueue[1].proc
  BY <1>2 DEF Requests
<1>4. ioQueue' = [ioQueue EXCEPT ![1] = r]
  OBVIOUS
<1>. HIDE DEF r
<1>5. /\ ioQueue' \in Seq(Requests)
      /\ Len(ioQueue') = Len(ioQueue)
      /\ \A i \in 1..Len(ioQueue) : ioQueue'[i] = IF i = 1 THEN r ELSE ioQueue[i]
  BY <1>1, <1>2, <1>3, <1>4, ExceptSeq
<1>6. \A i \in 1..Len(ioQueue) : ioQueue'[i].proc = ioQueue[i].proc
  BY <1>3, <1>5
<1>8. OneRequest'
  BY <1>5, <1>6 DEF OneRequest
<1>9. \A q \in Proc : InIo(q)' <=> InIo(q)
  BY <1>5, <1>6 DEF InIo
<1>. QED BY <1>5, <1>8, <1>9
(* The steps of a thread between the scheduler's own, and its spurious       *)
(* wakeup: they pass an event on unchanged.                                  *)
Moves(c) == \/ LoopTop(c) \/ Awake(c) \/ CountTerminated(c) \/ EnterHandler(c)
            \/ SwitchUnlock(c) \/ SwitchRelock(c) \/ LeaveHandler(c)
            \/ /\ Move(c, "simulated", "signalled") /\ UNCHANGED sup
               /\ UNCHANGED <<vars, simData, n, called, cpuState, timer, writers, served>>

(* A step of the scheduler's in a handler, or in pthread_cond_wait.          *)
InScheduler(c) == InHandler(c) \/ (SpuriousWakeup(c) /\ UNCHANGED simVars)

LEMMA SchedulerFrame ==
  ASSUME TypeOK, NEW c \in CPU, InScheduler(c)
  PROVE  /\ UNCHANGED <<sup, n, at, called, cpuState, timer, ip, left, ioQueue, waking, terminated,
                        created, tick, writers, served, simCurrent>>
         /\ \A d \in CPU : \/ pc'[d] = pc[d] /\ d # c
                           \/ pc[d] = "asleep" /\ pc'[d] = "woken"
                           \/ d = c /\ at[c] = "handler" /\ pc'[c] # "outside"
         /\ \A d \in CPU : pc'[d] = "requeue" => pc[d] = "requeue" \/ called[d] = "PREEMPT"
<1>1. UNCHANGED <<sup, n, at, called, cpuState, timer, ip, left, ioQueue, waking, terminated,
                  created, tick, writers, served>>
  BY DEF InScheduler, InHandler, simVars
<1>2. simCurrent' = simCurrent
  BY DEF InScheduler, InHandler, SpuriousWakeup, Idle, IdleResume, IdleTest, PreemptTake, Yield, Terminate,
     Release, PreemptRequeue, Dequeue, Install
<1>3. pc \in [CPU -> Locations]
  BY DEF TypeOK
<1>4. CASE PreemptRequeue(c) /\ InHandler(c)
  <2>1. [pc EXCEPT ![c] = "dequeue"] \in [CPU -> Locations]
    BY <1>3 DEF Locations
  <2>2. pc' \in Signal([pc EXCEPT ![c] = "dequeue"])
    BY <1>4 DEF PreemptRequeue, MakeReady
  <2>3. \A d \in CPU : \/ pc'[d] = [pc EXCEPT ![c] = "dequeue"][d]
                       \/ pc[d] = "asleep" /\ pc'[d] = "woken"
    BY <2>1, <2>2, SignalEffect
  <2>4. at[c] = "handler"
    BY <1>4 DEF InHandler
  <2>. QED BY <1>1, <1>2, <1>3, <2>3, <2>4
<1>5. CASE InHandler(c) /\ ~PreemptRequeue(c)
  <2>1. at[c] = "handler"
    BY <1>5 DEF InHandler
  <2>2. \E l \in Locations \ {"outside"} : pc' = [pc EXCEPT ![c] = l]
                                           /\ (l = "requeue" => called[c] = "PREEMPT")
    BY <1>5 DEF InHandler, Idle, IdleResume, IdleTest, PreemptTake, Yield, Terminate, Release, Dequeue,
       Install, Locations
  <2>. QED BY <1>1, <1>2, <1>3, <2>1, <2>2
<1>6. CASE SpuriousWakeup(c)
  BY <1>1, <1>2, <1>3, <1>6 DEF SpuriousWakeup
<1>. QED BY <1>4, <1>5, <1>6 DEF InScheduler

(* The steps of the supervisor that only move it.                            *)
SupervisorMoves ==
  \/ BeginTick \/ ReaderLock \/ ReaderUnlock \/ CpusDone \/ Answered \/ IoRelock \/ SimulateCreat
  \/ /\ Goto("noWriters", "print")
     /\ UNCHANGED <<vars, simData, n, at, called, cpuState, timer, writers, served>>

LEMMA ThreadKeepsData ==
  ASSUME DataOK, TypeOK, NEW c \in CPU, Moves(c) \/ InScheduler(c) \/ SwitchProcess(c), UNCHANGED timeSlice
  PROVE  DataOK'
<1>1. UNCHANGED <<timeSlice, n, ip, left, ioQueue, waking, created, tick>>
  BY SchedulerFrame DEF Moves, LoopTop, Awake, CountTerminated, EnterHandler, SwitchUnlock, SwitchRelock,
     LeaveHandler, SwitchProcess, simData
<1>2. sup' \in {sup, "answered", "print"}
  BY SchedulerFrame DEF Moves, LoopTop, Awake, CountTerminated, EnterHandler, SwitchUnlock, SwitchRelock,
     LeaveHandler, SwitchProcess, WriterLock, WriterUnlock
<1>3. served' = served \/ served' = (served \/ c = n)
  BY SchedulerFrame DEF Moves, LoopTop, Awake, CountTerminated, EnterHandler, SwitchUnlock, SwitchRelock,
     LeaveHandler, SwitchProcess
<1>4. timer' = timer \/ timer' = [timer EXCEPT ![c] = timeSlice]
  BY SchedulerFrame DEF Moves, LoopTop, Awake, CountTerminated, EnterHandler, SwitchUnlock, SwitchRelock,
     LeaveHandler, SwitchProcess, SetTimer
<1>5. sup' \in SupLocations /\ served' \in BOOLEAN
  <2>1. served \in BOOLEAN /\ sup \in SupLocations
    BY DEF DataOK
  <2>2. (served \/ c = n) \in BOOLEAN
    OBVIOUS
  <2>3. sup' \in SupLocations
    BY <1>2, <2>1 DEF SupLocations
  <2>4. served' \in BOOLEAN
    BY <1>3, <2>1, <2>2
  <2>. QED BY <2>3, <2>4
<1>6. timer' \in [CPU -> -1..(IF timeSlice > 0 THEN timeSlice ELSE 0)]
  <2>1. timeSlice = -1 \/ timeSlice \in Nat \ {0}
    BY OSSimAssumption DEF DataOK
  <2>2. timeSlice \in -1..(IF timeSlice > 0 THEN timeSlice ELSE 0)
    BY <2>1
  <2>. QED BY <1>4, <2>2 DEF DataOK
<1>. QED BY <1>1, <1>5, <1>6 DEF DataOK

(* The process is counted as created after it has been made ready.           *)
LEMMA NextTickOK ==
  ASSUME tick \in 0..(CreatePeriod - 1), NextTick
  PROVE  tick' \in 0..(CreatePeriod - 1)
<1>1. CreatePeriod \in Nat \ {0}
  BY OSSimAssumption
<1>2. tick' = 0 \/ tick' = (tick + 1) % CreatePeriod
  BY DEF NextTick
<1>3. (tick + 1) % CreatePeriod \in 0..(CreatePeriod - 1)
  BY <1>1
<1>. QED BY <1>1, <1>2, <1>3

LEMMA SupervisorMovesKeepData ==
  ASSUME DataOK, sup = "answered" => n \in CPU, SupervisorMoves, UNCHANGED timeSlice
  PROVE  DataOK'
<1>1. UNCHANGED <<timeSlice, timer, ip, left, ioQueue, waking, created, served>>
  BY DEF SupervisorMoves, BeginTick, ReaderLock, ReaderUnlock, CpusDone, Answered, IoRelock, SimulateCreat,
     simData, threadVars, supOther
<1>2. sup' \in SupLocations
  BY DEF SupervisorMoves, BeginTick, ReaderLock, ReaderUnlock, CpusDone, Answered, IoRelock, SimulateCreat,
     Goto, SupLocations
<1>3. n' = n \/ n' = 1 \/ (n' = n + 1 /\ n \in CPU)
  BY DEF SupervisorMoves, BeginTick, ReaderLock, ReaderUnlock, CpusDone, Answered, IoRelock, SimulateCreat,
     supOther, Goto
<1>4. n' \in 1..(NumCpus + 1)
  BY <1>3, Numbers DEF DataOK
<1>5. tick' = tick \/ NextTick
  BY DEF SupervisorMoves, BeginTick, ReaderLock, ReaderUnlock, CpusDone, Answered, IoRelock, SimulateCreat,
     simData
<1>6. tick' \in 0..(CreatePeriod - 1)
  BY <1>5, NextTickOK DEF DataOK
<1>. QED BY <1>1, <1>2, <1>4, <1>6 DEF DataOK

(* The steps of the scheduler's own code.                                    *)
LEMMA SchedulerTypes ==
  ASSUME TypeInv, [SimNext]_allVars
  PROVE  TypeOK' /\ SavedOK'
<1>. USE SchedulerAssumption DEF TypeInv
<1>1. ASSUME NEW c \in CPU, Idle(c) \/ IdleResume(c) \/ PreemptTake(c) \/ Yield(c) \/ Terminate(c)
                              \/ Install(c) \/ ContextSwitch(c) \/ SpuriousWakeup(c)
      PROVE  TypeOK' /\ SavedOK'
  <2>1. CASE Idle(c) \/ IdleResume(c) \/ SpuriousWakeup(c)
    BY <2>1 DEF Idle, IdleResume, IdleTest, SpuriousWakeup, TypeOK, SavedOK, Locations
  <2>2. CASE PreemptTake(c)
    BY <2>2 DEF PreemptTake, TypeOK, SavedOK, Locations
  <2>3. CASE Yield(c) \/ Terminate(c)
    BY <2>3 DEF Yield, Terminate, Release, TypeOK, SavedOK, Locations, ProcStates
  <2>4. CASE Install(c)
    BY <2>4 DEF Install, TypeOK, SavedOK, Locations, ProcStates
  <2>5. CASE ContextSwitch(c)
    BY <2>5 DEF ContextSwitch, TypeOK, SavedOK, Locations
  <2>. QED BY <1>1, <2>1, <2>2, <2>3, <2>4, <2>5
<1>2. ASSUME NEW p \in Proc, NEW f \in [CPU -> Locations], MakeReady(p, f)
      PROVE  /\ readyQueue' \in Seq(Proc) /\ procState' \in [Proc -> ProcStates]
             /\ pc' \in [CPU -> Locations]
             /\ \A d \in CPU : pc'[d] = f[d] \/ pc'[d] = "woken"
  <2>1. readyQueue' \in Seq(Proc)
    BY <1>2, AppendProperties DEF MakeReady, TypeOK
  <2>2. procState' \in [Proc -> ProcStates]
    BY <1>2 DEF MakeReady, TypeOK, ProcStates
  <2>. QED BY <1>2, <2>1, <2>2, SignalEffect DEF MakeReady
<1>3. ASSUME NEW c \in CPU, PreemptRequeue(c) PROVE TypeOK' /\ SavedOK'
  <2>1. local[c] \in Proc /\ [pc EXCEPT ![c] = "dequeue"] \in [CPU -> Locations]
    BY <1>3 DEF PreemptRequeue, SavedOK, TypeOK, Locations
  <2>2. /\ readyQueue' \in Seq(Proc) /\ procState' \in [Proc -> ProcStates]
        /\ pc' \in [CPU -> Locations]
        /\ \A d \in CPU : pc'[d] = [pc EXCEPT ![c] = "dequeue"][d] \/ pc'[d] = "woken"
    BY <1>2, <1>3, <2>1 DEF PreemptRequeue
  <2>. QED BY <1>3, <2>2 DEF PreemptRequeue, TypeOK, SavedOK
<1>4. ASSUME NEW c \in CPU, Dequeue(c) PROVE TypeOK' /\ SavedOK'
  <2>1. readyQueue # <<>> => Head(readyQueue) \in Proc /\ Tail(readyQueue) \in Seq(Proc)
    BY HeadTailProperties DEF TypeOK
  <2>. QED BY <1>4, <2>1 DEF Dequeue, TypeOK, SavedOK, Locations
<1>5. ASSUME NEW p \in Proc, WakeUp(p) PROVE TypeOK' /\ SavedOK'
  <2>1. pc \in [CPU -> Locations]
    BY DEF TypeOK
  <2>2. /\ readyQueue' \in Seq(Proc) /\ procState' \in [Proc -> ProcStates]
        /\ pc' \in [CPU -> Locations]
        /\ \A d \in CPU : pc'[d] = pc[d] \/ pc'[d] = "woken"
    BY <1>2, <1>5, <2>1 DEF WakeUp
  <2>. QED BY <1>5, <2>2 DEF WakeUp, TypeOK, SavedOK
<1>6. CASE UNCHANGED vars
  BY <1>6 DEF vars, TypeOK, SavedOK
<1>7. ASSUME NEW c \in CPU, ThreadStep(c) PROVE TypeOK' /\ SavedOK'
  <2>1. CASE InHandler(c)
    BY <1>1, <1>3, <1>4, <2>1 DEF InHandler
  <2>2. CASE ~InHandler(c)
    BY <1>1, <1>6, <1>7, <2>2 DEF ThreadStep, LoopTop, Awake, CountTerminated, EnterHandler, SwitchUnlock,
       SwitchProcess, SwitchRelock, LeaveHandler
  <2>. QED BY <2>1, <2>2
<1>8. CASE SupervisorStep
  <2>1. CASE IoWakeUp
    BY <1>5, <2>1 DEF IoWakeUp, Goto, SupHolds
  <2>2. CASE CreatWakeUp
    <3>1. created + 1 \in Proc
      BY <2>2, Numbers DEF CreatWakeUp, Goto, SupHolds, DataOK
    <3>. QED BY <1>5, <2>2, <3>1 DEF CreatWakeUp
  <2>3. CASE ~IoWakeUp /\ ~CreatWakeUp
    BY <1>6, <1>8, <2>3 DEF SupervisorStep, BeginTick, ReaderLock, ReaderUnlock, SimulateCpu, CpusDone,
       Answered, SimulateIo, IoRelock, SimulateCreat, CreatRelock
  <2>. QED BY <2>1, <2>2, <2>3
<1>9. CASE SpuriousWait
  BY <1>1, <1>6, <1>9 DEF SpuriousWait
<1>10. CASE UNCHANGED allVars
  BY <1>6, <1>10 DEF allVars
<1>. QED BY <1>7, <1>8, <1>9, <1>10 DEF SimNext, Exited

(* A thread's step changes nothing that the supervisor keeps, but its place. *)
LEMMA ThreadKeepsTypes ==
  ASSUME TypeInv, NEW c \in CPU, Moves(c) \/ InScheduler(c) \/ SwitchProcess(c), UNCHANGED timeSlice
  PROVE  DataOK' /\ SupHolds' /\ Asked'
<1>. USE DEF TypeInv
<1>1. UNCHANGED <<n, ip, ioQueue, waking, created>>
  BY SchedulerFrame DEF Moves, LoopTop, Awake, CountTerminated, EnterHandler, SwitchUnlock, SwitchRelock,
     LeaveHandler, SwitchProcess, simData
<1>2. sup' = sup \/ sup' = "print" \/ (sup = "answer" /\ sup' = "answered")
  BY SchedulerFrame DEF Moves, LoopTop, Awake, CountTerminated, EnterHandler, SwitchUnlock, SwitchRelock,
     LeaveHandler, SwitchProcess, WriterLock, WriterUnlock, Answers
<1>3. SupHolds'
  BY <1>1, <1>2 DEF SupHolds
<1>4. Asked'
  BY <1>1 DEF Asked, OneRequest, Op, InIo
<1>5. DataOK'
  BY ThreadKeepsData
<1>. QED BY <1>3, <1>4, <1>5

LEMMA SimulateCpuTypes ==
  ASSUME TypeInv, SimulateCpu, UNCHANGED timeSlice
  PROVE  DataOK' /\ SupHolds' /\ Asked'
<1>. USE DEF TypeInv
<1>0. /\ sup = "cpus" /\ n \in CPU /\ n \in 1..NumCpus /\ NumCpus \in Nat
      /\ UNCHANGED <<waking, created, tick, timeSlice>>
  BY Numbers DEF SimulateCpu
<1>1. n + 1 \in 1..(NumCpus + 1) /\ n \in 1..(NumCpus + 1)
  BY <1>0
<1>2. \/ sup' = "cpus" /\ n' = n + 1 /\ served' = served
      \/ sup' = "answer" /\ n' = n /\ served' = FALSE
  <2>1. NextCpu \/ \E event \in CpuStates : Dispatch(n, event)
    BY DEF SimulateCpu, RunBurst, EndBurst, ReportBlocked, CpuStates
  <2>. QED BY <1>0, <2>1 DEF NextCpu, Dispatch
<1>3. SupHolds' /\ sup' \in SupLocations /\ n' \in 1..(NumCpus + 1) /\ served' \in BOOLEAN
  BY <1>0, <1>1, <1>2 DEF SupHolds, DataOK, SupLocations
<1>4. CASE UNCHANGED <<timer, ip, left, ioQueue>>
  BY <1>0, <1>3, <1>4 DEF DataOK, Asked, OneRequest, Op, InIo
<1>5. ASSUME NEW p \in Proc, RunBurst(n, p) PROVE DataOK' /\ Asked'
  <2>1. PICK r : r = IF timer[n] < 0 THEN -1 ELSE timer[n] - 1
    OBVIOUS
  <2>2. /\ left[p] > 0 /\ left' = [left EXCEPT ![p] = left[p] - 1] /\ timer' = [timer EXCEPT ![n] = r]
        /\ UNCHANGED <<ip, ioQueue>>
    BY <1>5, <2>1 DEF RunBurst
  <2>3. timer' \in [CPU -> -1..(IF timeSlice > 0 THEN timeSlice ELSE 0)]
    <3>1. timer \in [CPU -> -1..(IF timeSlice > 0 THEN timeSlice ELSE 0)] /\ timeSlice \in Int
      BY OSSimAssumption DEF DataOK
    <3>2. r \in -1..(IF timeSlice > 0 THEN timeSlice ELSE 0)
      BY <1>0, <2>1, <3>1
    <3>. QED BY <1>0, <2>2, <3>1, <3>2
  <2>4. /\ left' \in [Proc -> Nat]
        /\ \A q \in Proc : ip[q] \in 1..Len(Program[q]) /\ left'[q] \in 0..Program[q][ip[q]].time
    <3>0. left[p] \in Nat
      BY DEF DataOK
    <3>1. left' \in [Proc -> Nat] /\ \A q \in Proc : left'[q] = left[q] \/ left'[q] = left[q] - 1
      BY <2>2, <3>0 DEF DataOK
    <3>2. \A q \in Proc : Program[q][ip[q]].time \in Nat
      BY ProgramShape DEF DataOK
    <3>3. \A q \in Proc : /\ ip[q] \in 1..Len(Program[q]) /\ left[q] \in 0..Program[q][ip[q]].time
                          /\ left'[q] \in Nat
      BY <3>1 DEF DataOK
    <3>. QED BY <3>1, <3>2, <3>3
  <2>5. DataOK'
    BY <1>0, <1>3, <2>2, <2>3, <2>4 DEF DataOK
  <2>6. Asked'
    BY <2>2 DEF Asked, OneRequest, Op, InIo
  <2>. QED BY <2>5, <2>6
<1>6. ASSUME NEW p \in Proc, EndBurst(n, p) PROVE DataOK' /\ Asked'
  <2>. DEFINE op == Program[p][ip[p] + 1]
  <2>1. /\ Op(p).type = "CPU" /\ Advance(p) /\ timer' = timer
        /\ IF op.type = "IO" THEN SubmitIo(p, op.time) ELSE UNCHANGED ioQueue
    BY <1>6 DEF EndBurst
  <2>2. /\ op.type \in {"IO", "TERMINATE"} /\ Op(p)' = op /\ op.time \in Nat
        /\ \A q \in Proc \ {p} : Op(q)' = Op(q)
        /\ ip' \in [Proc -> Nat] /\ left' \in [Proc -> Nat]
        /\ \A q \in Proc : ip'[q] \in 1..Len(Program[q]) /\ left'[q] \in 0..Program[q][ip'[q]].time
    <3>1. Op(p).type \in {"CPU", "IO"}
      BY <2>1
    <3>. QED BY <2>1, <3>1, Advances
  <2>3. ~InIo(p) /\ OneRequest
    BY <2>1 DEF Asked
  <2>. HIDE DEF op
  <2>4. /\ ioQueue' \in Seq(Requests) /\ OneRequest'
        /\ \A q \in Proc : InIo(q)' <=> InIo(q) \/ (q = p /\ op.type = "IO")
    <3>1. CASE op.type = "IO"
      BY <2>1, <2>2, <2>3, <3>1, RequestAdded
    <3>2. CASE op.type = "TERMINATE"
      BY <2>1, <2>3, <3>2 DEF DataOK, Requests, OneRequest, InIo
    <3>. QED BY <2>2, <3>1, <3>2
  <2>5. DataOK'
    BY <1>0, <1>3, <2>1, <2>2, <2>4 DEF DataOK, Requests
  <2>6. ASSUME NEW q \in Proc PROVE Op(q)'.type = "IO" <=> InIo(q)'
    <3>1. Op(q).type = "IO" <=> InIo(q)
      BY DEF Asked
    <3>. QED BY <2>2, <2>3, <2>4, <3>1
  <2>. QED BY <2>4, <2>5, <2>6 DEF Asked
<1>7. simCurrent[n] = NoProc \/ simCurrent[n] \in Proc
  BY <1>0 DEF TypeOK
<1>. QED BY <1>3, <1>4, <1>5, <1>6, <1>7 DEF SimulateCpu, ReportBlocked

LEMMA SimulateIoTypes ==
  ASSUME TypeInv, SimulateIo, UNCHANGED timeSlice
  PROVE  DataOK' /\ SupHolds' /\ Asked'
<1>. USE DEF TypeInv
<1>1. UNCHANGED <<timer, created, tick, served, n, timeSlice>>
  BY DEF SimulateIo, supOther
<1>2. OneRequest
  BY DEF Asked
<1>3. CASE sup' = "creat" /\ UNCHANGED <<ip, left, waking>>
  <2>1. ioQueue' \in Seq(Requests) /\ OneRequest' /\ \A q \in Proc : InIo(q)' <=> InIo(q)
    <3>1. CASE ioQueue' = ioQueue
      BY <1>2, <3>1 DEF DataOK, Requests, OneRequest, InIo
    <3>2. CASE ioQueue # <<>> /\ Head(ioQueue).left > 0 /\ ioQueue' = [ioQueue EXCEPT ![1].left = @ - 1]
      BY <1>2, <3>2, RequestServed
    <3>. QED BY <1>3, <3>1, <3>2 DEF SimulateIo, Goto
  <2>. QED BY <1>1, <1>3, <2>1 DEF DataOK, SupLocations, Requests, SupHolds, Asked, Op
<1>4. CASE ~(sup' = "creat" /\ UNCHANGED <<ip, left, waking>>)
  <2>1. /\ sup' = "ioWake" /\ ioQueue # <<>>
        /\ waking' = Head(ioQueue).proc /\ Advance(waking') /\ ioQueue' = Tail(ioQueue)
    BY <1>4 DEF SimulateIo, Goto
  <2>2. Head(ioQueue).proc \in Proc /\ InIo(Head(ioQueue).proc)
    BY <2>1, HeadRequest DEF Requests
  <2>3. PICK w \in Proc : w = Head(ioQueue).proc
    BY <2>2
  <2>4. /\ InIo(w) /\ waking' = w /\ Advance(w)
        /\ ioQueue' \in Seq(Requests) /\ OneRequest'
        /\ \A q \in Proc : InIo(q)' <=> InIo(q) /\ q # w
    BY <1>2, <2>1, <2>2, <2>3, RequestRemoved
  <2>5. Op(w).type = "IO"
    BY <2>4 DEF Asked
  <2>6. /\ Op(w)'.type = "CPU"
        /\ \A q \in Proc \ {w} : Op(q)' = Op(q)
        /\ ip' \in [Proc -> Nat] /\ left' \in [Proc -> Nat]
        /\ \A q \in Proc : ip'[q] \in 1..Len(Program[q]) /\ left'[q] \in 0..Program[q][ip'[q]].time
    <3>1. Op(w).type \in {"CPU", "IO"}
      BY <2>5
    <3>. QED BY <2>4, <2>5, <3>1, Advances
  <2>7. ASSUME NEW q \in Proc PROVE Op(q)'.type = "IO" <=> InIo(q)'
    <3>1. Op(q).type = "IO" <=> InIo(q)
      BY DEF Asked
    <3>. QED BY <2>4, <2>6, <3>1
  <2>8. DataOK'
    BY <1>1, <2>1, <2>4, <2>6 DEF DataOK, SupLocations, Requests
  <2>9. SupHolds'
    BY <2>1, <2>4 DEF SupHolds
  <2>. QED BY <2>4, <2>7, <2>8, <2>9 DEF Asked
<1>. QED BY <1>3, <1>4

(* The supervisor's other steps.                                             *)
LEMMA SupervisorTypes ==
  ASSUME TypeInv, UNCHANGED timeSlice,
         SupervisorMoves \/ IoWakeUp \/ CreatWakeUp \/ CreatRelock
  PROVE  DataOK' /\ SupHolds' /\ Asked'
<1>. USE DEF TypeInv
<1>1. UNCHANGED <<ip, left, ioQueue, timer, served>>
  BY DEF SupervisorMoves, BeginTick, ReaderLock, ReaderUnlock, CpusDone, Answered, IoRelock, SimulateCreat,
     IoWakeUp, CreatWakeUp, CreatRelock, simData, supOther
<1>2. Asked'
  BY <1>1 DEF Asked, OneRequest, Op, InIo
<1>3. CASE SupervisorMoves
  <2>1. UNCHANGED created
    BY <1>3 DEF SupervisorMoves, BeginTick, ReaderLock, ReaderUnlock, CpusDone, Answered, IoRelock,
       SimulateCreat, simData
  <2>2. /\ sup' \notin {"answer", "answered", "ioWake", "creatRelock"}
        /\ sup' = "creatWake" => created < NumProcs
    BY <1>3 DEF SupervisorMoves, BeginTick, ReaderLock, ReaderUnlock, CpusDone, Answered, IoRelock,
       SimulateCreat, Goto, CreationDue
  <2>3. SupHolds'
    BY <2>1, <2>2 DEF SupHolds
  <2>4. DataOK'
    BY <1>3, SupervisorMovesKeepData DEF SupHolds
  <2>. QED BY <1>2, <2>3, <2>4
<1>4. CASE IoWakeUp \/ CreatWakeUp
  <2>1. /\ UNCHANGED <<n, created, tick>> /\ waking' \in {waking, NoProc}
        /\ \/ sup' = "ioRelock"
           \/ sup = "creatWake" /\ sup' = "creatRelock"
    BY <1>4 DEF IoWakeUp, CreatWakeUp, supOther, Goto
  <2>2. SupHolds'
    BY <2>1 DEF SupHolds
  <2>3. DataOK'
    BY <1>1, <2>1 DEF DataOK, SupLocations
  <2>. QED BY <1>2, <2>2, <2>3
<1>5. CASE CreatRelock
  <2>1. /\ UNCHANGED <<n, waking>> /\ sup = "creatRelock" /\ sup' = "sleep"
        /\ created' = created + 1 /\ NextTick
    BY <1>5 DEF CreatRelock, supOther, Goto, CountCreated
  <2>2. created' \in 0..NumProcs
    BY <2>1, Numbers DEF SupHolds, DataOK
  <2>3. tick' \in 0..(CreatePeriod - 1)
    BY <2>1, NextTickOK DEF DataOK
  <2>4. DataOK'
    BY <1>1, <2>1, <2>2, <2>3 DEF DataOK, SupLocations
  <2>. QED BY <1>2, <2>1, <2>4 DEF SupHolds
<1>. QED BY <1>3, <1>4, <1>5

(* A thread that counts a terminated process is one that was told of its     *)
(* end; whether it hears of another's too, or of none, it counts one.        *)
LEMMA CountedStep ==
  ASSUME TypeInv, [SimNext]_allVars
  PROVE  Counted'
<1>. USE DEF TypeInv
<1>1. /\ IsFiniteSet(Counting) /\ Cardinality(Counting) \in Nat /\ Counting \subseteq CPU
      /\ IsFiniteSet(AtEnd) /\ Cardinality(AtEnd) \in Nat /\ AtEnd \subseteq Proc
  <2>1. Counting \subseteq CPU /\ AtEnd \subseteq Proc
    BY DEF Counting, AtEnd
  <2>. QED BY <2>1, Numbers, FS_Subset, FS_CardinalityType
<1>2. terminated \in Nat /\ terminated + Cardinality(Counting) <= Cardinality(AtEnd)
  BY DEF Counted
<1>3. ASSUME UNCHANGED <<terminated, ip>>, Counting' \subseteq Counting PROVE Counted'
  <2>1. AtEnd' = AtEnd
    BY <1>3 DEF AtEnd, Op
  <2>2. Cardinality(Counting') <= Cardinality(Counting) /\ Cardinality(Counting') \in Nat
    BY <1>1, <1>3, FS_Subset, FS_CardinalityType
  <2>. QED BY <1>1, <1>2, <1>3, <2>1, <2>2 DEF Counted
<1>4. ASSUME NEW c \in CPU, ThreadStep(c) PROVE Counted'
  <2>1. CASE CountTerminated(c)
    <3>1. /\ at[c] = "count" /\ at' = [at EXCEPT ![c] = "enter"] /\ terminated' = terminated + 1
          /\ UNCHANGED <<ip, cpuState>>
      BY <2>1 DEF CountTerminated, Move
    <3>2. c \in Counting /\ c \notin Counting' /\ Counting = Counting' \cup {c} /\ Counting' \subseteq CPU
      BY <3>1 DEF Counting, Calls
    <3>3. Cardinality(Counting') \in Nat /\ Cardinality(Counting) = Cardinality(Counting') + 1
      BY <1>1, <3>2, OneMore
    <3>4. AtEnd' = AtEnd
      BY <3>1 DEF AtEnd, Op
    <3>. QED BY <1>1, <1>2, <3>1, <3>3, <3>4 DEF Counted
  <2>2. CASE ~CountTerminated(c)
    <3>1. UNCHANGED <<terminated, ip>>
      BY <1>4, <2>2 DEF ThreadStep, LoopTop, Awake, EnterHandler, InHandler, SwitchUnlock, SwitchProcess,
         SwitchRelock, LeaveHandler, simData, simVars
    <3>2. Counting' \subseteq Counting
      BY <1>4, <2>2 DEF ThreadStep, LoopTop, Awake, EnterHandler, InHandler, SwitchUnlock, SwitchProcess,
         SwitchRelock, LeaveHandler, simVars, Move, Counting, Calls
    <3>. QED BY <1>3, <3>1, <3>2
  <2>. QED BY <2>1, <2>2
<1>5. CASE SimulateCpu
  <2>1. n \in CPU /\ terminated' = terminated
    BY <1>5 DEF SimulateCpu
  <2>2. ASSUME Dispatch(n, "PREEMPT") \/ Dispatch(n, "YIELD") PROVE Counting' \subseteq Counting
    BY <2>1, <2>2 DEF Dispatch, Counting, Calls
  <2>3. CASE UNCHANGED <<at, cpuState, ip>>
    BY <1>3, <2>1, <2>3 DEF Counting
  <2>4. ASSUME NEW p \in Proc, RunBurst(n, p) PROVE Counted'
    <3>1. UNCHANGED ip /\ (Dispatch(n, "PREEMPT") \/ UNCHANGED <<at, cpuState>>)
      BY <2>4 DEF RunBurst, NextCpu
    <3>. QED BY <1>3, <2>1, <2>2, <2>3, <3>1
  <2>5. ASSUME NEW p \in Proc, EndBurst(n, p) PROVE Counted'
    <3>. DEFINE op == Program[p][ip[p] + 1]
    <3>1. /\ Op(p).type = "CPU" /\ Advance(p)
          /\ \/ op.type = "IO" /\ Dispatch(n, "YIELD")
             \/ op.type # "IO" /\ Dispatch(n, "TERMINATE")
      BY <2>5 DEF EndBurst
    <3>2. /\ op.type \in {"IO", "TERMINATE"} /\ Op(p)' = op
          /\ \A q \in Proc \ {p} : Op(q)' = Op(q)
      <4>1. Op(p).type \in {"CPU", "IO"}
        BY <3>1
      <4>. QED BY <3>1, <4>1, Advances
    <3>. HIDE DEF op
    <3>3. CASE op.type = "IO"
      <4>1. AtEnd' = AtEnd
        BY <3>1, <3>2, <3>3 DEF AtEnd
      <4>2. Counting' \subseteq Counting
        BY <2>2, <3>1, <3>3
      <4>3. Cardinality(Counting') <= Cardinality(Counting) /\ Cardinality(Counting') \in Nat
        BY <1>1, <4>2, FS_Subset, FS_CardinalityType
      <4>. QED BY <1>1, <1>2, <2>1, <4>1, <4>3 DEF Counted
    <3>4. CASE op.type = "TERMINATE"
      <4>1. p \notin AtEnd /\ AtEnd' = AtEnd \cup {p}
        BY <3>1, <3>2, <3>4 DEF AtEnd
      <4>2. Cardinality(AtEnd') = Cardinality(AtEnd) + 1
        BY <1>1, <4>1, FS_AddElement
      <4>3. Counting' \subseteq Counting \cup {n}
        BY <2>1, <3>1, <3>4 DEF Dispatch, Counting, Calls
      <4>4. /\ IsFiniteSet(Counting \cup {n})
            /\ Cardinality(Counting \cup {n}) \in {Cardinality(Counting), Cardinality(Counting) + 1}
        BY <1>1, FS_AddElement
      <4>5. Cardinality(Counting') <= Cardinality(Counting \cup {n}) /\ Cardinality(Counting') \in Nat
        BY <4>3, <4>4, FS_Subset, FS_CardinalityType
      <4>. QED BY <1>1, <1>2, <2>1, <4>2, <4>4, <4>5 DEF Counted
    <3>. QED BY <3>2, <3>3, <3>4
  <2>6. simCurrent[n] = NoProc \/ simCurrent[n] \in Proc
    BY <2>1 DEF TypeOK
  <2>. QED BY <1>5, <2>3, <2>4, <2>5, <2>6 DEF SimulateCpu, NextCpu, ReportBlocked
<1>6. CASE SimulateIo
  <2>1. UNCHANGED <<terminated, at, cpuState>>
    BY <1>6 DEF SimulateIo, supOther
  <2>2. AtEnd' = AtEnd
    <3>1. CASE UNCHANGED ip
      BY <3>1 DEF AtEnd, Op
    <3>2. CASE ~UNCHANGED ip
      <4>1. ioQueue # <<>> /\ waking' = Head(ioQueue).proc /\ Advance(waking')
        BY <1>6, <3>2 DEF SimulateIo
      <4>2. PICK w \in Proc : w = Head(ioQueue).proc /\ InIo(w)
        BY <4>1, HeadRequest DEF Requests
      <4>3. Op(w).type = "IO" /\ Op(w).type \in {"CPU", "IO"} /\ Advance(w)
        BY <4>1, <4>2 DEF Asked
      <4>4. Op(w)'.type = "CPU" /\ \A q \in Proc \ {w} : Op(q)' = Op(q)
        BY <4>3, Advances
      <4>. QED BY <4>3, <4>4 DEF AtEnd
    <3>. QED BY <3>1, <3>2
  <2>3. Counting' = Counting
    BY <2>1 DEF Counting
  <2>. QED BY <1>2, <2>1, <2>2, <2>3 DEF Counted
<1>7. CASE SupervisorStep /\ ~SimulateCpu /\ ~SimulateIo
  <2>1. UNCHANGED <<terminated, ip, at, cpuState>>
    BY <1>7 DEF SupervisorStep, BeginTick, ReaderLock, ReaderUnlock, CpusDone, Answered,
       IoWakeUp, IoRelock, SimulateCreat, CreatWakeUp, CreatRelock, supOther, simData
  <2>2. Counting' \subseteq Counting
    BY <2>1 DEF Counting
  <2>. QED BY <1>3, <2>1, <2>2
<1>8. CASE SpuriousWait \/ UNCHANGED allVars
  <2>1. UNCHANGED <<terminated, ip>>
    BY <1>8 DEF SpuriousWait, simData, simVars, allVars
  <2>2. Counting' \subseteq Counting
    BY <1>8 DEF SpuriousWait, Move, simVars, allVars, Counting, Calls
  <2>. QED BY <1>3, <2>1, <2>2
<1>. QED BY <1>4, <1>5, <1>6, <1>7, <1>8 DEF SimNext, Exited

(* Only the supervisor loses an event, and what is lost stays so.            *)
LEMMA LostSteps ==
  ASSUME [SimNext]_allVars
  PROVE  lost' = lost \/ (SimulateCpu /\ lost' = (lost \/ at[n] \notin {"simulated", "signalled"}))
<1>1. ASSUME NEW c \in CPU, ThreadStep(c) PROVE lost' = lost
  BY <1>1 DEF ThreadStep, LoopTop, Awake, CountTerminated, EnterHandler, InHandler, SwitchUnlock,
     SwitchProcess, SwitchRelock, LeaveHandler, simData, simVars
<1>2. CASE SimulateCpu
  <2>1. lost' = lost \/ lost' = (lost \/ at[n] \notin {"simulated", "signalled"})
    BY <1>2 DEF SimulateCpu, NextCpu, RunBurst, EndBurst, ReportBlocked, Dispatch
  <2>. QED BY <1>2, <2>1
<1>3. CASE SupervisorStep /\ ~SimulateCpu
  BY <1>3 DEF SupervisorStep, BeginTick, ReaderLock, ReaderUnlock, CpusDone, Answered, SimulateIo,
     IoWakeUp, IoRelock, SimulateCreat, CreatWakeUp, CreatRelock, supOther, simData
<1>4. CASE SpuriousWait \/ UNCHANGED allVars
  BY <1>4 DEF SpuriousWait, simData, simVars, allVars
<1>. QED BY <1>1, <1>2, <1>3, <1>4 DEF SimNext, Exited

LEMMA InitTypeInv == SimInit => TypeInv
<1>. SUFFICES ASSUME SimInit PROVE TypeInv
  OBVIOUS
<1>. USE DEF SimInit
<1>1. TypeOK /\ SavedOK
  <2>1. TypeOK
    BY InitIInv DEF IInv
  <2>. QED BY <2>1 DEF SavedOK, Init
<1>2. Calls
  BY DEF Calls, CpuStates, ThreadLocations
<1>3. DataOK
  <2>1. \A p \in Proc : 1 \in 1..Len(Program[p]) /\ Program[p][1].time \in Nat
    BY ProgramShape
  <2>2. timeSlice = -1 \/ timeSlice \in Nat \ {0}
    BY OSSimAssumption DEF Options
  <2>3. -1 \in -1..(IF timeSlice > 0 THEN timeSlice ELSE 0)
    BY <2>2
  <2>4. CreatePeriod \in Nat \ {0} /\ NumCpus \in Nat /\ NumProcs \in Nat
    BY OSSimAssumption, Numbers
  <2>. QED BY <2>1, <2>3, <2>4 DEF DataOK, Options, SupLocations
<1>4. \A p \in Proc : Op(p).type = "CPU"
  BY ProgramShape DEF Op
<1>5. Asked
  <2>1. \A p \in Proc : ~InIo(p)
    BY DEF InIo
  <2>. QED BY <1>4, <2>1 DEF Asked, OneRequest
<1>6. Counted
  <2>1. Counting = {} /\ AtEnd = {}
    BY <1>4 DEF Counting, AtEnd
  <2>. QED BY <2>1, FS_EmptySet DEF Counted
<1>. QED BY <1>1, <1>2, <1>3, <1>5, <1>6 DEF TypeInv, SupHolds

LEMMA TypeInvStep == TypeInv /\ [SimNext]_allVars => TypeInv'
<1>. SUFFICES ASSUME TypeInv, [SimNext]_allVars PROVE DataOK' /\ SupHolds' /\ Asked'
  BY SchedulerTypes, CallsStep, CountedStep DEF TypeInv
<1>1. ASSUME NEW c \in CPU, ThreadStep(c) PROVE DataOK' /\ SupHolds' /\ Asked'
  BY <1>1, ThreadKeepsTypes DEF ThreadStep, Moves, InScheduler
<1>2. CASE SupervisorStep
  BY <1>2, SimulateCpuTypes, SimulateIoTypes, SupervisorTypes DEF SupervisorStep, SupervisorMoves
<1>3. CASE SpuriousWait
  <2>1. /\ SupervisorMoves \/ \E c \in CPU : Moves(c) \/ InScheduler(c)
        /\ UNCHANGED timeSlice
    BY <1>3 DEF SpuriousWait, SupervisorMoves, Moves, InScheduler
  <2>. QED BY <2>1, ThreadKeepsTypes, SupervisorTypes
<1>4. CASE UNCHANGED allVars
  BY <1>4 DEF allVars, simVars, TypeInv, DataOK, SupHolds, Asked, OneRequest, Op, InIo
<1>. QED BY <1>1, <1>2, <1>3, <1>4 DEF SimNext, Exited

LEMMA TypeInvariance == SimSpec => []TypeInv
BY InitTypeInv, TypeInvStep, PTL DEF SimSpec

(* Every variable keeps its type, whatever events are lost: in particular    *)
(* the supervisor never counts more terminated processes than there are, a   *)
(* program is never left behind its end, and the count of the writers stays  *)
(* within the number of CPUs.                                                *)
THEOREM SimTypeCorrect == SimSpec => []SimTypeOK
<1>1. ASSUME TypeInv, LockInv, lost \in BOOLEAN PROVE SimTypeOK
  <2>1. TypeOK /\ DataOK /\ Calls
    BY <1>1 DEF TypeInv
  <2>2. terminated \in 0..NumProcs
    <3>1. AtEnd \subseteq Proc /\ Counting \subseteq CPU
      BY DEF AtEnd, Counting
    <3>2. /\ Cardinality(AtEnd) <= Cardinality(Proc) /\ Cardinality(AtEnd) \in Nat
          /\ Cardinality(Counting) \in Nat /\ Cardinality(Proc) \in Nat
      BY <3>1, Numbers, FS_Subset, FS_CardinalityType
    <3>. QED BY <1>1, <3>2 DEF TypeInv, Counted, NumProcs
  <2>3. writers \in -NumCpus..NumCpus
    BY <1>1, Counts, Numbers DEF LockInv, LockCounted
  <2>4. \A i \in 1..Len(ioQueue) : ioQueue[i] \in [proc : Proc, left : Nat]
    <3>. DEFINE S == [proc : Proc, left : Nat]
    <3>1. ioQueue \in Seq(S)
      BY <2>1 DEF DataOK
    <3>. HIDE DEF S
    <3>2. \A i \in 1..Len(ioQueue) : ioQueue[i] \in S
      BY <3>1, ElementOfSeq
    <3>. QED BY <3>2 DEF S
  <2>. QED BY <1>1, <2>1, <2>2, <2>3, <2>4 DEF SimTypeOK, DataOK, Calls
<1>2. SimSpec => [](lost \in BOOLEAN)
  <2>1. SimInit => lost \in BOOLEAN
    BY DEF SimInit
  <2>2. lost \in BOOLEAN /\ [SimNext]_allVars => (lost \in BOOLEAN)'
    BY LostSteps
  <2>. QED BY <2>1, <2>2, PTL DEF SimSpec
<1>. QED BY <1>1, <1>2, TypeInvariance, LockInvariance, PTL
-----------------------------------------------------------------------------
(* The invariant                                                             *)

SimInv == /\ IInv /\ Calls /\ DataOK
          /\ Threads /\ Handshake /\ Positions /\ Creation /\ Termination /\ Slices

(* The process that the supervisor finds on a CPU runs there, in a CPU burst. *)
LEMMA Found ==
  ASSUME SimInv, sup = "cpus", NEW c \in CPU, simCurrent[c] # NoProc
  PROVE  /\ pc[c] = "outside" /\ current[c] = simCurrent[c] /\ simCurrent[c] \in Proc
         /\ procState[simCurrent[c]] = "RUNNING" /\ Op(simCurrent[c]).type = "CPU"
         /\ \A d \in CPU : ~Pending(d) /\ ~Returning(d)
<1>1. \A d \in CPU : ~Pending(d) /\ ~Returning(d)
  BY DEF SimInv, Handshake
<1>2. at[c] \notin {"handler", "unlocked"}
  BY <1>1 DEF SimInv, Threads, ThreadOK, Pending
<1>3. pc[c] = "outside"
  BY <1>2 DEF SimInv, Threads, ThreadOK
<1>4. current[c] = simCurrent[c] /\ simCurrent[c] \in Proc
  BY <1>3 DEF SimInv, IInv, SimulatorAgrees, TypeOK
<1>5. procState[simCurrent[c]] = "RUNNING"
  BY <1>4 DEF SimInv, IInv, StateMatchesPlace
<1>6. \A d \in CPU : ~Unserved(d, "YIELD") /\ ~Unserved(d, "TERMINATE")
  BY <1>1 DEF Unserved
<1>7. Op(simCurrent[c]).type \notin {"IO", "TERMINATE"}
  BY <1>4, <1>5, <1>6 DEF SimInv, Positions, Blocked, Ended
<1>8. Op(simCurrent[c]).type \in OpTypes
  BY <1>4, ProgramShape DEF SimInv, DataOK, Op
<1>. QED BY <1>1, <1>3, <1>4, <1>5, <1>7, <1>8 DEF OpTypes

SamePending(c) == /\ Pending(c)' <=> Pending(c)
                  /\ \A e \in CpuStates : Unserved(c, e)' <=> Unserved(c, e)

LEMMA OthersStay ==
  ASSUME Calls, NEW c \in CPU, NEW d \in CPU \ {c},
         UNCHANGED <<cpuState[d], called[d], pc[d], simCurrent[d], at[d]>>
  PROVE  SamePending(d) /\ (ThreadOK(d) => ThreadOK(d)') /\ Returning(d)' = Returning(d)
BY DEF SamePending, Pending, Unserved, ThreadOK, Returning

LEMMA MovesKeepEvents ==
  ASSUME SimInv, Calls', NEW c \in CPU, Moves(c)
  PROVE  Threads' /\ \A d \in CPU : SamePending(d)
<1>. USE DEF SimInv
<1>1. /\ UNCHANGED vars
      /\ \A d \in CPU \ {c} : UNCHANGED <<cpuState[d], called[d], pc[d], simCurrent[d], at[d]>>
  <2>1. UNCHANGED vars
    BY DEF Moves, LoopTop, Awake, CountTerminated, EnterHandler, SwitchUnlock, SwitchRelock, LeaveHandler
  <2>2. \A d \in CPU \ {c} : UNCHANGED <<cpuState[d], called[d], at[d]>>
    BY DEF Calls, Moves, LoopTop, Awake, CountTerminated, EnterHandler, SwitchUnlock, SwitchRelock,
       LeaveHandler, Move
  <2>. QED BY <2>1, <2>2 DEF vars
<1>2. \A d \in CPU \ {c} : SamePending(d) /\ ThreadOK(d)'
  BY <1>1, OthersStay DEF Threads
<1>3. ThreadOK(c) /\ pc'[c] = pc[c] /\ simCurrent'[c] = simCurrent[c] /\ pc[c] \in Locations
  BY <1>1 DEF Threads, vars, IInv, TypeOK
<1>4. SamePending(c) /\ ThreadOK(c)'
  <2>1. CASE LoopTop(c)
    BY <1>3, <2>1 DEF LoopTop, Move, Calls, SamePending, Pending, Unserved, ThreadOK
  <2>2. CASE Awake(c)
    BY <1>3, <2>2 DEF Awake, Move, Calls, CpuStates, SamePending, Pending, Unserved, ThreadOK
  <2>3. CASE CountTerminated(c)
    BY <1>3, <2>3 DEF CountTerminated, Move, Calls, SamePending, Pending, Unserved, ThreadOK
  <2>4. CASE EnterHandler(c)
    BY <1>3, <2>4 DEF EnterHandler, Move, Calls, SamePending, Pending, Unserved, ThreadOK
  <2>5. CASE SwitchUnlock(c)
    BY <1>3, <2>5 DEF SwitchUnlock, Move, Calls, SamePending, Pending, Unserved, ThreadOK
  <2>6. CASE SwitchRelock(c)
    BY <1>3, <2>6 DEF SwitchRelock, Move, Calls, SamePending, Pending, Unserved, ThreadOK
  <2>7. CASE LeaveHandler(c)
    BY <1>3, <2>7 DEF LeaveHandler, Move, Calls, SamePending, Pending, Unserved, ThreadOK
  <2>8. CASE Move(c, "simulated", "signalled") /\ UNCHANGED <<called, cpuState>>
    BY <1>3, <2>8 DEF Move, Calls, SamePending, Pending, Unserved, ThreadOK
  <2>. QED BY <2>1, <2>2, <2>3, <2>4, <2>5, <2>6, <2>7, <2>8 DEF Moves
<1>. QED BY <1>2, <1>4 DEF Threads
(* An event is passed on, acted upon and answered by one CPU at a time.      *)
LEMMA MovesHandshake ==
  ASSUME SimInv, NEW c \in CPU, Moves(c), \A d \in CPU : SamePending(d)
  PROVE  Handshake'
<1>. USE DEF SimInv
<1>1. /\ n' = n /\ simCurrent' = simCurrent /\ (served => served')
      /\ \A d \in CPU \ {c} : at'[d] = at[d] /\ called'[d] = called[d]
  <2>1. UNCHANGED <<n, simCurrent>>
    BY DEF Moves, LoopTop, Awake, CountTerminated, EnterHandler, SwitchUnlock, SwitchRelock, LeaveHandler, vars
  <2>3. served' = served \/ served' = (served \/ c = n)
    BY DEF Moves, LoopTop, Awake, CountTerminated, EnterHandler, SwitchUnlock, SwitchRelock, LeaveHandler
  <2>4. served => served'
    BY <2>3
  <2>2. \A d \in CPU \ {c} : at'[d] = at[d] /\ called'[d] = called[d]
    BY DEF Calls, Moves, LoopTop, Awake, CountTerminated, EnterHandler, SwitchUnlock, SwitchRelock,
       LeaveHandler, Move
  <2>. QED BY <2>1, <2>2, <2>4
<1>2. sup' = sup \/ (sup = "noWriters" /\ sup' = "print")
                 \/ (sup = "answer" /\ sup' = "answered" /\ n = c /\ at[c] = "top")
  BY DEF Moves, LoopTop, Awake, CountTerminated, EnterHandler, SwitchUnlock, SwitchRelock,
     LeaveHandler, WriterLock, WriterUnlock, Answers, Move
<1>4. \A d \in CPU : Pending(d)' <=> Pending(d)
  BY DEF SamePending
<1>5. \/ ~Returning(c) /\ ~Returning(c)'
      \/ Returning(c) /\ Returning(c)' /\ (at'[c] = "top" => served' = (served \/ c = n))
      \/ Returning(c) /\ at[c] = "top"
  BY DEF Calls, Moves, LoopTop, Awake, CountTerminated, EnterHandler, SwitchUnlock, SwitchRelock,
     LeaveHandler, Move, Returning
<1>6. \A d \in CPU \ {c} : Returning(d)' = Returning(d)
  BY <1>1 DEF Returning
<1>t. ASSUME at[c] = "top"
      PROVE  /\ ~Pending(c) /\ ~Pending(c)' /\ ~Returning(c)'
             /\ sup' = IF sup = "answer" /\ n = c THEN "answered" ELSE sup
             /\ served' = served
  <2>1. LoopTop(c)
    BY <1>t DEF Moves, Awake, CountTerminated, EnterHandler, SwitchUnlock, SwitchRelock, LeaveHandler, Move
  <2>. QED BY <1>4, <1>t, <2>1 DEF LoopTop, Answers, Move, Calls, Pending, Returning
<1>7. ASSUME NEW d \in CPU, (Pending(d) \/ Returning(d))' PROVE sup' = "answer" /\ n' = d
  <2>1. Pending(d) \/ Returning(d)
    BY <1>4, <1>5, <1>6, <1>7
  <2>2. sup = "answer" /\ n = d
    BY <2>1 DEF Handshake
  <2>3. d = c => at[c] # "top"
    BY <1>7, <1>t
  <2>. QED BY <1>1, <1>2, <2>2, <2>3
<1>8. ASSUME sup' = "answer"
      PROVE  n' \in CPU /\ (Pending(n) \/ Returning(n))' /\ (at'[n'] = "top" => served')
  <2>1. sup = "answer" /\ n \in CPU /\ (Pending(n) \/ Returning(n)) /\ (at[n] = "top" => served)
    BY <1>2, <1>8 DEF Handshake
  <2>2. CASE n # c
    <3>1. (Pending(n) <=> Pending(n)') /\ Returning(n)' = Returning(n) /\ at'[n] = at[n]
      BY <1>1, <1>4, <1>6, <2>1, <2>2
    <3>. QED BY <1>1, <2>1, <3>1
  <2>3. CASE n = c
    <3>1. at[c] # "top"
      BY <1>8, <1>t, <2>1, <2>3
    <3>2. (Pending(c) \/ Returning(c)) /\ n' = c
      BY <1>1, <2>1, <2>3
    <3>3. Pending(c)' \/ (Returning(c)' /\ (at'[c] = "top" => served'))
      BY <1>4, <1>5, <2>3, <3>1, <3>2
    <3>4. Pending(c)' => at'[c] # "top"
      BY DEF Pending
    <3>. QED BY <2>1, <2>3, <3>2, <3>3, <3>4
  <2>. QED BY <2>2, <2>3
<1>9. ASSUME sup' = "answered" PROVE n' \in CPU /\ served'
  <2>1. sup = "answered" \/ (sup = "answer" /\ n = c /\ at[c] = "top")
    BY <1>2, <1>9
  <2>. QED BY <1>1, <2>1 DEF Handshake
<1>. QED BY <1>7, <1>8, <1>9 DEF Handshake
(* Nothing is said of a process as long as its state, its place and the      *)
(* events about it stay.                                                     *)
LEMMA EventsStay ==
  ASSUME Positions, Creation,
         \A d \in CPU, e \in {"YIELD", "TERMINATE"} : Unserved(d, e)' <=> Unserved(d, e),
         UNCHANGED <<procState, current, ip, ioQueue, waking, created>>,
         \A s \in {"ioWake", "creatWake", "creatRelock"} : sup' = s <=> sup = s
  PROVE  Positions' /\ Creation'
<1>1. \A p \in Proc : (Blocked(p)' <=> Blocked(p)) /\ (Ended(p)' <=> Ended(p))
  BY DEF Blocked, Ended
<1>2. \A p \in Proc : Op(p)' = Op(p) /\ (InIo(p)' <=> InIo(p))
  BY DEF Op, InIo
<1>3. sup' = "ioWake" <=> sup = "ioWake"
  OBVIOUS
<1>4. Positions'
  BY <1>1, <1>2, <1>3 DEF Positions, OneRequest
<1>5. (sup' = "creatRelock" <=> sup = "creatRelock") /\ (sup' = "creatWake" <=> sup = "creatWake")
  OBVIOUS
<1>6. Creation'
  BY <1>5 DEF Creation
<1>. QED BY <1>4, <1>6

LEMMA MovesPositions ==
  ASSUME SimInv, NEW c \in CPU, Moves(c), UNCHANGED timeSlice, \A d \in CPU : SamePending(d)
  PROVE  Positions' /\ Creation' /\ Slices'
<1>. USE DEF SimInv
<1>1. UNCHANGED <<procState, current, simCurrent, pc, ip, ioQueue, waking, created, timer>>
  BY DEF Moves, LoopTop, Awake, CountTerminated, EnterHandler, SwitchUnlock, SwitchRelock, LeaveHandler,
     vars, simData
<1>2. sup' = sup \/ (sup = "noWriters" /\ sup' = "print") \/ (sup = "answer" /\ sup' = "answered")
  BY DEF Moves, LoopTop, Awake, CountTerminated, EnterHandler, SwitchUnlock, SwitchRelock,
     LeaveHandler, WriterLock, WriterUnlock, Answers, Move
<1>3. Positions' /\ Creation'
  <2>1. \A s \in {"ioWake", "creatWake", "creatRelock"} : sup' = s <=> sup = s
    BY <1>2
  <2>2. Positions /\ Creation
    OBVIOUS
  <2>3. \A d \in CPU, e \in {"YIELD", "TERMINATE"} : Unserved(d, e)' <=> Unserved(d, e)
    BY DEF SamePending, CpuStates
  <2>. QED BY <1>1, <2>1, <2>2, <2>3, EventsStay
<1>4. timeSlice > 0 => \A d \in CPU : simCurrent'[d] # NoProc /\ ~Pending(d)' => timer'[d] > 0
  BY <1>1 DEF Slices, SamePending
<1>5. ASSUME timeSlice = -1, NEW d \in CPU
      PROVE  timer'[d] = -1 /\ pc'[d] # "requeue" /\ "PREEMPT" \notin {cpuState'[d], called'[d]}
  <2>1. timer[d] = -1 /\ pc[d] # "requeue" /\ cpuState[d] # "PREEMPT" /\ called[d] # "PREEMPT"
    BY <1>5 DEF Slices
  <2>2. /\ cpuState'[d] \in {cpuState[d], "IDLE", "RUNNING"}
        /\ called'[d] \in {called[d], cpuState[d], "IDLE"}
    BY DEF Calls, Moves, LoopTop, Awake, CountTerminated, EnterHandler, SwitchUnlock, SwitchRelock,
       LeaveHandler
  <2>. QED BY <1>1, <2>1, <2>2
<1>. QED BY <1>3, <1>4, <1>5 DEF Slices

(* A process is counted as terminated once, before it is.                    *)
LEMMA MovesTermination ==
  ASSUME SimInv, NEW c \in CPU, Moves(c), \A d \in CPU : SamePending(d), sup # "exited"
  PROVE  Termination'
<1>. USE DEF SimInv
<1>0. UNCHANGED <<procState, current, pc>>
  BY DEF Moves, LoopTop, Awake, CountTerminated, EnterHandler, SwitchUnlock, SwitchRelock, LeaveHandler,
     vars
<1>1. sup' # "exited"
  BY DEF Moves, LoopTop, Awake, CountTerminated, EnterHandler, SwitchUnlock, SwitchRelock,
     LeaveHandler, WriterLock, WriterUnlock, Answers, Move
<1>2. EndedAtExit'
  BY <1>1 DEF EndedAtExit
<1>3. \A d \in CPU \ {c} : at'[d] = at[d]
  BY DEF Calls, Moves, LoopTop, Awake, CountTerminated, EnterHandler, SwitchUnlock, SwitchRelock,
     LeaveHandler, Move
<1>4. \A d \in CPU : Unserved(d, "TERMINATE")' <=> Unserved(d, "TERMINATE")
  BY DEF SamePending, CpuStates
<1>5. CASE ~CountTerminated(c)
  <2>1. terminated' = terminated
    BY <1>5 DEF Moves, LoopTop, Awake, EnterHandler, SwitchUnlock, SwitchRelock, LeaveHandler, simData
  <2>2. Unserved(c, "TERMINATE") =>
          (at'[c] \in {"enter", "handler"} <=> at[c] \in {"enter", "handler"})
    BY <1>5 DEF Moves, LoopTop, Awake, EnterHandler, SwitchUnlock, SwitchRelock, LeaveHandler, Move, Calls,
       Unserved, Pending, Threads, ThreadOK
  <2>3. Gone' = Gone
    BY <1>0, <1>3, <1>4, <2>2 DEF Gone
  <2>. QED BY <1>2, <2>1, <2>3 DEF Termination
<1>6. CASE CountTerminated(c)
  <2>1. at[c] = "count" /\ at'[c] = "enter" /\ terminated' = terminated + 1
    BY <1>6 DEF CountTerminated, Move, Calls
  <2>2. Unserved(c, "TERMINATE")
    BY <2>1 DEF Unserved, Pending, Threads, ThreadOK
  <2>3. current[c] \in Proc /\ procState[current[c]] = "RUNNING"
    <3>1. simCurrent[c] # NoProc /\ pc[c] = "outside"
      BY <2>1 DEF Threads, ThreadOK, Pending
    <3>2. simCurrent[c] = current[c] /\ current[c] \in Proc
      BY <3>1 DEF IInv, SimulatorAgrees, TypeOK
    <3>. QED BY <3>2 DEF IInv, StateMatchesPlace
  <2>4. \A d \in CPU : current[d] = current[c] => d = c
    BY <2>3 DEF IInv, OnePlace, Holds
  <2>5. current[c] \notin Gone
    BY <2>1, <2>3, <2>4 DEF Gone
  <2>6. Gone' = Gone \cup {current[c]}
    BY <1>0, <1>3, <1>4, <2>1, <2>2, <2>3 DEF Gone
  <2>7. IsFiniteSet(Gone)
    BY Numbers, FS_Subset DEF Gone
  <2>8. Cardinality(Gone') = Cardinality(Gone) + 1
    BY <2>5, <2>6, <2>7, FS_AddElement
  <2>. QED BY <1>2, <2>1, <2>8 DEF Termination
<1>. QED BY <1>5, <1>6
-----------------------------------------------------------------------------
(* The scheduler's steps                                                     *)

(* Every step of the simulation is one of the scheduler's, as its comments   *)
(* say it is used, or none.                                                  *)
LEMMA NextRefines == SimInv /\ [SimNext]_allVars => [Next]_vars
<1>. SUFFICES ASSUME SimInv, [SimNext]_allVars PROVE [Next]_vars
  OBVIOUS
<1>. USE DEF SimInv
<1>1. ASSUME NEW c \in CPU, InHandler(c) PROVE Next
  <2>0. at[c] = "handler"
    BY <1>1 DEF InHandler
  <2>1. CASE called[c] = "IDLE" /\ Idle(c)
    <3>1. simCurrent[c] = NoProc
      BY <2>0, <2>1 DEF Threads, ThreadOK
    <3>. QED BY <2>1, <3>1 DEF Next, CpuStep, IdleCall
  <2>2. CASE called[c] # "IDLE" /\ (PreemptTake(c) \/ Yield(c) \/ Terminate(c))
    <3>1. simCurrent[c] # NoProc
      BY <2>0, <2>2 DEF Threads, ThreadOK, Pending
    <3>. QED BY <2>2, <3>1 DEF Next, CpuStep, Event
  <2>3. CASE IdleResume(c) \/ PreemptRequeue(c) \/ Dequeue(c) \/ Install(c)
    BY <2>3 DEF Next, CpuStep, HandlerStep
  <2>. QED BY <1>1, <2>1, <2>2, <2>3 DEF InHandler
<1>2. ASSUME NEW c \in CPU, SwitchProcess(c) PROVE Next
  BY <1>2 DEF SwitchProcess, Next, CpuStep, HandlerStep
<1>3. ASSUME NEW c \in CPU, Moves(c) PROVE UNCHANGED vars
  BY <1>3 DEF Moves, LoopTop, Awake, CountTerminated, EnterHandler, SwitchUnlock, SwitchRelock, LeaveHandler
<1>4. CASE IoWakeUp
  <2>1. waking \in Proc /\ procState[waking] = "WAITING" /\ WakeUp(waking)
    BY <1>4 DEF IoWakeUp, Goto, Positions
  <2>2. IoDone(waking)
    BY <2>1 DEF IoDone
  <2>. QED BY <2>1, <2>2 DEF Next
<1>5. CASE CreatWakeUp
  <2>1. sup = "creatWake" /\ WakeUp(created + 1)
    BY <1>5 DEF CreatWakeUp, Goto
  <2>2. created \in 0..NumProcs /\ created < NumProcs
    BY <2>1 DEF Creation, DataOK
  <2>3. created + 1 \in Proc
    BY <2>2, Numbers
  <2>4. procState[created + 1] = "NEW"
    BY <2>1, <2>2, <2>3 DEF Creation
  <2>5. Admit(created + 1)
    BY <2>1, <2>4 DEF Admit
  <2>. QED BY <2>3, <2>5 DEF Next
<1>6. CASE SupervisorStep /\ ~IoWakeUp /\ ~CreatWakeUp
  <2>1. UNCHANGED vars
    BY <1>6 DEF SupervisorStep, BeginTick, ReaderLock, ReaderUnlock, SimulateCpu, CpusDone, Answered,
         SimulateIo, IoRelock, SimulateCreat, CreatRelock
  <2>. QED BY <2>1
<1>7. CASE SpuriousWait
  <2>1. (\E c \in CPU : SpuriousWakeup(c)) \/ UNCHANGED vars
    BY <1>7 DEF SpuriousWait
  <2>. QED BY <2>1 DEF Next
<1>8. CASE UNCHANGED allVars
  BY <1>8 DEF allVars
<1>. QED BY <1>1, <1>2, <1>3, <1>4, <1>5, <1>6, <1>7, <1>8 DEF SimNext, ThreadStep, Exited, Moves

LEMMA SchedulerKeeps ==
  ASSUME SimInv, NEW c \in CPU, InScheduler(c), UNCHANGED timeSlice
  PROVE  Threads' /\ Handshake' /\ Slices'
<1>. USE DEF SimInv
<1>1. UNCHANGED <<sup, n, at, called, cpuState, timer, served, simCurrent>>
  BY SchedulerFrame DEF IInv
<1>2. \A d \in CPU : \/ pc'[d] = pc[d] /\ d # c
                     \/ pc[d] = "asleep" /\ pc'[d] = "woken"
                     \/ d = c /\ at[c] = "handler" /\ pc'[c] # "outside"
  BY SchedulerFrame DEF IInv
<1>3. \A d \in CPU : pc'[d] = "requeue" => pc[d] = "requeue" \/ called[d] = "PREEMPT"
  BY SchedulerFrame DEF IInv
<1>4. \A d \in CPU : (Pending(d)' <=> Pending(d)) /\ (Returning(d)' <=> Returning(d))
  BY <1>1 DEF Pending, Returning
<1>5. Threads'
  <2>1. ASSUME NEW d \in CPU PROVE ThreadOK(d)'
    <3>1. ThreadOK(d)
      BY DEF Threads
    <3>2. at[d] \notin {"handler", "unlocked"} => pc'[d] = "outside"
      BY <1>2, <3>1 DEF ThreadOK
    <3>3. at[d] = "unlocked" => pc'[d] = "switch"
      BY <1>2, <3>1 DEF ThreadOK
    <3>. QED BY <1>1, <1>4, <3>1, <3>2, <3>3 DEF ThreadOK
  <2>. QED BY <2>1 DEF Threads
<1>6. Handshake'
  BY <1>1, <1>4 DEF Handshake
<1>7. Slices'
  BY <1>1, <1>3, <1>4 DEF Slices
<1>. QED BY <1>5, <1>6, <1>7
(* The process that CPU c's handler is called for runs.                      *)
LEMMA ServedProcess ==
  ASSUME SimInv, NEW c \in CPU, Pending(c), pc[c] = "outside"
  PROVE  /\ current[c] \in Proc /\ procState[current[c]] = "RUNNING"
         /\ \A d \in CPU : current[d] = current[c] => d = c
<1>. USE DEF SimInv
<1>1. simCurrent[c] # NoProc
  BY DEF Threads, ThreadOK
<1>2. simCurrent[c] = current[c] /\ current[c] \in Proc
  BY <1>1 DEF IInv, SimulatorAgrees, TypeOK
<1>. QED BY <1>2 DEF IInv, StateMatchesPlace, OnePlace, Holds

(* yield() and terminate() move the process from the ones about to be        *)
(* blocked, or ended, to those that are.                                     *)
LEMMA ReleasePositions ==
  ASSUME SimInv, NEW c \in CPU, InScheduler(c), at[c] = "handler", sup # "exited",
         \/ called[c] = "YIELD" /\ Yield(c)
         \/ called[c] = "TERMINATE" /\ Terminate(c)
  PROVE  Positions' /\ Creation' /\ Termination'
<1>. USE DEF SimInv
<1>. DEFINE p == current[c]
            state == IF called[c] = "YIELD" THEN "WAITING" ELSE "TERMINATED"
<1>1. UNCHANGED <<sup, at, called, cpuState, ip, ioQueue, waking, terminated, created>>
  BY SchedulerFrame DEF IInv
<1>2. pc[c] = "outside" /\ Pending(c)
  BY DEF Yield, Terminate, Release, Pending
<1>3. p \in Proc /\ procState[p] = "RUNNING" /\ \A d \in CPU : current[d] = p => d = c
  BY <1>2, ServedProcess
<1>4. /\ procState' = [procState EXCEPT ![p] = state]
      /\ current' = [current EXCEPT ![c] = NoProc]
      /\ pc' = [pc EXCEPT ![c] = "dequeue"]
  BY <1>3, SchedulerAssumption DEF Yield, Terminate, Release
<1>5. /\ \A q \in Proc : procState'[q] = IF q = p THEN state ELSE procState[q]
      /\ \A d \in CPU : pc'[d] = (IF d = c THEN "dequeue" ELSE pc[d])
      /\ \A d \in CPU \ {c} : current'[d] = current[d]
  BY <1>4 DEF IInv, TypeOK
<1>6. /\ \A e \in {"YIELD", "TERMINATE"} : Unserved(c, e) <=> called[c] = e
      /\ \A e \in {"YIELD", "TERMINATE"} : ~Unserved(c, e)'
      /\ \A d \in CPU \ {c}, e \in {"YIELD", "TERMINATE"} : Unserved(d, e)' <=> Unserved(d, e)
  BY <1>1, <1>2, <1>5 DEF Unserved, Pending
<1>7. called[c] \in {"YIELD", "TERMINATE"} /\ state \in {"WAITING", "TERMINATED"}
  OBVIOUS
<1>8. waking # p
  BY <1>3, SchedulerAssumption DEF Positions
<1>. HIDE DEF p
<1>e. ASSUME NEW q \in Proc PROVE (Blocked(q)' <=> Blocked(q)) /\ (Ended(q)' <=> Ended(q))
  <2>1. CASE q = p
    <3>1. ~(\E d \in CPU \ {c} : current[d] = p)
      BY <1>3
    <3>2. procState'[p] = state /\ procState[p] = "RUNNING" /\ waking' # p /\ current[c] = p
      BY <1>1, <1>3, <1>5, <1>8 DEF p
    <3>3. ~(\E d \in CPU : Unserved(d, "YIELD")' /\ current'[d] = p)
      BY <1>5, <1>6, <3>1
    <3>4. ~(\E d \in CPU : Unserved(d, "TERMINATE")' /\ current'[d] = p)
      BY <1>5, <1>6, <3>1
    <3>5. (\E d \in CPU : Unserved(d, "YIELD") /\ current[d] = p) <=> called[c] = "YIELD"
      BY <1>6, <3>1, <3>2
    <3>6. (\E d \in CPU : Unserved(d, "TERMINATE") /\ current[d] = p) <=> called[c] = "TERMINATE"
      BY <1>6, <3>1, <3>2
    <3>. QED BY <1>7, <2>1, <3>2, <3>3, <3>4, <3>5, <3>6 DEF Blocked, Ended
  <2>2. CASE q # p
    <3>1. procState'[q] = procState[q] /\ waking' = waking
      BY <1>1, <1>5, <2>2
    <3>2. \A e \in {"YIELD", "TERMINATE"} : (\E d \in CPU : Unserved(d, e)' /\ current'[d] = q)
                                              <=> (\E d \in CPU : Unserved(d, e) /\ current[d] = q)
      BY <1>5, <1>6, <2>2 DEF p
    <3>3. (\E d \in CPU : Unserved(d, "YIELD")' /\ current'[d] = q)
            <=> (\E d \in CPU : Unserved(d, "YIELD") /\ current[d] = q)
      BY <3>2
    <3>4. (\E d \in CPU : Unserved(d, "TERMINATE")' /\ current'[d] = q)
            <=> (\E d \in CPU : Unserved(d, "TERMINATE") /\ current[d] = q)
      BY <3>2
    <3>. QED BY <3>1, <3>3, <3>4 DEF Blocked, Ended
  <2>. QED BY <2>1, <2>2
<1>p. Positions'
  <2>1. \A q \in Proc : Op(q)' = Op(q) /\ (InIo(q)' <=> InIo(q))
    BY <1>1 DEF Op, InIo
  <2>2. sup = "ioWake" => waking \in Proc /\ procState'[waking] = "WAITING"
    BY <1>5, <1>8 DEF Positions
  <2>. QED BY <1>1, <1>e, <2>1, <2>2 DEF Positions, OneRequest
<1>c. Creation'
  BY <1>1, <1>3, <1>5, <1>7 DEF Creation
<1>t. Termination'
  <2>1. ASSUME NEW q \in Proc PROVE q \in Gone' <=> q \in Gone
    <3>1. CASE q = p
      <4>1. q \in Gone <=> called[c] = "TERMINATE"
        BY <1>3, <1>6, <3>1 DEF Gone, p
      <4>2. q \in Gone' <=> state = "TERMINATED"
        BY <1>1, <1>3, <1>5, <1>6, <3>1 DEF Gone, p
      <4>. QED BY <1>7, <4>1, <4>2
    <3>2. CASE q # p
      BY <1>1, <1>5, <1>6, <3>2 DEF Gone, p
    <3>. QED BY <3>1, <3>2
  <2>2. Gone' = Gone
    BY <2>1 DEF Gone
  <2>. QED BY <1>1, <2>2 DEF Termination, EndedAtExit
<1>. QED BY <1>p, <1>c, <1>t

(* The other steps of the scheduler move no process to or from its wait for  *)
(* I/O, or its end.                                                          *)
LEMMA SchedulerPositions ==
  ASSUME SimInv, NEW c \in CPU, InScheduler(c), sup # "exited"
  PROVE  Positions' /\ Creation' /\ Termination'
<1>. USE DEF SimInv
<1>1. CASE at[c] = "handler" /\ \/ called[c] = "YIELD" /\ Yield(c)
                                \/ called[c] = "TERMINATE" /\ Terminate(c)
  BY <1>1, ReleasePositions
<1>2. CASE \/ called[c] = "IDLE" /\ Idle(c) /\ at[c] = "handler"
           \/ called[c] = "PREEMPT" /\ PreemptTake(c) /\ at[c] = "handler"
           \/ IdleResume(c) \/ PreemptRequeue(c) \/ Dequeue(c) \/ Install(c) \/ SpuriousWakeup(c)
  <2>1. UNCHANGED <<sup, at, called, cpuState, ip, ioQueue, waking, terminated, created>>
    BY SchedulerFrame DEF IInv
  <2>2. \A d \in CPU : \/ pc'[d] = pc[d] /\ d # c
                       \/ pc[d] = "asleep" /\ pc'[d] = "woken"
                       \/ d = c /\ at[c] = "handler" /\ pc'[c] # "outside"
    BY SchedulerFrame DEF IInv
  <2>3. /\ \A d \in CPU \ {c} : current'[d] = current[d]
        /\ current'[c] = current[c] \/ ~(\E e \in {"YIELD", "TERMINATE"} : Unserved(c, e))
    BY <1>2 DEF Idle, IdleResume, IdleTest, PreemptTake, PreemptRequeue, Dequeue, Install, SpuriousWakeup,
       Unserved, IInv, TypeOK
  <2>4. ~(\E e \in {"YIELD", "TERMINATE"} : Unserved(c, e))
    BY <1>2 DEF Idle, IdleResume, IdleTest, PreemptTake, PreemptRequeue, Dequeue, Install, SpuriousWakeup,
       Unserved
  <2>5. ~(\E e \in {"YIELD", "TERMINATE"} : Unserved(c, e)')
    <3>1. pc'[c] # "outside"
      BY <1>2, <2>2 DEF Idle, IdleResume, IdleTest, PreemptTake, PreemptRequeue, Dequeue, Install,
         SpuriousWakeup
    <3>. QED BY <3>1 DEF Unserved
  <2>6. \A d \in CPU \ {c}, e \in {"YIELD", "TERMINATE"} : Unserved(d, e)' <=> Unserved(d, e)
    BY <2>1, <2>2 DEF Unserved, Pending
  <2>7. \A q \in Proc : \/ procState'[q] = procState[q]
                        \/ procState[q] \in {"READY", "RUNNING"} /\ procState'[q] \in {"READY", "RUNNING"}
    <3>1. CASE PreemptRequeue(c)
      <4>1. pc[c] = "requeue" /\ procState' = [procState EXCEPT ![local[c]] = "READY"]
        BY <3>1 DEF PreemptRequeue, MakeReady
      <4>2. \A q \in Proc : local[c] = q => procState[q] = "RUNNING"
        BY <4>1 DEF IInv, StateMatchesPlace
      <4>. QED BY <4>1, <4>2 DEF IInv, TypeOK
    <3>2. CASE Install(c)
      <4>1. pc[c] = "install" /\ (\/ procState' = [procState EXCEPT ![local[c]] = "RUNNING"]
                                  \/ procState' = procState)
        BY <3>2 DEF Install
      <4>2. \A q \in Proc : local[c] = q => procState[q] = "READY"
        BY <4>1 DEF IInv, StateMatchesPlace
      <4>. QED BY <4>1, <4>2 DEF IInv, TypeOK
    <3>3. CASE procState' = procState
      BY <3>3
    <3>. QED BY <1>2, <3>1, <3>2, <3>3 DEF Idle, IdleResume, IdleTest, PreemptTake, Dequeue, SpuriousWakeup
  <2>8. \A e \in {"YIELD", "TERMINATE"}, q \in Proc :
           (\E d \in CPU : Unserved(d, e)' /\ current'[d] = q)
             <=> (\E d \in CPU : Unserved(d, e) /\ current[d] = q)
    BY <2>3, <2>4, <2>5, <2>6
  <2>9. \A q \in Proc : (Blocked(q)' <=> Blocked(q)) /\ (Ended(q)' <=> Ended(q))
    BY <2>1, <2>7, <2>8 DEF Blocked, Ended
  <2>10. Positions'
    <3>1. \A q \in Proc : Op(q)' = Op(q) /\ (InIo(q)' <=> InIo(q))
      BY <2>1 DEF Op, InIo
    <3>2. sup = "ioWake" => waking \in Proc /\ procState'[waking] = "WAITING"
      BY <2>7 DEF Positions
    <3>. QED BY <2>1, <2>9, <3>1, <3>2 DEF Positions, OneRequest
  <2>11. Creation'
    BY <2>1, <2>7 DEF Creation
  <2>12. Termination'
    <3>1. \A q \in Proc : q \in Gone' <=> q \in Gone
      BY <2>1, <2>3, <2>4, <2>5, <2>6, <2>7 DEF Gone
    <3>2. Gone' = Gone
      BY <3>1 DEF Gone
    <3>. QED BY <2>1, <3>2 DEF Termination, EndedAtExit
  <2>. QED BY <2>10, <2>11, <2>12
<1>. QED BY <1>1, <1>2 DEF InScheduler, InHandler
(* context_switch() starts the process's time slice; the event has been      *)
(* acted upon, and only the return from the handler is left.                 *)
LEMMA SwitchKeeps ==
  ASSUME SimInv, NEW c \in CPU, SwitchProcess(c), UNCHANGED timeSlice, sup # "exited"
  PROVE  Threads' /\ Handshake' /\ Positions' /\ Creation' /\ Termination' /\ Slices'
<1>. USE DEF SimInv
<1>1. /\ UNCHANGED <<sup, n, called, cpuState, ip, ioQueue, waking, terminated, created, served, timeSlice>>
      /\ UNCHANGED <<procState, current>>
      /\ at[c] = "unlocked" /\ pc[c] = "switch"
  BY DEF SwitchProcess, ContextSwitch, simData, Move
<1>2. /\ at'[c] = "relock" /\ pc'[c] = "outside" /\ timer'[c] = timeSlice
      /\ \A d \in CPU \ {c} : UNCHANGED <<at[d], pc[d], timer[d], simCurrent[d], cpuState[d], called[d]>>
  <2>1. timer \in [CPU -> Int]
    BY DEF DataOK
  <2>. QED BY <1>1, <2>1 DEF SwitchProcess, ContextSwitch, SetTimer, Move, Calls, IInv, TypeOK
<1>3. \A d \in CPU \ {c} : SamePending(d) /\ ThreadOK(d)' /\ (Returning(d)' <=> Returning(d))
  BY <1>2, OthersStay DEF Threads
<1>4. /\ ~Pending(c)' /\ (Returning(c)' <=> Pending(c)) /\ ~Returning(c)
      /\ \A e : ~Unserved(c, e) /\ ~Unserved(c, e)'
  BY <1>1, <1>2 DEF Pending, Returning, Unserved
<1>5. Threads'
  <2>1. ThreadOK(c)'
    BY <1>2, <1>4 DEF ThreadOK
  <2>. QED BY <1>3, <2>1 DEF Threads
<1>6. \A d \in CPU, e \in {"YIELD", "TERMINATE"} : Unserved(d, e)' <=> Unserved(d, e)
  BY <1>3, <1>4 DEF SamePending, CpuStates
<1>7. Positions' /\ Creation'
  <2>1. Positions /\ Creation
    OBVIOUS
  <2>. QED BY <1>1, <1>6, <2>1, EventsStay
<1>8. Handshake'
  <2>1. \A d \in CPU \ {c} : Pending(d)' <=> Pending(d)
    BY <1>3 DEF SamePending
  <2>2. \A d \in CPU : (Pending(d) \/ Returning(d))' <=> (Pending(d) \/ Returning(d))
    BY <1>3, <1>4, <2>1
  <2>3. n' = n /\ sup' = sup /\ served' = served
    BY <1>1
  <2>4. ASSUME sup' = "answer"
        PROVE  n' \in CPU /\ (Pending(n) \/ Returning(n))' /\ (at'[n'] = "top" => served')
    <3>1. sup = "answer" /\ n \in CPU /\ (Pending(n) \/ Returning(n)) /\ (at[n] = "top" => served)
      BY <2>3, <2>4 DEF Handshake
    <3>2. Pending(n)' \/ Returning(n)'
      BY <2>2, <2>3, <3>1
    <3>3. at'[n] = "top" => at[n] = "top"
      BY <1>2, <3>1
    <3>. QED BY <2>3, <3>1, <3>2, <3>3
  <2>5. sup' = "answered" => n' \in CPU /\ served'
    BY <2>3 DEF Handshake
  <2>6. \A d \in CPU : (Pending(d) \/ Returning(d))' => sup' = "answer" /\ n' = d
    BY <2>2, <2>3 DEF Handshake
  <2>. QED BY <2>4, <2>5, <2>6 DEF Handshake
<1>9. Termination'
  <2>1. \A p \in Proc : p \in Gone' <=> p \in Gone
    BY <1>1, <1>2, <1>4, <1>6 DEF Gone
  <2>2. Gone' = Gone
    BY <2>1 DEF Gone
  <2>. QED BY <1>1, <2>2 DEF Termination, EndedAtExit
<1>10. Slices'
  <2>1. timeSlice > 0 => \A d \in CPU : simCurrent'[d] # NoProc /\ ~Pending(d)' => timer'[d] > 0
    BY <1>2, <1>3 DEF Slices, SamePending
  <2>2. timeSlice = -1 => \A d \in CPU : /\ timer'[d] = -1 /\ pc'[d] # "requeue"
                                         /\ "PREEMPT" \notin {cpuState'[d], called'[d]}
    BY <1>1, <1>2 DEF Slices
  <2>. QED BY <1>1, <2>1, <2>2 DEF Slices
<1>. QED BY <1>5, <1>7, <1>8, <1>9, <1>10
-----------------------------------------------------------------------------
(* The supervisor's steps                                                    *)

(* While the supervisor waits for no CPU, no thread has an event.            *)
LEMMA NoEvents ==
  ASSUME SimInv, sup # "answer"
  PROVE  /\ \A c \in CPU : ~Pending(c) /\ ~Returning(c)
         /\ \A c \in CPU : \A e : ~Unserved(c, e)
BY DEF SimInv, Handshake, Unserved

LEMMA SupervisorMovesKeep ==
  ASSUME SimInv, SupervisorMoves, UNCHANGED timeSlice
  PROVE  Threads' /\ Handshake' /\ Positions' /\ Creation' /\ Termination' /\ Slices'
<1>. USE DEF SimInv
<1>1. UNCHANGED <<procState, current, simCurrent, pc, at, called, cpuState, timer, ip, ioQueue, waking,
                  terminated, created, served>>
  BY DEF SupervisorMoves, BeginTick, ReaderLock, ReaderUnlock, CpusDone, Answered, IoRelock, SimulateCreat,
     vars, simData, threadVars, supOther
<1>2. /\ sup \notin {"answer", "ioWake", "creatWake", "creatRelock", "exited"}
      /\ sup' \notin {"answer", "answered", "ioWake", "creatRelock"}
  BY DEF SupervisorMoves, BeginTick, ReaderLock, ReaderUnlock, CpusDone, Answered, IoRelock, SimulateCreat,
     Goto
<1>3. \A d \in CPU : ~Pending(d) /\ ~Returning(d) /\ \A e : ~Unserved(d, e)
  BY <1>2, NoEvents
<1>4. \A d \in CPU : ~Pending(d)' /\ ~Returning(d)' /\ \A e : ~Unserved(d, e)'
  BY <1>1, <1>3 DEF Pending, Returning, Unserved
<1>5. Threads'
  BY <1>1, <1>3, <1>4 DEF Threads, ThreadOK
<1>6. Handshake'
  BY <1>2, <1>4 DEF Handshake
<1>7. Positions' /\ Creation'
  <2>1. \A p \in Proc : (Blocked(p)' <=> Blocked(p)) /\ (Ended(p)' <=> Ended(p))
    BY <1>1, <1>3, <1>4 DEF Blocked, Ended
  <2>2. \A p \in Proc : Op(p)' = Op(p) /\ (InIo(p)' <=> InIo(p))
    BY <1>1 DEF Op, InIo
  <2>3. Positions'
    BY <1>1, <1>2, <2>1, <2>2 DEF Positions, OneRequest
  <2>4. sup' = "creatWake" => created < NumProcs
    BY DEF SupervisorMoves, BeginTick, ReaderLock, ReaderUnlock, CpusDone, Answered, IoRelock, SimulateCreat,
       Goto, CreationDue
  <2>. QED BY <1>1, <1>2, <2>3, <2>4 DEF Creation
<1>8. Gone' = Gone
  BY <1>1, <1>3, <1>4 DEF Gone
<1>9. EndedAtExit'
  <2>. SUFFICES ASSUME sup' = "exited" PROVE AllTerminated'
    BY DEF EndedAtExit
  <2>1. terminated >= NumProcs
    BY <1>2 DEF SupervisorMoves, BeginTick, ReaderLock, ReaderUnlock, CpusDone, Answered, IoRelock,
       SimulateCreat, Goto, AllEnded
  <2>2. Gone \subseteq Proc /\ Cardinality(Gone) >= NumProcs
    BY <2>1 DEF Termination, Gone
  <2>3. Gone = Proc
    <3>1. IsFiniteSet(Proc) /\ NumProcs = Cardinality(Proc)
      BY Numbers DEF NumProcs
    <3>2. Cardinality(Gone) <= Cardinality(Proc) /\ (Cardinality(Gone) = Cardinality(Proc) => Gone = Proc)
      BY <2>2, <3>1, FS_Subset
    <3>3. Cardinality(Gone) \in Nat /\ Cardinality(Proc) \in Nat
      BY <2>2, <3>1, FS_Subset, FS_CardinalityType
    <3>. QED BY <2>2, <3>1, <3>2, <3>3
  <2>. QED BY <1>1, <1>3, <2>3 DEF Gone, AllTerminated
<1>10. Termination'
  BY <1>1, <1>8, <1>9 DEF Termination
<1>11. Slices'
  BY <1>1, <1>3, <1>4 DEF Slices
<1>. QED BY <1>5, <1>6, <1>7, <1>10, <1>11
(* simulate_cpus(): the supervisor goes on to the next CPU, or tells this    *)
(* one of an event of the process it runs.                                   *)
LEMMA NextCpuKeeps ==
  ASSUME SimInv, sup = "cpus", NextCpu,
         UNCHANGED <<vars, called, ip, ioQueue, waking, terminated, created, timeSlice>>,
         \A c \in CPU : \/ timer'[c] = timer[c]
                        \/ timer[c] > 0 /\ timer'[c] > 0 /\ timeSlice # -1
  PROVE  Threads' /\ Handshake' /\ Positions' /\ Creation' /\ Termination' /\ Slices'
<1>. USE DEF SimInv
<1>1. UNCHANGED <<procState, current, simCurrent, pc, at, called, cpuState, ip, ioQueue, waking,
                  terminated, created, served>> /\ sup' = "cpus"
  BY DEF NextCpu, vars
<1>2. \A d \in CPU : ~Pending(d) /\ ~Returning(d) /\ \A e : ~Unserved(d, e)
  BY NoEvents
<1>3. \A d \in CPU : ~Pending(d)' /\ ~Returning(d)' /\ \A e : ~Unserved(d, e)'
  BY <1>1, <1>2 DEF Pending, Returning, Unserved
<1>4. Threads'
  BY <1>1, <1>2, <1>3 DEF Threads, ThreadOK
<1>5. Handshake'
  BY <1>1, <1>3 DEF Handshake
<1>6. Positions' /\ Creation'
  BY <1>1, <1>2, <1>3, EventsStay
<1>7. Gone' = Gone
  BY <1>1, <1>2, <1>3 DEF Gone
<1>8. Termination'
  BY <1>1, <1>7 DEF Termination, EndedAtExit
<1>9. Slices'
  BY <1>1, <1>2, <1>3 DEF Slices
<1>. QED BY <1>4, <1>5, <1>6, <1>8, <1>9

LEMMA DispatchKeeps ==
  ASSUME SimInv, ~lost', sup = "cpus", n \in CPU, simCurrent[n] # NoProc,
         NEW event \in {"PREEMPT", "YIELD", "TERMINATE"}, Dispatch(n, event),
         UNCHANGED <<vars, called, waking, terminated, created, timeSlice>>,
         \A p \in Proc : Op(p)'.type = IF p # simCurrent[n] THEN Op(p).type
                                       ELSE IF event = "YIELD" THEN "IO"
                                       ELSE IF event = "PREEMPT" THEN "CPU" ELSE "TERMINATE",
         OneRequest', \A p \in Proc : InIo(p)' <=> InIo(p) \/ (p = simCurrent[n] /\ event = "YIELD"),
         \A c \in CPU \ {n} : timer'[c] = timer[c],
         timeSlice = -1 => timer' = timer /\ event # "PREEMPT"
  PROVE  Threads' /\ Handshake' /\ Positions' /\ Creation' /\ Termination' /\ Slices'
<1>. USE DEF SimInv
<1>1. PICK c \in CPU : c = n
  OBVIOUS
<1>. DEFINE p == current[c]
<1>a. at[c] \in {"simulated", "signalled"}
  BY <1>1 DEF Dispatch
<1>b. cpuState[c] = "RUNNING"
  BY <1>a, NoEvents DEF Threads, ThreadOK, Pending
<1>2. /\ at[c] \in {"simulated", "signalled"} /\ cpuState[c] = "RUNNING" /\ pc[c] = "outside"
      /\ p = simCurrent[c] /\ p \in Proc /\ procState[p] = "RUNNING" /\ Op(p).type = "CPU"
      /\ \A d \in CPU : current[d] = p => d = c
  BY <1>1, <1>a, <1>b, Found DEF IInv, OnePlace, Holds
<1>3. /\ UNCHANGED <<procState, current, simCurrent, pc, called, waking, terminated, created, n>>
      /\ sup' = "answer" /\ ~served' /\ at'[c] = "signalled" /\ cpuState'[c] = event
      /\ \A d \in CPU \ {c} : at'[d] = at[d] /\ cpuState'[d] = cpuState[d]
  BY <1>1, <1>2 DEF Dispatch, vars, Calls
<1>4. \A d \in CPU : ~Pending(d) /\ ~Returning(d) /\ \A e : ~Unserved(d, e)
  BY NoEvents
<1>5. /\ Pending(c)' /\ ~Returning(c)' /\ \A e : Unserved(c, e)' <=> e = event
      /\ \A d \in CPU \ {c} : ~Pending(d)' /\ ~Returning(d)' /\ \A e : ~Unserved(d, e)'
  BY <1>2, <1>3, <1>4 DEF Pending, Returning, Unserved
<1>6. Threads'
  <2>1. ThreadOK(c)'
    BY <1>1, <1>2, <1>3 DEF ThreadOK
  <2>2. ASSUME NEW d \in CPU \ {c} PROVE ThreadOK(d)'
    BY <1>3, <1>4, <1>5 DEF Threads, ThreadOK
  <2>. QED BY <2>1, <2>2 DEF Threads
<1>7. Handshake'
  <2>1. n' = c
    BY <1>1, <1>3
  <2>2. Pending(n)' /\ at'[n'] # "top"
    BY <1>3, <1>5, <2>1
  <2>3. \A d \in CPU : (Pending(d) \/ Returning(d))' => sup' = "answer" /\ n' = d
    BY <1>3, <1>5, <2>1
  <2>. QED BY <1>3, <2>1, <2>2, <2>3 DEF Handshake
<1>8. \A q \in Proc : /\ Blocked(q)' <=> IF q = p THEN event = "YIELD" ELSE Blocked(q)
                      /\ Ended(q)' <=> IF q = p THEN event = "TERMINATE" ELSE Ended(q)
  BY <1>2, <1>3, <1>4, <1>5 DEF Blocked, Ended
<1>9. Positions'
  <2>1. waking = NoProc /\ waking' = NoProc /\ sup' # "ioWake"
    BY <1>3 DEF Positions
  <2>2. \A q \in Proc : /\ Op(q).type = "IO" <=> InIo(q)
                        /\ Op(q).type = "IO" <=> Blocked(q)
                        /\ Op(q).type = "TERMINATE" <=> Ended(q)
    BY DEF Positions
  <2>3. simCurrent[n] = p
    BY <1>1, <1>2
  <2>4. \A q \in Proc : Op(q).type = Op(q)'.type \/ q = p
    BY <2>3
  <2>5. ASSUME NEW q \in Proc
        PROVE  /\ Op(q)'.type = "IO" <=> InIo(q)'
               /\ Op(q)'.type = "IO" <=> Blocked(q)'
               /\ Op(q)'.type = "TERMINATE" <=> Ended(q)'
    BY <1>2, <1>8, <2>2, <2>3
  <2>. QED BY <2>1, <2>5 DEF Positions
<1>10. Creation'
  BY <1>3 DEF Creation
<1>11. Termination'
  <2>1. Gone' = Gone
    BY <1>3, <1>4, <1>5 DEF Gone
  <2>. QED BY <1>3, <2>1 DEF Termination, EndedAtExit
<1>12. Slices'
  <2>1. timeSlice > 0 => \A d \in CPU : simCurrent'[d] # NoProc /\ ~Pending(d)' => timer'[d] > 0
    BY <1>1, <1>3, <1>4, <1>5 DEF Slices
  <2>2. timeSlice = -1 => \A d \in CPU : /\ timer'[d] = -1 /\ pc'[d] # "requeue"
                                         /\ "PREEMPT" \notin {cpuState'[d], called'[d]}
    BY <1>1, <1>3 DEF Slices
  <2>. QED BY <2>1, <2>2 DEF Slices
<1>. QED BY <1>6, <1>7, <1>9, <1>10, <1>11, <1>12
(* simulate_cpus(), one CPU.                                                 *)
LEMMA SimulateCpuKeeps ==
  ASSUME SimInv, ~lost', SimulateCpu, UNCHANGED timeSlice
  PROVE  Threads' /\ Handshake' /\ Positions' /\ Creation' /\ Termination' /\ Slices'
<1>. USE DEF SimInv
<1>0. /\ sup = "cpus" /\ n \in CPU /\ n \in 1..NumCpus /\ NumCpus \in Nat
      /\ UNCHANGED <<vars, called, waking, terminated, created, tick, timeSlice>>
  BY Numbers DEF SimulateCpu, threadVars
<1>2. CASE simCurrent[n] = NoProc
  <2>1. NextCpu /\ UNCHANGED <<timer, ip, left, ioQueue>>
    BY <1>2 DEF SimulateCpu
  <2>. QED BY <1>0, <2>1, NextCpuKeeps
<1>3. CASE simCurrent[n] # NoProc
  <2>0. PICK p \in Proc : p = simCurrent[n]
    BY <1>0, <1>3, Found
  <2>1. p \in Proc /\ Op(p).type = "CPU" /\ ~Pending(n) /\ p = current[n]
    BY <1>0, <1>3, <2>0, Found
  <2>2. timer[n] \in Int /\ left[p] \in Nat /\ ioQueue \in Seq(Requests)
    BY <1>0, <2>1 DEF DataOK, Requests
  <2>3. CASE RunBurst(n, p)
    <3>1. PICK r : r = IF timer[n] < 0 THEN -1 ELSE timer[n] - 1
      OBVIOUS
    <3>2. /\ left[p] > 0 /\ left' = [left EXCEPT ![p] = left[p] - 1] /\ timer' = [timer EXCEPT ![n] = r]
          /\ IF r = 0 THEN Dispatch(n, "PREEMPT") ELSE NextCpu
          /\ UNCHANGED <<ip, ioQueue>>
      BY <2>3, <3>1 DEF RunBurst, Expired
    <3>3. /\ timeSlice > 0 => timer[n] > 0
          /\ timeSlice = -1 => timer[n] = -1
          /\ timeSlice = -1 \/ timeSlice > 0
      BY <1>0, <1>3, <2>1, OSSimAssumption DEF Slices, DataOK
    <3>4. /\ r = -1 \/ (r \in 0..timer[n] /\ timeSlice > 0)
          /\ timeSlice > 0 => timer[n] > 0 /\ r = timer[n] - 1
          /\ timeSlice = -1 => r = timer[n]
      BY <2>2, <3>1, <3>3
    <3>5. timer'[n] = r /\ \A c \in CPU \ {n} : timer'[c] = timer[c]
      BY <1>0, <3>2 DEF DataOK
    <3>8. CASE r = 0
      <4>1. Dispatch(n, "PREEMPT") /\ timeSlice # -1
        BY <3>2, <3>3, <3>4, <3>8
      <4>2. (\A q \in Proc : Op(q)' = Op(q)) /\ OneRequest' /\ (\A q \in Proc : InIo(q)' <=> InIo(q))
        BY <3>2 DEF Op, InIo, OneRequest, Positions
      <4>3. \A q \in Proc : Op(q)'.type = IF q # simCurrent[n] THEN Op(q).type ELSE "CPU"
        BY <2>0, <2>1, <4>2
      <4>. DEFINE event == "PREEMPT"
      <4>4. \A q \in Proc : Op(q)'.type = IF q # simCurrent[n] THEN Op(q).type
                                          ELSE IF event = "YIELD" THEN "IO"
                                          ELSE IF event = "PREEMPT" THEN "CPU" ELSE "TERMINATE"
        BY <4>3
      <4>5. \A q \in Proc : InIo(q)' <=> InIo(q) \/ (q = simCurrent[n] /\ event = "YIELD")
        BY <4>2
      <4>6. event \in {"PREEMPT", "YIELD", "TERMINATE"} /\ Dispatch(n, event)
        BY <4>1
      <4>7. timeSlice = -1 => timer' = timer /\ event # "PREEMPT"
        BY <4>1
      <4>. HIDE DEF event
      <4>. QED BY <1>0, <1>3, <3>5, <4>2, <4>4, <4>5, <4>6, <4>7, DispatchKeeps
    <3>9. CASE r # 0
      <4>1. NextCpu
        BY <3>2, <3>9
      <4>2. timer'[n] = timer[n] \/ (timer[n] > 0 /\ timer'[n] > 0 /\ timeSlice # -1)
        BY <2>2, <3>3, <3>4, <3>5, <3>9
      <4>3. \A c \in CPU : timer'[c] = timer[c] \/ (timer[c] > 0 /\ timer'[c] > 0 /\ timeSlice # -1)
        BY <3>5, <4>2
      <4>. QED BY <1>0, <3>2, <4>1, <4>3, NextCpuKeeps
    <3>. QED BY <3>8, <3>9
  <2>4. CASE EndBurst(n, p)
    <3>. DEFINE op == Program[p][ip[p] + 1]
    <3>1. /\ Advance(p) /\ timer' = timer
          /\ IF op.type = "IO" THEN SubmitIo(p, op.time) /\ Dispatch(n, "YIELD")
                               ELSE UNCHANGED ioQueue /\ Dispatch(n, "TERMINATE")
      BY <2>4 DEF EndBurst
    <3>2. /\ op.type \in {"IO", "TERMINATE"} /\ Op(p)' = op /\ op.time \in Nat
          /\ \A q \in Proc \ {p} : Op(q)' = Op(q)
      <4>1. Op(p).type \in {"CPU", "IO"}
        BY <2>1
      <4>. QED BY <2>1, <3>1, <4>1, Advances
    <3>3. ~InIo(p)
      BY <2>1 DEF Positions
    <3>. HIDE DEF op
    <3>4. \E event \in {"YIELD", "TERMINATE"} :
             /\ Dispatch(n, event)
             /\ op.type = IF event = "YIELD" THEN "IO" ELSE "TERMINATE"
             /\ ioQueue' \in Seq(Requests) /\ OneRequest'
             /\ \A q \in Proc : InIo(q)' <=> InIo(q) \/ (q = p /\ event = "YIELD")
      <4>1. CASE op.type = "IO"
        <5>1. SubmitIo(p, op.time) /\ Dispatch(n, "YIELD")
          BY <3>1, <4>1
        <5>2. /\ ioQueue' \in Seq(Requests) /\ OneRequest'
              /\ \A q \in Proc : InIo(q)' <=> InIo(q) \/ q = p
          BY <2>1, <3>2, <3>3, <5>1, RequestAdded DEF Positions
        <5>. QED BY <4>1, <5>1, <5>2
      <4>2. CASE op.type = "TERMINATE"
        <5>1. UNCHANGED ioQueue /\ Dispatch(n, "TERMINATE")
          BY <3>1, <4>2
        <5>2. OneRequest' /\ \A q \in Proc : InIo(q)' <=> InIo(q)
          BY <5>1 DEF InIo, OneRequest, Positions
        <5>. QED BY <2>2, <4>2, <5>1, <5>2
      <4>. QED BY <3>2, <4>1, <4>2
    <3>5. PICK event \in {"YIELD", "TERMINATE"} :
             /\ Dispatch(n, event)
             /\ op.type = IF event = "YIELD" THEN "IO" ELSE "TERMINATE"
             /\ ioQueue' \in Seq(Requests) /\ OneRequest'
             /\ \A q \in Proc : InIo(q)' <=> InIo(q) \/ (q = p /\ event = "YIELD")
      BY <3>4
    <3>6. \A q \in Proc : Op(q)'.type = IF q # simCurrent[n] THEN Op(q).type
                                        ELSE IF event = "YIELD" THEN "IO"
                                        ELSE IF event = "PREEMPT" THEN "CPU" ELSE "TERMINATE"
      BY <2>0, <3>2, <3>5
    <3>7. \A c \in CPU \ {n} : timer'[c] = timer[c]
      BY <3>1
    <3>8. timeSlice = -1 => timer' = timer /\ event # "PREEMPT"
      BY <3>1
    <3>9. event \in {"PREEMPT", "YIELD", "TERMINATE"}
      OBVIOUS
    <3>10. \A q \in Proc : InIo(q)' <=> InIo(q) \/ (q = simCurrent[n] /\ event = "YIELD")
      BY <2>0, <3>5
    <3>11. Dispatch(n, event) /\ OneRequest'
      BY <3>5
    <3>. QED BY <1>0, <1>3, <3>6, <3>7, <3>8, <3>9, <3>10, <3>11, DispatchKeeps
  <2>5. CASE ReportBlocked(p)
    BY <2>1, <2>5 DEF ReportBlocked
  <2>. QED BY <1>3, <2>0, <2>3, <2>4, <2>5 DEF SimulateCpu
<1>. QED BY <1>2, <1>3
(* simulate_io(): the process of a completed request is not in the queue,    *)
(* and goes on with its CPU burst when it has been woken.                    *)
LEMMA SimulateIoKeeps ==
  ASSUME SimInv, SimulateIo, UNCHANGED timeSlice
  PROVE  Threads' /\ Handshake' /\ Positions' /\ Creation' /\ Termination' /\ Slices'
<1>. USE DEF SimInv
<1>1. /\ UNCHANGED <<procState, current, simCurrent, pc, at, called, cpuState, timer, terminated, created,
                     tick, served, n, timeSlice>>
      /\ sup = "io" /\ sup' \in {"creat", "ioWake"}
  BY DEF SimulateIo, vars, supOther, threadVars, Goto
<1>2. \A d \in CPU : ~Pending(d) /\ ~Returning(d) /\ \A e : ~Unserved(d, e)
  BY <1>1, NoEvents
<1>3. \A d \in CPU : ~Pending(d)' /\ ~Returning(d)' /\ \A e : ~Unserved(d, e)'
  BY <1>1, <1>2 DEF Pending, Returning, Unserved
<1>4. Threads'
  BY <1>1, <1>2, <1>3 DEF Threads, ThreadOK
<1>5. Handshake'
  BY <1>1, <1>3 DEF Handshake
<1>6. Creation'
  BY <1>1 DEF Creation
<1>7. Termination'
  <2>1. Gone' = Gone
    BY <1>1, <1>2, <1>3 DEF Gone
  <2>. QED BY <1>1, <2>1 DEF Termination, EndedAtExit
<1>8. Slices'
  BY <1>1, <1>2, <1>3 DEF Slices
<1>9. waking = NoProc
  BY <1>1 DEF Positions
<1>10. CASE sup' = "creat" /\ UNCHANGED <<ip, left, waking>>
  <2>1. ioQueue' \in Seq(Requests) /\ OneRequest' /\ \A q \in Proc : InIo(q)' <=> InIo(q)
    <3>1. CASE ioQueue' = ioQueue
      BY <3>1 DEF DataOK, Requests, Positions, OneRequest, InIo
    <3>2. CASE ioQueue # <<>> /\ Head(ioQueue).left > 0 /\ ioQueue' = [ioQueue EXCEPT ![1].left = @ - 1]
      BY <3>2, RequestServed DEF Positions
    <3>. QED BY <1>10, <3>1, <3>2 DEF SimulateIo, Goto
  <2>2. \A q \in Proc : /\ Op(q)' = Op(q)
                        /\ (Blocked(q)' <=> Blocked(q)) /\ (Ended(q)' <=> Ended(q))
    BY <1>1, <1>2, <1>3, <1>10 DEF Op, Blocked, Ended
  <2>3. Positions'
    BY <1>1, <1>9, <1>10, <2>1, <2>2 DEF Positions
  <2>. QED BY <1>4, <1>5, <1>6, <1>7, <1>8, <2>3
<1>11. CASE ~(sup' = "creat" /\ UNCHANGED <<ip, left, waking>>)
  <2>1. /\ sup' = "ioWake" /\ ioQueue # <<>>
        /\ waking' = Head(ioQueue).proc /\ Advance(waking') /\ ioQueue' = Tail(ioQueue)
    BY <1>1, <1>11 DEF SimulateIo, Goto
  <2>2. Head(ioQueue).proc \in Proc /\ InIo(Head(ioQueue).proc)
    BY <2>1, HeadRequest DEF Requests
  <2>3. PICK w \in Proc : w = Head(ioQueue).proc
    BY <2>2
  <2>4. /\ w \in Proc /\ InIo(w) /\ waking' = w /\ Advance(w)
        /\ ioQueue' \in Seq(Requests) /\ OneRequest'
        /\ \A q \in Proc : InIo(q)' <=> InIo(q) /\ q # w
    BY <2>1, <2>2, <2>3, RequestRemoved DEF Positions
  <2>5. Op(w).type = "IO" /\ Blocked(w)
    BY <2>4 DEF Positions
  <2>6. procState[w] = "WAITING"
    BY <1>2, <2>5 DEF Blocked
  <2>7. /\ Op(w)' = Program[w][ip[w] + 1] /\ Op(w)'.type = "CPU"
        /\ \A q \in Proc \ {w} : Op(q)' = Op(q)
        /\ ip' \in [Proc -> Nat] /\ left' \in [Proc -> Nat]
        /\ \A q \in Proc : ip'[q] \in 1..Len(Program[q]) /\ left'[q] \in 0..Program[q][ip'[q]].time
    <3>1. Op(w).type \in {"CPU", "IO"}
      BY <2>5
    <3>. QED BY <2>4, <2>5, <3>1, Advances
  <2>8. \A q \in Proc : /\ Blocked(q)' <=> Blocked(q) /\ q # w
                        /\ Ended(q)' <=> Ended(q)
    BY <1>1, <1>2, <1>3, <1>9, <2>4, SchedulerAssumption DEF Blocked, Ended
  <2>9. ASSUME NEW q \in Proc
        PROVE  /\ Op(q)'.type = "IO" <=> InIo(q)'
               /\ Op(q)'.type = "IO" <=> Blocked(q)'
               /\ Op(q)'.type = "TERMINATE" <=> Ended(q)'
    <3>1. CASE q = w
      <4>1. ~Ended(w)
        BY <1>2, <2>6 DEF Ended
      <4>2. Op(q)'.type = "CPU"
        BY <2>7, <3>1
      <4>. QED BY <2>4, <2>8, <3>1, <4>1, <4>2
    <3>2. CASE q # w
      <4>1. Op(q)'.type = Op(q).type
        BY <2>7, <3>2
      <4>2. /\ Op(q).type = "IO" <=> InIo(q)
            /\ Op(q).type = "IO" <=> Blocked(q)
            /\ Op(q).type = "TERMINATE" <=> Ended(q)
        BY DEF Positions
      <4>. QED BY <2>4, <2>8, <3>2, <4>1, <4>2
    <3>. QED BY <3>1, <3>2
  <2>10. Positions'
    BY <1>1, <2>1, <2>4, <2>6, <2>9 DEF Positions
  <2>. QED BY <1>4, <1>5, <1>6, <1>7, <1>8, <2>10
<1>. QED BY <1>10, <1>11

(* wake_up(): the process is ready, whether it is new or its I/O is done.    *)
LEMMA WakeUpKeeps ==
  ASSUME SimInv, IoWakeUp \/ CreatWakeUp, UNCHANGED timeSlice
  PROVE  Threads' /\ Handshake' /\ Positions' /\ Creation' /\ Termination' /\ Slices'
<1>. USE DEF SimInv
<1>1. UNCHANGED <<current, simCurrent, at, called, cpuState, timer, ip, left, ioQueue, terminated, created,
                  tick, served, n, timeSlice>>
  BY DEF IoWakeUp, CreatWakeUp, WakeUp, supOther, threadVars
<1>2. PICK p \in Proc :
         /\ WakeUp(p) /\ waking' = NoProc
         /\ \/ sup = "ioWake" /\ sup' = "ioRelock" /\ p = waking /\ procState[p] = "WAITING"
            \/ /\ sup = "creatWake" /\ sup' = "creatRelock" /\ p = created + 1 /\ procState[p] = "NEW"
               /\ waking = NoProc
  <2>1. CASE IoWakeUp
    <3>1. waking \in Proc /\ procState[waking] = "WAITING" /\ WakeUp(waking) /\ waking' = NoProc
          /\ sup = "ioWake" /\ sup' = "ioRelock"
      BY <2>1 DEF IoWakeUp, Goto, Positions
    <3>. QED BY <3>1
  <2>2. CASE CreatWakeUp
    <3>1. sup = "creatWake" /\ sup' = "creatRelock" /\ WakeUp(created + 1) /\ waking' = waking
      BY <2>2 DEF CreatWakeUp, Goto
    <3>2. created \in 0..NumProcs /\ created < NumProcs
      BY <3>1 DEF Creation, DataOK
    <3>3. created + 1 \in Proc
      BY <3>2, Numbers
    <3>4. procState[created + 1] = "NEW"
      BY <3>1, <3>2, <3>3 DEF Creation
    <3>5. waking = NoProc
      BY <3>1 DEF Positions
    <3>. QED BY <3>1, <3>3, <3>4, <3>5
  <2>. QED BY <2>1, <2>2
<1>3. /\ \A q \in Proc : procState'[q] = IF q = p THEN "READY" ELSE procState[q]
      /\ \A d \in CPU : pc'[d] = pc[d] \/ (pc[d] = "asleep" /\ pc'[d] = "woken")
  <2>1. procState' = [procState EXCEPT ![p] = "READY"] /\ pc' \in Signal(pc)
    BY <1>2 DEF WakeUp, MakeReady
  <2>2. pc \in [CPU -> Locations]
    BY DEF IInv, TypeOK
  <2>3. \A d \in CPU : pc'[d] = pc[d] \/ (pc[d] = "asleep" /\ pc'[d] = "woken")
    BY <2>1, <2>2, SignalEffect
  <2>. QED BY <2>1, <2>3 DEF IInv, TypeOK
<1>4. /\ sup \in {"ioWake", "creatWake"} /\ sup' \in {"ioRelock", "creatRelock"}
  BY <1>2
<1>5. \A d \in CPU : ~Pending(d) /\ ~Returning(d) /\ \A e : ~Unserved(d, e)
  BY <1>4, NoEvents
<1>6. \A d \in CPU : ~Pending(d)' /\ ~Returning(d)' /\ \A e : ~Unserved(d, e)'
  BY <1>1, <1>5 DEF Pending, Returning, Unserved
<1>7. Threads'
  BY <1>1, <1>3, <1>5, <1>6 DEF Threads, ThreadOK
<1>8. Handshake'
  BY <1>4, <1>6 DEF Handshake
<1>9. Positions'
  <2>1. \A q \in Proc : /\ Blocked(q)' <=> Blocked(q)
                        /\ Ended(q)' <=> Ended(q)
    BY <1>2, <1>3, <1>5, <1>6, SchedulerAssumption DEF Blocked, Ended
  <2>2. \A q \in Proc : Op(q)' = Op(q) /\ (InIo(q)' <=> InIo(q))
    BY <1>1 DEF Op, InIo
  <2>. QED BY <1>1, <1>2, <1>4, <2>1, <2>2 DEF Positions, OneRequest
<1>10. Creation'
  <2>1. created \in Nat /\ Proc \subseteq Nat
    BY Numbers DEF DataOK
  <2>2. \A q \in Proc : procState[q] = "NEW" <=> q > created
    BY <1>4 DEF Creation
  <2>3. CASE sup = "ioWake"
    <3>1. sup' = "ioRelock" /\ procState[p] = "WAITING"
      BY <1>2, <2>3
    <3>. QED BY <1>1, <1>3, <2>2, <3>1 DEF Creation
  <2>4. CASE sup = "creatWake"
    <3>1. sup' = "creatRelock" /\ p = created + 1 /\ created < NumProcs
      BY <1>2, <2>4 DEF Creation
    <3>2. \A q \in Proc : procState'[q] = "NEW" <=> q > created + 1
      BY <1>3, <2>1, <2>2, <3>1
    <3>. QED BY <1>1, <3>1, <3>2 DEF Creation
  <2>. QED BY <1>4, <2>3, <2>4
<1>11. Termination'
  <2>1. procState[p] # "TERMINATED"
    BY <1>2
  <2>2. Gone' = Gone
    BY <1>1, <1>3, <1>5, <1>6, <2>1 DEF Gone
  <2>. QED BY <1>1, <1>4, <2>2 DEF Termination, EndedAtExit
<1>12. Slices'
  BY <1>1, <1>3, <1>5, <1>6 DEF Slices
<1>. QED BY <1>7, <1>8, <1>9, <1>10, <1>11, <1>12

LEMMA CreatRelockKeeps ==
  ASSUME SimInv, CreatRelock, UNCHANGED timeSlice
  PROVE  Threads' /\ Handshake' /\ Positions' /\ Creation' /\ Termination' /\ Slices'
<1>. USE DEF SimInv
<1>1. /\ UNCHANGED <<procState, current, simCurrent, pc, at, called, cpuState, timer, ip, left, ioQueue, waking,
                     terminated, served, n, timeSlice>>
      /\ sup = "creatRelock" /\ sup' = "sleep" /\ created' = created + 1 /\ NextTick
  BY DEF CreatRelock, vars, supOther, threadVars, Goto, CountCreated
<1>2. \A d \in CPU : ~Pending(d) /\ ~Returning(d) /\ \A e : ~Unserved(d, e)
  BY <1>1, NoEvents
<1>3. \A d \in CPU : ~Pending(d)' /\ ~Returning(d)' /\ \A e : ~Unserved(d, e)'
  BY <1>1, <1>2 DEF Pending, Returning, Unserved
<1>4. Threads'
  BY <1>1, <1>2, <1>3 DEF Threads, ThreadOK
<1>5. Handshake'
  BY <1>1, <1>3 DEF Handshake
<1>6. Positions'
  <2>1. \A q \in Proc : /\ Op(q)' = Op(q) /\ (InIo(q)' <=> InIo(q))
                        /\ (Blocked(q)' <=> Blocked(q)) /\ (Ended(q)' <=> Ended(q))
    BY <1>1, <1>2, <1>3 DEF Op, InIo, Blocked, Ended
  <2>. QED BY <1>1, <2>1 DEF Positions, OneRequest
<1>7. Creation'
  BY <1>1 DEF Creation
<1>8. Termination'
  <2>1. Gone' = Gone
    BY <1>1, <1>2, <1>3 DEF Gone
  <2>. QED BY <1>1, <2>1 DEF Termination, EndedAtExit
<1>9. Slices'
  BY <1>1, <1>2, <1>3 DEF Slices
<1>. QED BY <1>4, <1>5, <1>6, <1>7, <1>8, <1>9
-----------------------------------------------------------------------------
(* The invariant holds                                                       *)

LEMMA NextSimInv ==
  ASSUME SimInv, TypeInv', [SimNext]_allVars, ~lost'
  PROVE  SimInv'
<1>1. IInv'
  BY NextRefines, NextIInv DEF SimInv
<1>2. Calls' /\ DataOK'
  BY DEF TypeInv
<1>. DEFINE Rest == Threads' /\ Handshake' /\ Positions' /\ Creation' /\ Termination' /\ Slices'
<1>3. ASSUME NEW c \in CPU, Moves(c), UNCHANGED timeSlice, sup # "exited" PROVE Rest
  <2>1. Threads' /\ \A d \in CPU : SamePending(d)
    BY <1>2, <1>3, MovesKeepEvents
  <2>2. Handshake'
    BY <1>3, <2>1, MovesHandshake
  <2>3. Positions' /\ Creation' /\ Slices'
    BY <1>3, <2>1, MovesPositions
  <2>4. Termination'
    BY <1>3, <2>1, MovesTermination
  <2>. QED BY <2>1, <2>2, <2>3, <2>4
<1>4. ASSUME NEW c \in CPU, InScheduler(c), UNCHANGED timeSlice, sup # "exited" PROVE Rest
  BY <1>4, SchedulerKeeps, SchedulerPositions
<1>5. ASSUME NEW c \in CPU, SwitchProcess(c), UNCHANGED timeSlice, sup # "exited" PROVE Rest
  BY <1>5, SwitchKeeps
<1>6. ASSUME SupervisorMoves, UNCHANGED timeSlice PROVE Rest
  BY <1>6, SupervisorMovesKeep
<1>7. ASSUME SimulateCpu, UNCHANGED timeSlice PROVE Rest
  BY <1>7, SimulateCpuKeeps
<1>8. ASSUME SimulateIo, UNCHANGED timeSlice PROVE Rest
  BY <1>8, SimulateIoKeeps
<1>9. ASSUME IoWakeUp \/ CreatWakeUp, UNCHANGED timeSlice PROVE Rest
  BY <1>9, WakeUpKeeps
<1>10. ASSUME CreatRelock, UNCHANGED timeSlice PROVE Rest
  BY <1>10, CreatRelockKeeps
<1>11. ASSUME UNCHANGED allVars PROVE Rest
  <2>1. UNCHANGED <<vars, sup, n, at, called, cpuState, timer, ip, left, ioQueue, waking, terminated,
                    created, tick, served, timeSlice>>
    BY <1>11 DEF allVars, simVars
  <2>2. \A c \in CPU : /\ Pending(c)' <=> Pending(c)
                       /\ Returning(c)' <=> Returning(c)
                       /\ \A e : Unserved(c, e)' <=> Unserved(c, e)
    BY <2>1 DEF vars, Pending, Returning, Unserved
  <2>3. Threads' /\ Handshake'
    BY <2>1, <2>2 DEF SimInv, vars, Threads, ThreadOK, Handshake
  <2>4. Positions' /\ Creation'
    BY <2>1, <2>2, EventsStay DEF SimInv, vars
  <2>5. Gone' = Gone
    BY <2>1, <2>2 DEF vars, Gone
  <2>6. Termination' /\ Slices'
    BY <2>1, <2>2, <2>5 DEF SimInv, vars, Termination, EndedAtExit, AllTerminated, Slices
  <2>. QED BY <2>3, <2>4, <2>6
<1>. HIDE DEF Rest
<1>12. ASSUME NEW c \in CPU, ThreadStep(c) PROVE Rest
  <2>1. (Moves(c) \/ InScheduler(c) \/ SwitchProcess(c)) /\ sup # "exited" /\ UNCHANGED timeSlice
    BY <1>12 DEF ThreadStep, Moves, InScheduler
  <2>. QED BY <1>3, <1>4, <1>5, <2>1
<1>13. ASSUME SupervisorStep PROVE Rest
  <2>1. /\ SupervisorMoves \/ SimulateCpu \/ SimulateIo \/ IoWakeUp \/ CreatWakeUp \/ CreatRelock
        /\ UNCHANGED timeSlice
    BY <1>13 DEF SupervisorStep, SupervisorMoves
  <2>. QED BY <1>6, <1>7, <1>8, <1>9, <1>10, <2>1
<1>14. ASSUME SpuriousWait PROVE Rest
  <2>1. /\ SupervisorMoves \/ \E c \in CPU : Moves(c) \/ InScheduler(c)
        /\ sup # "exited" /\ UNCHANGED timeSlice
    BY <1>14 DEF SpuriousWait, SupervisorMoves, Moves, InScheduler
  <2>. QED BY <1>3, <1>4, <1>6, <2>1
<1>15. Rest
  BY <1>11, <1>12, <1>13, <1>14 DEF SimNext, Exited
<1>. QED BY <1>1, <1>2, <1>15 DEF SimInv, Rest

LEMMA InitSimInv == SimInit => SimInv
<1>. SUFFICES ASSUME SimInit PROVE SimInv
  OBVIOUS
<1>0. DataOK /\ Calls
  BY InitTypeInv DEF TypeInv
<1>. USE DEF SimInit
<1>1. IInv
  BY InitIInv
<1>3. /\ \A c \in CPU : /\ at[c] = "top" /\ called[c] = "IDLE" /\ cpuState[c] = "IDLE"
                        /\ timer[c] = -1 /\ pc[c] = "outside" /\ simCurrent[c] = NoProc
      /\ \A p \in Proc : procState[p] = "NEW" /\ ip[p] = 1
      /\ \A c \in CPU : current[c] = NoProc
  BY DEF Init
<1>4. \A c \in CPU : ~Pending(c) /\ ~Returning(c) /\ \A e : ~Unserved(c, e)
  BY <1>3 DEF Pending, Returning, Unserved
<1>5. Threads /\ Handshake /\ Slices
  BY <1>3, <1>4 DEF Threads, ThreadOK, Handshake, Slices
<1>7. Positions
  <2>1. \A p \in Proc : Op(p).type = "CPU"
    BY <1>3, ProgramShape DEF Op
  <2>2. \A p \in Proc : ~InIo(p) /\ ~Blocked(p) /\ ~Ended(p)
    BY <1>3, <1>4 DEF InIo, Blocked, Ended
  <2>. QED BY <2>1, <2>2 DEF Positions, OneRequest
<1>8. Creation
  BY <1>3, Numbers DEF Creation
<1>9. Termination
  <2>1. Gone = {}
    BY <1>3, <1>4 DEF Gone
  <2>. QED BY <2>1, FS_EmptySet DEF Termination, EndedAtExit
<1>. QED BY <1>0, <1>1, <1>5, <1>7, <1>8, <1>9 DEF SimInv

(* As long as no event has been lost, all is well.                           *)
LEMMA SimInvariance == SimSpec => [](lost \/ SimInv)
<1>1. (lost \/ SimInv) /\ TypeInv' /\ [SimNext]_allVars => (lost \/ SimInv)'
  BY NextSimInv, LostSteps
<1>. QED BY <1>1, InitSimInv, TypeInvariance, PTL DEF SimSpec

-----------------------------------------------------------------------------
(* The properties. Nothing is assumed of how fast the threads run: what a    *)
(* lost event spoils is said until the first one is lost.                    *)

(* The scheduler's handler has run before the supervisor goes on with the    *)
(* simulation after an event (os-sim.c:483, 504, 515).                       *)
THEOREM SchedulerRunsFirst == SimSpec => []SchedulerRanFirst
<1>1. lost \/ SimInv => SchedulerRanFirst
  BY DEF SimInv, Handshake, SchedulerRanFirst
<1>. QED BY <1>1, SimInvariance, PTL

(* "Scheduled a process that's blocked on I/0!" and "Scheduled a terminated  *)
(* process!" are never printed.                                              *)
THEOREM BlockedNeverScheduled == SimSpec => []NeverScheduledBlocked
<1>1. lost \/ SimInv => NeverScheduledBlocked
  BY Found DEF NeverScheduledBlocked
<1>. QED BY <1>1, SimInvariance, PTL

(* A process is simulated on one CPU only.                                   *)
THEOREM SimulatedOnce == SimSpec => []NoDoubleSimulation
<1>1. ASSUME SimInv, sup = "cpus", NEW c \in CPU, NEW d \in CPU, simCurrent[c] = simCurrent[d],
             simCurrent[c] # NoProc
      PROVE  c = d
  <2>1. /\ current[c] = simCurrent[c] /\ simCurrent[c] \in Proc
        /\ current[d] = simCurrent[c]
    BY <1>1, Found
  <2>. QED BY <1>1, <2>1 DEF SimInv, IInv, OnePlace, Holds
<1>2. lost \/ SimInv => NoDoubleSimulation
  BY <1>1 DEF NoDoubleSimulation
<1>. QED BY <1>2, SimInvariance, PTL

(* A process waits exactly while its I/O request is queued.                  *)
THEOREM WaitingMeansQueued == SimSpec => []IoQueueMatchesWaiting
<1>1. ASSUME SimInv, sup \in {"io", "creat"}
      PROVE  OneRequest /\ \A p \in Proc : procState[p] = "WAITING" <=> InIo(p)
  <2>1. \A c \in CPU : \A e : ~Unserved(c, e)
    BY <1>1, NoEvents
  <2>2. waking = NoProc
    BY <1>1 DEF SimInv, Positions
  <2>3. \A p \in Proc : Blocked(p) <=> procState[p] = "WAITING"
    BY <2>1, <2>2, SchedulerAssumption DEF Blocked
  <2>. QED BY <1>1, <2>3 DEF SimInv, Positions
<1>2. lost \/ SimInv => IoQueueMatchesWaiting
  BY <1>1 DEF IoQueueMatchesWaiting, OneRequest, InIo
<1>. QED BY <1>2, SimInvariance, PTL

(* No process is simulated beyond its time slice.                            *)
THEOREM SlicesAreHonoured == SimSpec => []SliceHonoured
<1>1. lost \/ SimInv => SliceHonoured
  BY Found DEF SimInv, Slices, SliceHonoured
<1>. QED BY <1>1, SimInvariance, PTL

(* The simulation ends after the last terminate(), not before.               *)
THEOREM ExitIsLast == SimSpec => []ExitsWhenDone
<1>1. lost \/ SimInv => ExitsWhenDone
  BY DEF SimInv, Termination, EndedAtExit, ExitsWhenDone
<1>. QED BY <1>1, SimInvariance, PTL

(* The threads and the supervisor use the scheduler as its specification     *)
(* assumes: what SchedulerProofs shows of it holds in the simulation, until  *)
(* an event is lost.                                                         *)
THEOREM SimulationUsesScheduler == SimSpec => ImplementsScheduler
<1>1. SimInit => Init
  BY DEF SimInit
<1>2. (lost \/ SimInv) /\ [SimNext]_allVars => [lost \/ Next]_vars
  BY NextRefines
<1>. QED BY <1>1, <1>2, SimInvariance, PTL DEF SimSpec, ImplementsScheduler

(* Under FIFO scheduling a process leaves its CPU only for I/O or for good.  *)
THEOREM FifoIsNonPreemptive == SimSpec => FifoRunsToBlock
<1>1. ASSUME SimInv, [SimNext]_allVars, timeSlice = -1, NEW p \in Proc, procState[p] = "RUNNING"
      PROVE  procState'[p] \in {"RUNNING", "WAITING", "TERMINATED"}
  <2>1. procState \in [Proc -> ProcStates] /\ IInv
    BY <1>1 DEF SimInv, IInv, TypeOK
  <2>2. \A c \in CPU : pc[c] # "requeue"
    BY <1>1 DEF SimInv, Slices
  <2>3. [Next]_vars
    BY <1>1, NextRefines
  <2>4. ASSUME NEW c \in CPU, CpuStep(c) \/ SpuriousWakeup(c)
        PROVE  procState'[p] \in {"RUNNING", "WAITING", "TERMINATED"}
    <3>1. procState' = procState
          \/ \E q \in Proc \cup {NoProc}, s \in {"RUNNING", "WAITING", "TERMINATED"} :
                procState' = [procState EXCEPT ![q] = s]
      BY <2>1, <2>2, <2>4 DEF CpuStep, HandlerStep, Event, IdleCall, IdleResume, Idle, IdleTest, PreemptRequeue,
         Dequeue, Install, ContextSwitch, PreemptTake, Yield, Terminate, Release, SpuriousWakeup, IInv, TypeOK
    <3>. QED BY <1>1, <2>1, <3>1
  <2>5. ASSUME NEW q \in Proc, Admit(q) \/ IoDone(q)
        PROVE  procState'[p] \in {"RUNNING", "WAITING", "TERMINATED"}
    BY <1>1, <2>1, <2>5 DEF Admit, IoDone, WakeUp, MakeReady
  <2>6. ASSUME UNCHANGED vars PROVE procState'[p] \in {"RUNNING", "WAITING", "TERMINATED"}
    BY <1>1, <2>6 DEF vars
  <2>. QED BY <2>3, <2>4, <2>5, <2>6 DEF Next, Exit
<1>2. (lost \/ SimInv) /\ [SimNext]_allVars =>
        [~lost /\ timeSlice = -1 =>
           \A p \in Proc : procState[p] = "RUNNING" => procState'[p] \in {"RUNNING", "WAITING", "TERMINATED"}
        ]_allVars
  BY <1>1
<1>. QED BY <1>2, SimInvariance, PTL DEF SimSpec, FifoRunsToBlock

(* Only a thread that comes from idle() can miss the first event that is     *)
(* lost: the supervisor waits for every other until it has answered, which   *)
(* it does within the mutex section that ends in its wait.                   *)
THEOREM EventsAreLostFromIdle == SimSpec => OnlyIdleLosesEvents
<1>1. ASSUME SimInv, [SimNext]_allVars, ~lost, lost' PROVE called[n] = "IDLE"
  <2>1. CASE SimulateCpu
    <3>1. sup = "cpus" /\ n \in CPU /\ simCurrent[n] # NoProc /\ at[n] \notin {"simulated", "signalled"}
      BY <1>1, <2>1 DEF SimulateCpu, NextCpu, RunBurst, EndBurst, ReportBlocked, Dispatch
    <3>2. ~Pending(n) /\ ~Returning(n)
      BY <1>1, <3>1, NoEvents
    <3>3. at[n] \notin {"count", "enter"}
      BY <3>2 DEF Pending
    <3>4. at[n] \in {"top", "handler", "unlocked", "relock", "leave"}
      BY <1>1, <3>1, <3>3 DEF SimInv, Calls, ThreadLocations
    <3>. QED BY <3>2, <3>4 DEF Pending, Returning
  <2>2. CASE ~SimulateCpu
    BY <1>1, <2>2, LostSteps
  <2>. QED BY <2>1, <2>2
<1>2. (lost \/ SimInv) /\ [SimNext]_allVars => [~lost /\ lost' => called[n] = "IDLE"]_allVars
  BY <1>1
<1>. QED BY <1>2, SimInvariance, PTL DEF SimSpec, OnlyIdleLosesEvents
=============================================================================

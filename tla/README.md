# Verification of the portfolio's simulators and cores

TLA+ models of the programs in this repository, TLC configurations that check
them on small instances, and TLAPS proofs about them. Every action and helper
is translated from the C, SystemVerilog or VHDL source; `PROJECT.json` maps
each definition to its lines.

Check a run with `tlc -config X.cfg M` (the table below), the proofs of one of
the modules `*Proofs` with `tlapm M.tla`.

## 1. The system

The repository holds seven independent programs.

| Component | State | Operations | What is hard | What makes it correct |
|---|---|---|---|---|
| OS scheduler: `os_scheduler_simulator/src/scheduler.c` | ready queue (linked through the PCBs), `current[]`, PCB states | `idle`, `preempt`, `yield`, `terminate`, `wake_up` | called by CPU threads and the supervisor at once; two mutexes and a condition variable, released between the parts of one handler | no process lost, duplicated or mislabelled; no lost wakeup; first come, first served; no starvation |
| OS simulator: `os-sim.c`, `process.c` | simulated CPUs, timers, I/O queue, program counters, an inverted readers-writers lock | supervisor ticks (CPUs, I/O, creation, Gantt line), CPU thread loop, `context_switch` | handshake through shared fields and one condition variable per CPU; nested locks | each event is handled before the simulation goes on; every process ends, and then the program |
| Virtual memory: `virtual_memory_simulator` | frame table, page tables, memory, swap list, PTBR | START, STOP, read and write lines of a trace; page fault, eviction, write-back | sequential, but five tables must agree after any sequence of lines; memory runs out | a process reads what it last wrote; nothing leaks; tables agree |
| Cache simulator: `cache_simulator` | blocks per way, LRU stack per set, counters | `cachesim_access` | two arrays describe one order | the results of an LRU cache with write-back |
| Pipelined core: `pipelined_riscv_core` | program counter, four pipeline buffers, register file, memories | one clock cycle | five instructions at once: forwarding, two kinds of stall, flush | the register file changes as if instructions ran one by one |
| Decode core: `riscv_decode_core` | program counter, register file, memory | one clock cycle, one instruction | little overlap | the same instruction set, with stores |
| SCOMP and its peripherals: `scomp_adc_peripheral` | accumulator machine; ADC registers, conversion state machine, shift registers; timer, displays | bus reads and writes, clock cycles | software polls a state machine that runs by itself | a sample read belongs to the conversion that was requested |

`sync_adder` is one register behind one adder. Generated PLL code, schematics,
pin files, simulator scripts and test benches are not modelled.

How the concurrent part fits together: a CPU thread waits on its `wakeup`
condition while its process is simulated. The supervisor, at each tick, runs
one step of every CPU under `simulator_mutex`; when a process ends its burst,
its slice or its life, it sets the CPU's `state`, signals the CPU thread and
waits for an answer. The thread then leaves `simulator_mutex`, takes
`scheduler_lock` as a writer and calls the handler; the handler ends in
`schedule()`, which calls `context_switch()`, which takes `simulator_mutex`
again and answers. `wake_up()` runs in the supervisor thread itself, for a
completed I/O request and for a new process.

## 2. Modules

| Module | Models | Uses |
|---|---|---|
| `ProcessLifecycle` | abstract: what the scheduler promises | |
| `Scheduler` | `scheduler.c`, one action per section under a mutex; the clients are as free as the handlers' comments allow | implements `ProcessLifecycle` |
| `ReadyQueue` | the linked list in `scheduler.c`, driven by the handlers | EXTENDS `Scheduler` |
| `OSSim`, `MCOSSim` | `os-sim.c`, around the scheduler's own actions | EXTENDS, and implements, `Scheduler` |
| `ProcessTable` | the operation tables of `process.c` | EXTENDed by `MCOSSim` |
| `FlatMemory` | abstract: one private array of bytes per process | |
| `Paging` | the virtual memory simulator, one action per trace line; its consistency check | implements `FlatMemory` |
| `PagingSwap`, `MCPaging` | the linked list of `swap.c` beside it | EXTENDS `Paging` |
| `LruSets` | abstract: sets as lists of blocks by recency | |
| `CacheSim` | the cache simulator, one action per access | implements `LruSets` |
| `RiscvIsa` | abstract: one instruction after the other | |
| `RiscvPipeline`, `MCRiscvPipeline` | the pipelined core, one action per clock edge | implements `RiscvIsa` |
| `AdcPeripheral` | the SCOMP's ADC peripheral, one action per clock edge, between the programs that poll it and the converter chip | |
| `SchedulerProofs`, `ReadyQueueProofs`, `OSSimProofs`, `PagingProofs`, `SwapProofs`, `CacheProofs`, `PipelineProofs`, `AdcProofs` | theorems | each EXTENDS the module it is named after; `ReadyQueueProofs` and `OSSimProofs` EXTEND `SchedulerProofs` too, `SwapProofs` EXTENDS `PagingProofs` |

Operators named as variants "for mutation" are deliberately wrong versions of
the definition that follows them. `PROJECT.json` names, for every property, a
variant that breaks it: the check that the property depends on the code.

### Scheduler

`pc[c]` is where CPU thread `c` is inside the handlers, `local[c]` the
handler's local process pointer. The locations correspond to the code between
two locks: `asleep` and `woken` are inside `pthread_cond_wait` in `idle()`,
`dequeue`, `install` and `switch` are the three parts of `schedule()`,
`requeue` is the second part of `preempt()`. A signal wakes one sleeping
thread, whichever; with `SpuriousWakeups` threads also wake by themselves,
which the loop around the wait must withstand. A process that is WAITING or
NEW can be woken at any time: nothing about programs or ticks is assumed.

`OnePlace`, `StateMatchesPlace` and `NoLostWakeup` are the hazards of the two
mutexes: `process->state` is written under one lock by some handlers and under
the other lock by others, and the process is in neither structure between
them. `ImplementsLifecycle` says that all this amounts to `ProcessLifecycle`,
where a process counts as running from its removal from the queue to its
return.

`ReadyQueue` runs the linked list of `scheduler.c` (head, tail and `next`
pointers) beside the sequence that `Scheduler` keeps, in the same steps: every
handler that enqueues or dequeues does so in both. `ListIsQueue` says that the
walk from the head is the sequence, ends at the tail, and that a process that
is not queued points nowhere. That nothing is enqueued twice, on which the list
depends, is not assumed but follows from what the handlers do (`OnePlace`,
`StateMatchesPlace`).

### OSSim

Each section under `simulator_mutex` and each operation on `scheduler_lock` is
an action; the handlers' own steps are `Scheduler`'s actions. `sup` is the
supervisor's location, `at[c]` that of CPU thread `c` outside the handlers.
`timeSlice` is chosen at the start, as the command line does, from the
constant `TimeSlices`. `tick` counts to the next creation (10 ticks in the
code, `CreatePeriod` here). Timers that are negative are all -1.

Programs alternate CPU bursts and I/O and end with a TERMINATE
(`LegalProgram`). `ProcessTable` has the eight tables of `process.c` by their
times, and TLC checks that they are legal. `ossim_workload` runs the first
three of them; the other runs use programs of a burst or two, with which every
interleaving of more than one CPU can be searched.

`scheduler_lock` is an inverted readers-writers lock: the handlers count
themselves in as writers, `context_switch()` counts them out around its own
work and in again, `idle()` is exempt (os-sim.c:255-258), and the supervisor
waits until nobody is in before it prints. `LockBalanced` is what these
scattered increments and decrements must come to: whenever every thread is
outside its handler or asleep in `idle()`, the count is zero. That a Gantt line
may be read while `idle()` changes a state is what the code documents, and no
property forbids it.

`simulator_mutex` is free for whoever comes first, and a thread may be as slow
as it likes. So a thread to which `context_switch()` has given a process on its
way out of `idle()` may not have reached its wait when the supervisor, a tick
later, reports that process's first event; the thread then overwrites the event
with CPU_RUNNING (os-sim.c:242). The code only makes this unlikely, by the
supervisor's sleep of a microsecond between ticks. The history variable `lost`
records that it has happened. `OnlyIdleLosesEvents` says that it can happen in
this way only: after every other handler the supervisor has waited until the
thread is at its wait again. What the simulation promises, it promises until an
event is lost; without its `~lost` TLC finds each of those properties violated,
and `ossim_never_ends` shows the worst case. The type
invariant and `LockBalanced` hold throughout. After a loss a process can be
enqueued twice. The model goes on with a sequence that holds it twice, where
the code's linked list would be damaged, so nothing more is claimed of what
follows.

One assumption: the supervisor's wait for a CPU's answer, which stands in no
loop, ends by a signal only. If it woke spuriously, the supervisor would go on
before the handler has run. The waits that stand in loops may wake spuriously
(`SpuriousWakeups`).

### Paging

One line of the trace is one action with everything it causes: context switch,
page fault, victim selection, eviction and write-back. The random victim is
any frame that is not protected; `replacement` is the `-r` option, chosen at
the start, and with "clocksweep" the model, like the code, evicts nothing.
Contents are short pages of small bytes. A frame is a page table or a page of
data; each use has its own variable.
`pfn` and `dirty` of an invalid entry are kept cleared, since `page_fault()`
sets them before they are used.

Contracts: traces are well formed (a process is started before it is used and
not started twice), addresses are below 2^VADDR_LEN, and, but for the run
`paging_restart`, the process that ran last is not restarted
(`RestartCurrent`). `MaxToken` bounds the swap entries ever created; a step
that would need one more is cut off. `TraceAddress` bounds the addresses.

`CheckValidity` is `check_validity()`, which the program itself runs under
`-c`, panic by panic. `SwapOwned`, `CleanPagesMatchSwap` and
`ImplementsFlatMemory` go beyond it. `output` is the line that the program
prints of an access: the process and the address of the trace, read or write,
and the byte. `FlatMemory` has it too, so `ImplementsFlatMemory` says which
byte each access of the trace returns or changes: an access through another
process's page table, or at another address, does not implement it.
`OutOfMemoryMeansProtected` is the comment at `page_replacement.c:68`.

`Paging` keeps the swap space as a function from tokens to pages.
`PagingSwap` runs the list of `swap.c` beside it (head, tail, next pointers,
size), driven by the same trace lines: a new token is appended, a process that
stops has the entries of its pages dequeued in page order, wherever they are in
the list (`Cleanup`). `SwapListIntact` relates the two; `Nodes` is the walk of
`swap_queue_find()`, which every read, write and free begins with. `size_max`, which only the final
statistics print, is left out.

### CacheSim

`order[s]` is the LRU stack as an array of way numbers, `blocks[s][w]` the
block in a way; their combination must be the list `LruSets` keeps. `request`
is the address and the type of the last access, in both modules, so the hit,
the miss, the write-back and the dirty bit must be those of the access that the
trace asked for. Tags are
stored as an `int` (`ToInt`), here of three bits (`IntRange`), and the run's
tags go up to the largest that fits. A larger one never hits, so
`ImplementsLru` holds for those only. A cache whose number of sets is no power of two uses only
part of them, as in the code.

### RiscvPipeline

Each pipeline buffer is a variable; the combinational logic is operators on
them, one per SystemVerilog module or signal. Instructions are records of
their fields. Modelled are those every stage knows: ADD, SUB, SLT, ADDI, LW
with an aligned address, JAL. A word with another opcode has no effect but
keeps its destination bits, as in the decoder; an invalid one has none (`Nop`).
Words of the opcodes OP, OP-IMM and LOAD with other function fields are left
out: the decoder lets them write back what the ALU or the memory happens to put
out (`ID_Stage.sv:160-187`). Address 0
is never valid after reset (the test bench: "First instruction should always be
a NOP"), so programs start at 4. `mem_en` is 1. At a clock edge `Mem_Stage`
assigns with `=`; the model takes the order that hardware has.

`LegalProgram` is what the core needs of a program: `LoadBasesReady` (no load
whose base register one of the two instructions before computes),
`NoPhantomDestination` (a word with an unknown opcode has zero destination
bits) and `NoJumpToZero` (address 0 stands for an empty buffer). The first two
exclude two errors of the core, both described in section 5. Run `pipeline` and
the refinement theorem are about legal programs; run `pipeline_load_base` is
about one that is not.

`ImplementsIsa` maps the pipeline to the instruction set: the program counter
of the abstract machine is the address of the oldest instruction not yet
completed, its registers are the register file. Completing an instruction is
an abstract step, bubbles are stutters, so a lost, repeated or wrong-path
instruction is as visible as a wrong operand.

### AdcPeripheral

A step is a rising edge of the clock: the processes of `ADC_Peripheral.vhd`
(`Bus`, `Fsm`, `Sck`, `Datapath`) all read the old registers. The generics have
their values in the source: 80 cycles of conversion, so a behaviour is long but
narrow. `cnt` is the three cycle counters, of which one is in use at a time.
BUSY and CONVST are functions of `state` and appear as such. Bits have names,
`<<n, i>>` being bit `i` of the sample of conversion `n`, so that a bit lost,
doubled or from another conversion shows. `Reset` may happen at any edge, and
resets the programs with the processor.

The clients are the `ReadADC` subroutines: that of `gameDemo.asm` clears READY
before it starts, that of `game.asm` (and `code.asm`) does not; a third client
makes any access at any cycle. Between two accesses a program may take any
number of cycles. The converter chip is not in the repository (`Chip`,
external): it converts when CONVST rises, shifts its sample out at falling
edges and takes a command bit at rising ones. To which conversion it then
applies a command is its own matter and no property depends on it:
`CommandIntact` says that it has got the command.

`asked`, `completed`, `cleared` and `command` are history, for the properties
only. `completed` is the last conversion that is complete, `cleared` the last
that was complete when CLEAR_READY was last written. `ReadyIsFresh` says that
READY, unless its clear is under way, stands for a conversion completed after
that, and that the data register holds the sample of the last conversion.
`ClearSparesCompletion` is the other direction: a completion after the write
of CLEAR_READY keeps READY set although the clear takes a cycle to act. There is
one exception, which `completed` and `cleared` make explicit: a CLEAR_READY
written at the very edge at which a conversion completes erases its READY one
cycle later (`ADC_Peripheral.vhd:166-168, 194-196`).
`MaxConversions` bounds the conversions; a program that has used them up
writes no further START.

`StartsServedOnce` leaves out CONV_HIGH because the state machine withdraws
the request there. With the default of one cycle a START written in that very
cycle survives, since the bus process assigns after the withdrawal. With a
longer CONV_HIGH (`CONV_HIGH_CLKS` is a generic) one written before the last
cycle would be withdrawn again.

## 3. Runs

| Run | Instance | States | What it shows |
|---|---|---|---|
| `scheduler` | 2 CPUs, 4 processes, spurious wakeups | 216,765 | safety, refinement and `ReadyRuns` with two threads at every pair of lines; more processes than CPUs, so that processes wait, and moments with fewer, so that CPUs sleep; the linked list with up to four elements, emptied and refilled |
| `ossim_round_robin` | 2 CPUs, 3 processes with I/O, slice 1, spurious wakeups | 510,338 | the whole simulation: timer expiry, I/O completion, creation and exit in every interleaving, until an event is lost, and who can lose one; the writer count; refinement of `Scheduler`, termination |
| `ossim_workload` | 1 CPU, the first 3 tables of `process.c`, creation every 10 ticks, FIFO and slice 3 | 3,489,132 | the shipped programs from the first creation to the exit: no preemption under FIFO until an event is lost, and no deadlock even after |
| `ossim_never_ends` | 1 CPU, 1 process | violation | the lost event, see Findings |
| `paging` | 4 frames, 3 processes (symmetric), 2 pages of 2 bytes, of which each has one address in the trace, 3 swap entries, both replacements | 451,122 | one frame is the frame table, so two processes leave one frame for data and three leave none: every second access evicts, and memory does run out; reads return the last write of the same process at the same address; with three swap entries the one in the middle of the list is freed |
| `paging_restart` | 2 processes, restart allowed | violation | PTBR is stale after a restart |
| `paging_clocksweep` | 1 process, 3 pages, 2 frames for them, `-r clocksweep` | violation | memory runs out although frames could be evicted |
| `cache` | 3 ways, 2 used sets, 7 blocks, 5 accesses | 199,259 | misses into free ways, hits on every position, replacement of clean and dirty blocks, for every address and type of access |
| `pipeline` | 3 registers, words modulo 64; the legal ones of 12^4 programs of 4 and 5^6 of 6 instructions, 34,642 in all | 467,281 | every distance at which one instruction can depend on another (1, 2, 3), twice over, with jumps between |
| `pipeline_load_base` | programs of ADDI and LW | violation | a load with a base register just computed |
| `adc` | the source's generics, 2 channels, 4 conversions | 36,175 | every access at every cycle of a conversion: no START lost or served twice, the command arrives whole, READY is never stale and never lost but to a clear written at or after the completion; `gameDemo.asm` gets the sample it asked for, and gets it at last |
| `adc_stale` | `game.asm` | violation | the sample of an earlier conversion, see Findings |

The bounds are named constants of the modules: `MaxToken`,
`TraceAddress`, `MaxAccesses`, `MaxPc`, `CreatePeriod`, `MaxConversions`. TLC checks deadlock except where the program may
stop: the end of a trace, a panic, the end of a bounded program. In
`Scheduler` and `OSSim` it is on, with an explicit step for the finished
program, so a state in which all threads wait on one another would be found.
Five accesses to a three-way set are enough for each case of `cachesim_access`
to follow each other: the set is full after three, the fourth replaces a block
and the fifth meets the result. Four
conversions are enough for one to be under way, one requested, and one whose
READY is still set. The pipeline's programs jump forward only, so
`ProgramEnds` asks whether a stall ends, not whether a program does.

### Fairness

* `Scheduler`: weak fairness of each CPU thread. Threads are scheduled by the
  operating system, hold mutexes for a few instructions only, and a running
  process reaches the end of its slice or burst.
* `OSSim`: weak fairness of the supervisor, strong fairness of each CPU
  thread: the locks it needs are taken and given back again and again, and the
  supervisor sleeps between ticks, so a thread that keeps trying gets them.
  POSIX promises no such order for a mutex; what is assumed is that no thread
  is passed over for ever.
* `RiscvPipeline`: the clock ticks.
* `AdcPeripheral`: a program in its polling loop keeps polling, and reads the
  sample when it has seen READY (`Polls`). A poll is a clock edge, so the
  peripheral moves with it. Nothing is assumed of resets: one takes the program
  out of the loop.

## 4. Proofs

Each theorem is about the specification a run checks, for every value of its
constants: any numbers of CPUs, processes, frames, pages, sets, ways and
conversions, any programs and traces.

| Module | Theorem | States | Hypothesis |
|---|---|---|---|
| `SchedulerProofs` | `TypeCorrect` | `Spec => []TypeOK` | |
| | `ProcessesInOnePlace` | `Spec => []OnePlace` | |
| | `StatesAreRight` | `Spec => []StateMatchesPlace` | |
| | `SimulatorIsUpToDate` | `Spec => []SimulatorAgrees` | |
| | `WakeupsAreNotLost` | `Spec => []NoLostWakeup` | |
| | `SchedulerImplementsLifecycle` | `Spec => Life!Spec` | |
| `ReadyQueueProofs` | `ListRepresentsQueue` | `QueueSpec => []ListIsQueue` | |
| `OSSimProofs` | `LockIsBalanced` | `SimSpec => []LockBalanced` | |
| | `SimTypeCorrect` | `SimSpec => []SimTypeOK` | |
| | `SchedulerRunsFirst` | `SimSpec => []SchedulerRanFirst` | |
| | `BlockedNeverScheduled` | `SimSpec => []NeverScheduledBlocked` | |
| | `SimulatedOnce` | `SimSpec => []NoDoubleSimulation` | |
| | `WaitingMeansQueued` | `SimSpec => []IoQueueMatchesWaiting` | |
| | `SlicesAreHonoured` | `SimSpec => []SliceHonoured` | |
| | `ExitIsLast` | `SimSpec => []ExitsWhenDone` | |
| | `SimulationUsesScheduler` | `SimSpec => ImplementsScheduler` | |
| | `FifoIsNonPreemptive` | `SimSpec => FifoRunsToBlock` | |
| | `EventsAreLostFromIdle` | `SimSpec => OnlyIdleLosesEvents` | |
| `PagingProofs` | `TypeCorrect` | `Spec => []TypeOK` | `~RestartCurrent` |
| | `TablesAgree` | `Spec => []CheckValidity` | `~RestartCurrent` |
| | `SwapIsOwned` | `Spec => []SwapOwned` | `~RestartCurrent` |
| | `CleanPagesAreBacked` | `Spec => []CleanPagesMatchSwap` | `~RestartCurrent` |
| | `PagingImplementsFlatMemory` | `Spec => ImplementsFlatMemory` | `~RestartCurrent` |
| `SwapProofs` | `SwapListIsIntact` | `SwapSpec => []SwapListIntact` | `~RestartCurrent` |
| `CacheProofs` | `TypeCorrect` | `Spec => []TypeOK` | |
| | `StackIsComplete` | `Spec => []StackOrdersWays` | |
| | `CacheImplementsLru` | `Spec => ImplementsLru` | `TagsFit` |
| `PipelineProofs` | `TypeCorrect` | `Spec => []TypeOK` | |
| | `PipelineImplementsIsa` | `Spec => ImplementsIsa` | `LegalPrograms` |
| `AdcProofs` | `TypeCorrect` | `Spec => []TypeOK` | |
| | `CommandArrives` | `Spec => []CommandIntact` | |
| | `ReadyMeansFresh` | `Spec => []ReadyIsFresh` | |
| | `ClearsAreExact` | `Spec => []ClearSparesCompletion` | |
| | `EveryStartIsServed` | `Spec => []StartsServedOnce` | `ConvHighClks = 1` |
| | `OwnSampleIsReturned` | `Spec => []ReturnsOwnSample` | `"game" \notin Programs` |

From `SchedulerRunsFirst` to `EventsAreLostFromIdle`, the theorems about the
simulation but for the first two, the property itself speaks of the time until
an event is lost (`lost`, section 2). Nothing is assumed of how fast threads
run.

### Assumptions and hypotheses

The assumptions are the modules' own: sets of CPUs and processes are finite
(in `OSSim` they are numbered from 1, as the code's arrays are), `NoProc` and
`Null` are no process, programs are legal, sizes are positive.
`CacheSim!IndexAssumption` says that 2^floor(log_2(x)) is a positive number no
greater than x, for the two x of `cachesim_init`. It is a fact and not a
restriction, but `simple_log_2()` is recursive, and what it computes is beyond
the prover; TLC evaluates it.

Every hypothesis is needed:

* `~RestartCurrent`: the process that ran last is not restarted. Run
  `paging_restart` shows what happens otherwise.
* `TagsFit`: the tags of the trace fit an `int`. A larger one never hits.
* `LegalPrograms`: every program is a `LegalProgram`, and the bound `MaxPc` is
  at least one instruction below the end of the address space, so that the
  clock stops before the program counter wraps around. Run
  `pipeline_load_base` shows what happens without the first part of
  `LegalProgram`. Without the second TLC finds `ImplementsIsa` violated by four
  words, ADDI x1,x1,4, then two words with an unknown opcode, the second with
  x1 in its destination bits, then ADD x2,x1,x1, which adds the old x1. The
  third and the bound keep a program away from address 0, where the model could
  not tell an instruction from an empty buffer.
* `ConvHighClks = 1` is the generic's default (`ADC_Peripheral.vhd:8`). With a
  longer pulse, a START written during the pulse is withdrawn.
* `"game" \notin Programs`: run `adc_stale` shows what `game.asm` reads.

### The invariants

**Scheduler.** `IInv` is
`TypeOK /\ OnePlace /\ StateMatchesPlace /\ SimulatorAgrees /\ LocalMatchesPc`.
`OnePlace` alone is not inductive: that `preempt()` enqueues a process that is
not queued needs `StateMatchesPlace` (it is RUNNING, so not READY), which in
turn needs to know what the handlers' local pointers hold at each location
(`LocalMatchesPc`). One lemma per action shows that it is preserved, over
three lemmas on sequences without repetitions. `WakeupsAreNotLost` counts the
CPUs on their way to `dequeue_process()`: a signal adds one when a process is
added, a dequeue removes one of each, and a thread goes to sleep only with the
queue empty. The refinement proof maps each action to an abstract action or a
stutter; only the dequeue, the two enqueues and the release are visible.

**ReadyQueue.** `ListIsQueue` as it is checked names every element of the list
by its position. That an enqueue is of a process that is not in the list comes
from `SchedulerProofs`' `IInv`, of which `QueueSpec`'s steps are steps; an
append and a removal of the head then keep each position's pointer.

**OSSim.** The lock first: `writers` is the number of threads that are counted
in and stay so, less the number of those that `context_switch()` has counted
out on their way from `idle()`, which never counted in (`LockCounted`). When
all threads are outside or asleep both are zero.

Then the types (`TypeInv`), which must survive a lost event, when little else
does. What remains true is that a process has one request of I/O just when an
operation of I/O is before it (`Asked`), so a program is never advanced past
its end, and that the processes at their end are at least as many as those
counted as terminated and the threads about to count one (`Counted`).

The rest needs `SimInv`, which holds until an event is lost. It adds to the
scheduler's `IInv`: `Handshake` (an event is pending on one CPU at a time, the
one whose answer the supervisor waits for), `Threads` (what a thread's place in
`os-sim.c` says of its place in the handlers and of what it runs), `Positions`
(an operation of I/O is before a process just when it has one request in the
I/O queue, and just when it is WAITING or about to become so; TERMINATE is
before it just when it has ended or is about to), `Creation` and `Termination`
(the processes created are the first ones; the counter of the terminated is the
size of their set), and `Slices` (the timer runs while the process does; under
FIFO there is none, and no preemption). None of these is inductive without
`Handshake`: a second event before the first is handled would overwrite it, and
the process would wait without being in the I/O queue. A step that loses an
event is the supervisor's report to a thread that is not at its wait; by
`Handshake` such a thread has not answered for an event, so it comes from
`idle()`: `EventsAreLostFromIdle`.
`SimulationUsesScheduler` follows: a thread enters a handler only when
`Scheduler` allows that call, so each of the simulator's steps before a loss is
one of `Scheduler` or a stutter.

**Paging.** `CheckValidity` is what the program checks, from the page tables
to the frame table. The code relies on the other direction: `free_frame()`
takes the process and the page from the frame table and clears that entry of
that page table. `IInv` has both (`EntriesHaveFrames`, `FramesHaveEntries`),
the ownership of protected frames by running processes (`TablesApart`,
`TablesProtected`), and the same for the swap space (`SwapExists`,
`SwapOwned`, `TokensGiven`, `CleanPagesMatchSwap`). The proof of a line of the
trace follows the code's order: the state after `free_frame()`, in which the
frame is free, is described by lemmas of its own, and the page fault is proved
from it. The refinement maps the contents of a process's page to its frame,
its swap entry or the blank page; no line but a START, a STOP or a write changes any of them, and
a page that is evicted is where it was, since it is written out if it is dirty
and agrees with its entry if it is not.

**PagingSwap.** Tokens are given out in ascending order and a new node goes to
the end, so the list ascends. `SwapInv` says so without walking: the head is
the least token, each node is followed by the least of those larger than
itself, the tail is the greatest, and the nodes are the swap entries. Both
`swap_queue_enqueue()` of a larger token and `swap_queue_dequeue()` of any
node preserve this; that the predecessor which the dequeue looks for exists is
`Predecessor`. The cleanup of a process is a loop over its pages, which all
have different entries (`SwapOwned`, from `PagingProofs`). In an ascending list
the k-th node of a walk is the token with k - 1 smaller ones (`NodesAre`), which
gives `SwapListIntact`.

**CacheSim.** An access, hit or miss, moves one way to the front of one stack
(`Use`). `IInv` is `TypeOK /\ StackOrdersWays /\ WaysOnce`: that each way is
in the stack once is what makes the position that `lru_stack_set_mru()` looks
for unique. For the refinement `BlocksOnce` is added, that a block is in one
way only, and this is where `TagsFit` is needed. The valid ways come first in
the stack, so a set is a list; a hit takes an entry of it to the front, and a
miss puts a new one there, dropping the last exactly when the set is full.

**RiscvPipeline.** The oldest instruction's address, `Pc0`, is what the
refinement gives to the abstract machine; `Pc1` to `Pc4` are the addresses that
the instructions after it must have if it and its successors are executed one
by one, and `Regs1` to `Regs3` the register files that these leave.
`PipelineInv` says that each buffer is empty or holds the instruction with that
address, with the write-back it decodes to, and with a result or operands
computed from that register file (`StagesOk`). An operand is right in one of
two ways: it was read so, or it is yet to be forwarded. `RegisterAhead` says
which of the instructions ahead decides on a register; from it `SourceRead`
shows that decode reads the register file or execute will be given the newer
value, and `LoadBaseRead` that a load, which is given nothing, has read its
base. The two stalls, the priority of the younger result and `LegalProgram` are
used there. Of what follows a jump in execute, and of what
follows an instruction at `MaxPc`, nothing is claimed: the first is flushed, the
second is never completed. Each clock edge then completes one instruction, if
there is one after the memory stage, and the addresses and register files move
down one stage.

**AdcPeripheral.** The invariant says for each state of the state machine, in
terms of the bit counter, how many bits have passed each way: the receiving
registers hold the first k bits behind zeros, the sending one has lost its
first f (`InTransfer`); that a conversion under way is later than every
completed one (`Counted`), and that a pending clear was written when all that
is complete was complete (`Handover`). `ReadyIsFresh` and
`ClearSparesCompletion` are part of it. `StartsServedOnce` and
`ReturnsOwnSample` each have a small invariant of their own on top: what the
request flag says in each state, and what a program at each place of its loop
has reason to expect.

### Only model-checked

* Liveness (`ReadyRuns`, `TerminatesUnlessLost`, `ProgramEnds`,
  `ReadADCReturns`): out of reach of the prover here.
* Absence of deadlock, and that the tables of `process.c` are legal programs.

The proofs use no induction theorem of the library. Where a recursive function
is reasoned about (the cleanup loop, the walk over the swap list), that a
function satisfying the recursion exists, and what its values are, is proved
from a least counterexample.

## 5. Findings

1. `os-sim.c:242`: a CPU thread that comes out of `idle()` sets its state to
   CPU_RUNNING after `context_switch()` has already let the supervisor in; an
   event reported in between is overwritten. If it was a termination, the
   simulation never exits.
2. `pagesim.c:132`: PTBR is refreshed only when the pid changes; a process that
   stops and starts again without another running in between uses the page
   table of its earlier life.
3. `FWD_Control.sv:43`: loads have no case in the forwarding controller, so
   their base register is stale if one of the two instructions before computes
   it.
4. `game.asm:151`: `ReadADC` starts a conversion and polls READY without having
   cleared it. READY of an earlier conversion is still set, so the subroutine
   returns at once with that conversion's sample, of whatever channel.
5. `page_replacement.c:68`: with `-r clocksweep`, for which there is no code,
   no page is ever evicted, and the simulator reports that memory has run out
   although frames could be evicted; the comment says "Every frame is
   protected".

Seen, and not covered by a run: a reader does not wait for a register that is
being written if the instruction in execute or memory has the same destination
bits, whether it writes a register or not, so with a word that the decoder does
not know (a store, a branch) ahead it takes the old value
(`Stall_Control.sv:96`; the proof of the pipeline needs `NoPhantomDestination`
for just this); `check_validity()` compares a page table's frame
with `> NUM_FRAMES`, so it accepts a frame that does not exist
(`pagesim.c:201`); `context_switches++` is unprotected (`os-sim.c:392`); a load
other than LW is half decoded (`ID_Stage.sv:187`); cache tags of 2^31 and more
do not fit their `int`.

## 6. Not modelled

Trace and command-line parsing, statistics, average access time, Gantt output
and random number generation: they read the state and do not change it. The
decode core, the SCOMP processor itself (fetch, execute, I/O cycles: only what
its programs do to the ADC's registers is modelled) and the LTC2308 controller,
whose peripheral the ADC peripheral replaces, are not modelled, see below.
The timer, display and switch peripherals keep one register each. The game's
own logic (`game.asm` beyond its input) draws and scores; nothing runs beside
it. The rest is generated or is test code.

## 7. Plan

Order: what is concurrent first, then what is stateful, then what is small.

1. Done: scheduler, ready queue, simulator, paging, cache, pipeline.
2. Done: the swap list, both replacements and the consistency check; the
   shipped programs and the writer lock; the ADC peripheral with its clients.
3. Done: proofs about the simulator, its lock and its use of the scheduler;
   about paging, with the refinement of `FlatMemory`; about the cache, with the
   refinement of `LruSets`; about the ADC peripheral.
4. Done: proofs about the pipeline, with the refinement of `RiscvIsa`, and
   about the swap list.
5. Left: `DecodeCore` as a second implementation of the instruction set, with
   stores; `RiscvIsa` would then get a memory that changes.
6. Left: `LTC2308Ctrl`, the start/busy handshake.

------------------------------- MODULE MCOSSim -------------------------------
(* Small instances of OSSim for TLC: programs with one or two bursts each.   *)
EXTENDS OSSim, ProcessTable

Cpu(t) == [type |-> "CPU", time |-> t]
Io(t) == [type |-> "IO", time |-> t]
End == [type |-> "TERMINATE", time |-> 0]

(* Two processes that do I/O and one that only computes.                     *)
MixedProgram == <<<<Cpu(1), Io(1), Cpu(0), End>>,
                  <<Cpu(2), End>>,
                  <<Cpu(0), Io(0), Cpu(1), End>>>>

(* A program that ends at once.                                              *)
ShortProgram == <<<<Cpu(0), End>>>>

(* The tables of process.c are programs the simulator can run.               *)
ASSUME TableAssumption == \A p \in 1..Len(Processes) : LegalProgram(Processes[p])

(* The first three processes of process.c: "Iapache", "Ibash", "Imozilla".    *)
IoProcesses == SubSeq(Processes, 1, 3)

(* First-in first-out, or round robin with a slice of three ticks.           *)
FifoOr3 == {-1, 3}
=============================================================================

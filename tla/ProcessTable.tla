----------------------------- MODULE ProcessTable -----------------------------
(***************************************************************************)
(* The operation tables of os_scheduler_simulator/src/process.c: what the  *)
(* eight simulated processes do.  "The operations must alternate: OP_CPU,  *)
(* OP_IO, OP_CPU, ..." and an OP_TERMINATE ends the last burst, so a table *)
(* is given by its times.                                                  *)
(***************************************************************************)
EXTENDS Naturals, Sequences

Ops(times) ==
  [i \in 1..Len(times) |->
     [type |-> IF i = Len(times) THEN "TERMINATE" ELSE IF i % 2 = 1 THEN "CPU" ELSE "IO",
      time |-> times[i]]]

Pid0Ops == Ops(<<2, 2, 3, 5, 1, 4, 2, 2, 3, 5, 1, 4, 2, 2, 3, 5, 1, 4, 2, 5, 1, 4, 2, 2, 3, 5, 1, 4, 2, 0>>)
Pid1Ops == Ops(<<3, 4, 2, 6, 1, 3, 4, 4, 2, 6, 1, 3, 4, 4, 2, 6, 1, 3, 4, 3, 4, 4, 2, 6, 1, 3, 4, 0>>)
Pid2Ops == Ops(<<1, 4, 2, 5, 1, 3, 3, 4, 2, 5, 1, 3, 3, 4, 2, 5, 1, 3, 3, 4, 2, 5, 1, 3, 3, 0>>)
Pid3Ops == Ops(<<9, 1, 6, 1, 8, 1, 7, 1, 6, 1, 8, 1, 7, 1, 6, 1, 8, 1, 8, 0>>)
Pid4Ops == Ops(<<10, 1, 14, 1, 7, 2, 11, 1, 14, 1, 7, 2, 11, 1, 14, 1, 7, 2, 11, 0>>)
Pid5Ops == Ops(<<9, 1, 10, 2, 15, 1, 8, 1, 10, 2, 15, 1, 8, 1, 10, 2, 15, 1, 8, 0>>)
Pid6Ops == Ops(<<6, 3, 9, 1, 14, 1, 11, 3, 9, 1, 14, 1, 11, 3, 9, 1, 14, 1, 11, 0>>)
Pid7Ops == Ops(<<6, 3, 12, 3, 7, 1, 9, 3, 12, 3, 7, 1, 9, 3, 12, 3, 7, 1, 9, 0>>)

(* processes[]; the PCBs count from zero, the model from one.               *)
Processes == <<Pid0Ops, Pid1Ops, Pid2Ops, Pid3Ops, Pid4Ops, Pid5Ops, Pid6Ops, Pid7Ops>>
=============================================================================

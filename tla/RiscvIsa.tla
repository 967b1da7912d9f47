------------------------------- MODULE RiscvIsa -------------------------------
(***************************************************************************)
(* What pipelined_riscv_core promises: its programs run as if one          *)
(* instruction was completed after the other.  There are no stages, no     *)
(* stalls, no forwarding and no flushes.                                   *)
(***************************************************************************)
EXTENDS Naturals

CONSTANTS NumRegs,    \* registers x0 .. x(NumRegs - 1); x0 is always zero
          WordRange,  \* 2^32: words are 0 .. WordRange - 1
          Memory,     \* Memory[a]: the word in data memory at address a
          Programs,   \* the programs, functions from addresses to instructions
          Nop         \* the instruction that lies beyond a program

VARIABLES program, pc, regs

vars == <<program, pc, regs>>

At(a) == IF a \in DOMAIN program THEN program[a] ELSE Nop

Plus(a, b) == (a + b) % WordRange

(* Words as signed numbers.                                                 *)
Signed(w) == IF w < WordRange \div 2 THEN w ELSE w - WordRange

(* What instruction i at address pc puts into register i.rd.                *)
Result(i) == CASE i.op = "ADD" -> Plus(regs[i.rs1], regs[i.rs2])
               [] i.op = "SUB" -> Plus(regs[i.rs1], WordRange - regs[i.rs2])
               [] i.op = "SLT" -> IF Signed(regs[i.rs1]) < Signed(regs[i.rs2]) THEN 1 ELSE 0
               [] i.op = "ADDI" -> Plus(regs[i.rs1], i.imm)
               [] i.op = "LW" -> Memory[Plus(regs[i.rs1], i.imm)]
               [] i.op = "JAL" -> Plus(pc, 4)

Init == /\ program \in Programs
        /\ pc = 4
        /\ regs = [r \in 0 .. NumRegs - 1 |-> 0]

Next == /\ regs' = IF At(pc).op = "NOP" \/ At(pc).rd = 0 THEN regs
                   ELSE [regs EXCEPT ![At(pc).rd] = Result(At(pc))]
        /\ pc' = Plus(pc, IF At(pc).op = "JAL" THEN At(pc).imm ELSE 4)
        /\ UNCHANGED program

Spec == Init /\ [][Next]_vars
=============================================================================

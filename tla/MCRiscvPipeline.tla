---------------------------- MODULE MCRiscvPipeline ----------------------------
(* Programs for TLC.                                                         *)
EXTENDS RiscvPipeline

CONSTANTS ProgramLength, LongLength

Reg3(op, rd, rs1, rs2) == [Nop EXCEPT !.op = op, !.rd = rd, !.rs1 = rs1, !.rs2 = rs2]
Imm(op, rd, rs1, imm) == [Nop EXCEPT !.op = op, !.rd = rd, !.rs1 = rs1, !.imm = imm]

Addresses(length) == {4 * n : n \in 1 .. length}

(* Every mix of instructions that pass x1 and x2 on.                        *)
Mix == {Nop,
        Reg3("ADD", 1, 1, 2), Reg3("SUB", 2, 2, 1), Reg3("SLT", 2, 1, 2), Reg3("ADD", 0, 1, 2),
        Imm("ADDI", 1, 1, 4), Imm("ADDI", 2, 1, 4),
        Imm("LW", 1, 0, 8), Imm("LW", 2, 0, 12), Imm("LW", 2, 1, 4),
        Imm("JAL", 1, 0, 8), Imm("JAL", 0, 0, 12)}

(* Longer programs of fewer instructions, in which stalls, jumps and        *)
(* forwarded values follow each other.                                      *)
ShortMix == {Reg3("ADD", 1, 1, 2), Imm("ADDI", 1, 1, 4), Reg3("SUB", 2, 2, 1),
             Imm("LW", 2, 0, 12), Imm("JAL", 1, 0, 8)}

MixPrograms == {p \in [Addresses(ProgramLength) -> Mix] \cup [Addresses(LongLength) -> ShortMix] :
                  LegalProgram(p)}

(* Loads whose base has just been computed.                                 *)
ComputedBase == {Imm("ADDI", 1, 0, 8), Imm("LW", 2, 1, 4)}
BasePrograms == [Addresses(ProgramLength) -> ComputedBase]

(* The word at address a is a + 3, so that every load can be told apart.    *)
DataMemory == [a \in Word |-> (a + 3) % WordRange]
=============================================================================

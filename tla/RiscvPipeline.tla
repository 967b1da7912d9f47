----------------------------- MODULE RiscvPipeline -----------------------------
(***************************************************************************)
(* The five-stage pipeline of pipelined_riscv_core, clock cycle by clock   *)
(* cycle: fetch, decode, execute, memory, write-back, with the stall,      *)
(* forwarding and flush controllers.  Each pipeline register is a          *)
(* variable; everything combinational is an operator of the registers.     *)
(*                                                                         *)
(* An instruction is a record of its fields; its encoding is left out.     *)
(* The instructions are those the decoder knows.  An invalid instruction   *)
(* word (high impedance) decodes like Nop: no source register, no effect.  *)
(* A word with another opcode is a "NOP" that keeps its destination bits.  *)
(* Words of the known opcodes with other function fields, which write back *)
(* whatever the ALU or the memory puts out, are left out.                  *)
(* mem_en is 1 and reset is released at the start.  In the fetch stage the *)
(* instruction memory's output belongs to the address in PC.               *)
(*                                                                         *)
(* What the memory stage assigns with = at the clock edge counts from the  *)
(* next cycle on, as in hardware and in a simulator that runs the register *)
(* file's flip-flops before the logic that the assignments wake up.        *)
(***************************************************************************)
EXTENDS Integers

CONSTANTS
  NumRegs,       \* registers x0 .. x(NumRegs - 1)
  WordRange,     \* 2^32: words are 0 .. WordRange - 1
  Memory,        \* Memory[a]: the word in data_RAM at the aligned address a
  Programs,      \* the programs to run, from address 4 on
  MaxPc          \* bound: the clock stops once an instruction there is done

Reg == 0 .. NumRegs - 1
Word == 0 .. WordRange - 1

Ops == {"NOP", "ADD", "SUB", "SLT", "ADDI", "LW", "JAL"}
Instruction == [op : Ops, rd : Reg, rs1 : Reg, rs2 : Reg, imm : Word]
Nop == [op |-> "NOP", rd |-> 0, rs1 |-> 0, rs2 |-> 0, imm |-> 0]

ASSUME PipelineAssumption ==
  /\ NumRegs \in Nat \ {0}
  /\ WordRange \in Nat /\ WordRange > 4 /\ WordRange % 2 = 0
  /\ \A a \in Word : Memory[a] \in Word
  /\ \A p \in Programs : \A a \in DOMAIN p : p[a] \in Instruction
  /\ MaxPc \in Word

VARIABLES
  program,  \* instr_RAM
  pc,       \* Fetch: PC
  valid,    \* Instr_Mem: instr_valid_op
  ifId,     \* the IF/ID buffer: the instruction (Nop if not valid) and its pc
  idEx,     \* the ID/EX buffer
  exMem,    \* the EX/MEM buffer
  memWb,    \* the buffer after the memory stage
  regs      \* RegisterFile

vars == <<program, pc, valid, ifId, idEx, exMem, memWb, regs>>

WbMuxes == {"NO_WRITEBACK", "READ_ALU_RESULT", "READ_MEM_RESULT", "READ_PC4"}

TypeOK ==
  /\ program \in Programs
  /\ pc \in Word
  /\ valid \in BOOLEAN
  /\ ifId \in [instr : Instruction, pc : Word]
  /\ idEx \in [op : Ops, a : Word, b : Word, wbMux : WbMuxes, rd : Reg, rs1 : Reg, rs2 : Reg, pc : Word]
  /\ exMem \in [op : Ops, result : Word, wbMux : WbMuxes, rd : Reg, pc : Word]
  /\ memWb \in [result : Word, loaded : Word, wbMux : WbMuxes, rd : Reg, pc : Word]
  /\ regs \in [Reg -> Word]

(* The buffers without an instruction, as reset, a flush or a stall leaves  *)
(* them.  No instruction has address 0: the one there is never valid.       *)
EmptyIfId == [instr |-> Nop, pc |-> 0]
Bubble == [op |-> "NOP", a |-> 0, b |-> 0, wbMux |-> "NO_WRITEBACK", rd |-> 0, rs1 |-> 0, rs2 |-> 0, pc |-> 0]

(* The last cycle of reset.                                                 *)
Init == /\ program \in Programs
        /\ pc = 0
        /\ valid = FALSE
        /\ ifId = EmptyIfId
        /\ idEx = Bubble
        /\ exMem = [op |-> "NOP", result |-> 0, wbMux |-> "NO_WRITEBACK", rd |-> 0, pc |-> 0]
        /\ memWb = [result |-> 0, loaded |-> 0, wbMux |-> "NO_WRITEBACK", rd |-> 0, pc |-> 0]
        /\ regs = [r \in Reg |-> 0]

Plus(a, b) == (a + b) % WordRange
Signed(w) == IF w < WordRange \div 2 THEN w ELSE w - WordRange

-----------------------------------------------------------------------------
(* Write-back: what is about to be written into the register file.          *)

WbValid == memWb.wbMux # "NO_WRITEBACK"
WbData == CASE memWb.wbMux = "READ_ALU_RESULT" -> memWb.result
            [] memWb.wbMux = "READ_MEM_RESULT" -> memWb.loaded
            [] memWb.wbMux = "READ_PC4" -> Plus(memWb.pc, 4)
            [] OTHER -> 0

-----------------------------------------------------------------------------
(* Execute.  The forwarding controller knows register-register and          *)
(* register-immediate instructions only.                                    *)

RegisterOps == {"ADD", "SUB", "SLT"}

(* Variant of Forward, for mutation: the older result wins.                 *)
ForwardOlder(r, original) ==
  CASE WbValid /\ memWb.rd # 0 /\ memWb.rd = r -> WbData
    [] exMem.wbMux # "NO_WRITEBACK" /\ exMem.rd # 0 /\ exMem.rd = r
       /\ ~(WbValid /\ memWb.rd = r) -> exMem.result
    [] OTHER -> original

(* The value of source register r that the ALU takes.                       *)
Forward(r, original) ==
  IF exMem.wbMux # "NO_WRITEBACK" /\ exMem.rd # 0 /\ exMem.rd = r THEN exMem.result
  ELSE IF WbValid /\ memWb.rd # 0 /\ memWb.rd = r THEN WbData
  ELSE original

OperandA == IF idEx.op \in RegisterOps \cup {"ADDI"} THEN Forward(idEx.rs1, idEx.a) ELSE idEx.a
OperandB == IF idEx.op \in RegisterOps THEN Forward(idEx.rs2, idEx.b) ELSE idEx.b

(* Variant of Difference, for mutation: the result is not a word.           *)
DifferenceUnbounded(a, b) == a - b

Difference(a, b) == Plus(a, WordRange - b)

AluResult ==
  CASE idEx.op \in {"ADD", "ADDI", "LW", "JAL"} -> Plus(OperandA, OperandB)
    [] idEx.op = "SUB" -> Difference(OperandA, OperandB)
    [] idEx.op = "SLT" -> IF Signed(OperandA) < Signed(OperandB) THEN 1 ELSE 0
    [] OTHER -> 0

(* Flush_Control: a jump in execute discards what was fetched after it.     *)
Flush == idEx.op = "JAL"

-----------------------------------------------------------------------------
(* Decode                                                                   *)

Sources(i) == (IF i.op \in RegisterOps \cup {"ADDI", "LW"} THEN {i.rs1} ELSE {})
              \cup (IF i.op \in RegisterOps THEN {i.rs2} ELSE {})

LoadUse == idEx.op = "LW" /\ idEx.rd # 0 /\ idEx.rd \in Sources(ifId.instr)

(* The register file cannot be written and read in one cycle; a younger     *)
(* writer of the register will be forwarded instead.                        *)
WriteBackRead ==
  /\ WbValid /\ memWb.rd # 0
  /\ memWb.rd \in Sources(ifId.instr)
  /\ memWb.rd \notin {idEx.rd, exMem.rd}

(* Variant of Stall, for mutation: the register file is not waited for.     *)
StallNoWriteBack == LoadUse

(* Stall_Control                                                            *)
Stall == LoadUse \/ WriteBackRead

WbMux(op) == CASE op \in RegisterOps \cup {"ADDI"} -> "READ_ALU_RESULT"
               [] op = "LW" -> "READ_MEM_RESULT"
               [] op = "JAL" -> "READ_PC4"
               [] OTHER -> "NO_WRITEBACK"

Decoded ==
  LET i == ifId.instr
  IN [op |-> i.op,
      a |-> IF i.op = "JAL" THEN ifId.pc ELSE regs[i.rs1],
      b |-> IF i.op \in RegisterOps THEN regs[i.rs2] ELSE i.imm,
      wbMux |-> WbMux(i.op), rd |-> i.rd, rs1 |-> i.rs1, rs2 |-> i.rs2,
      pc |-> ifId.pc]

(* Variant of NextIdEx, for mutation: a stall repeats the instruction in    *)
(* execute.                                                                 *)
NextIdExRepeat == IF Flush THEN Bubble ELSE IF Stall THEN idEx ELSE Decoded

NextIdEx == IF Flush \/ Stall THEN Bubble ELSE Decoded

-----------------------------------------------------------------------------
(* Fetch                                                                    *)

InstructionAt(p, a) == IF a \in DOMAIN p THEN p[a] ELSE Nop
At(a) == InstructionAt(program, a)

NextPc == IF Flush THEN AluResult ELSE IF Stall THEN pc ELSE Plus(pc, 4)

(* Variant of NextIfId, for mutation: a flush leaves it alone.              *)
NextIfIdNoFlush ==
  IF Stall THEN ifId
  ELSE IF valid THEN [instr |-> At(pc), pc |-> pc] ELSE EmptyIfId

NextIfId == IF Flush THEN EmptyIfId
            ELSE IF Stall THEN ifId
            ELSE IF valid THEN [instr |-> At(pc), pc |-> pc] ELSE EmptyIfId

-----------------------------------------------------------------------------
(* The EX/MEM buffer, the buffer after the memory stage and the register    *)
(* file.  What was loaded last stays at the memory stage's output.          *)

NextExMem == [op |-> idEx.op, result |-> AluResult, wbMux |-> idEx.wbMux,
              rd |-> idEx.rd, pc |-> idEx.pc]

Loaded == IF exMem.op = "LW" THEN Memory[exMem.result] ELSE memWb.loaded

NextMemWb == [result |-> exMem.result, loaded |-> Loaded, wbMux |-> exMem.wbMux,
              rd |-> exMem.rd, pc |-> exMem.pc]

NextRegs == IF WbValid /\ memWb.rd # 0 THEN [regs EXCEPT ![memWb.rd] = WbData] ELSE regs

-----------------------------------------------------------------------------
(* One clock cycle.                                                         *)
Clock ==
  /\ memWb.pc < MaxPc
  /\ pc' = NextPc
  /\ valid' = TRUE
  /\ ifId' = NextIfId
  /\ idEx' = NextIdEx
  /\ exMem' = NextExMem
  /\ memWb' = NextMemWb
  /\ regs' = NextRegs
  /\ UNCHANGED program

Spec == Init /\ [][Clock]_vars
FairSpec == Spec /\ WF_vars(Clock)

-----------------------------------------------------------------------------
(* The programs that the pipeline runs as it should.                        *)

(* No load has its base register computed one or two instructions before:   *)
(* the forwarding controller has no case for loads.  A jump in between      *)
(* flushes, which gives the result the time to be written.                  *)
LoadBasesReady(p) ==
  \A a \in DOMAIN p :
    LET first == InstructionAt(p, Plus(a, 4))
        second == InstructionAt(p, Plus(Plus(a, 4), 4))
    IN p[a].op \in RegisterOps \cup {"ADDI", "LW"} /\ p[a].rd # 0 =>
         /\ ~(first.op = "LW" /\ first.rs1 = p[a].rd)
         /\ first.op = "JAL" \/ ~(second.op = "LW" /\ second.rs1 = p[a].rd)

(* A word with an opcode that the decoder does not know has zeros where     *)
(* other instructions have their destination.                               *)
NoPhantomDestination(p) == \A a \in DOMAIN p : p[a].op = "NOP" => p[a].rd = 0

(* Nothing jumps to address 0, which the model keeps for empty buffers.     *)
NoJumpToZero(p) == \A a \in DOMAIN p : p[a].op = "JAL" => Plus(a, p[a].imm) # 0

LegalProgram(p) == LoadBasesReady(p) /\ NoPhantomDestination(p) /\ NoJumpToZero(p)

(* The clock stops before the program counter wraps around to 0.            *)
LegalPrograms == MaxPc <= WordRange - 4 /\ \A p \in Programs : LegalProgram(p)

-----------------------------------------------------------------------------
(* Properties                                                               *)

(* The oldest instruction that is not completed: nothing older than it is   *)
(* in the pipeline, and everything younger follows it in the program.       *)
ArchitecturalPc ==
  CASE memWb.pc # 0 -> memWb.pc
    [] memWb.pc = 0 /\ exMem.pc # 0 -> exMem.pc
    [] memWb.pc = 0 /\ exMem.pc = 0 /\ idEx.pc # 0 -> idEx.pc
    [] memWb.pc = 0 /\ exMem.pc = 0 /\ idEx.pc = 0 /\ ifId.pc # 0 -> ifId.pc
    [] OTHER -> IF valid THEN pc ELSE Plus(pc, 4)

Sequential == INSTANCE RiscvIsa WITH pc <- ArchitecturalPc

(* "including hazard detection, forwarding, memory, and pipeline control"   *)
(* (README): with instructions in all five stages, stalled, forwarded and   *)
(* flushed, the register file changes as if each instruction was completed  *)
(* before the next began.                                                   *)
ImplementsIsa == Sequential!Spec

(* The pipeline never stalls for ever: every program reaches its end.       *)
ProgramEnds == <>(memWb.pc >= MaxPc)
=============================================================================

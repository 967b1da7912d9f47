---------------------------- MODULE PipelineProofs ----------------------------
(***************************************************************************)
(* Theorems about RiscvPipeline: its types, and that it implements         *)
(* RiscvIsa for the programs that LegalPrograms admits.                    *)
(*                                                                         *)
(* The pipeline is in order: each buffer holds nothing or the instruction  *)
(* that follows those in the older buffers, with the operands it would     *)
(* have if those were completed.  An instruction at MaxPc or beyond stops  *)
(* the clock when it is completed, so nothing is claimed of what is        *)
(* younger; nor of what follows a jump that is still to be taken.          *)
(***************************************************************************)
EXTENDS RiscvPipeline, TLAPS

(***************************************************************************)
(* Types.                                                                  *)
(***************************************************************************)
ExMemType == [op : Ops, result : Word, wbMux : WbMuxes, rd : Reg, pc : Word]
IdExType == [op : Ops, a : Word, b : Word, wbMux : WbMuxes, rd : Reg, rs1 : Reg, rs2 : Reg, pc : Word]

LEMMA Constants ==
  /\ WordRange \in Nat /\ WordRange > 4 /\ NumRegs \in Nat \ {0} /\ MaxPc \in Word
  /\ 0 \in Word /\ 1 \in Word /\ 4 \in Word /\ 0 \in Reg
BY PipelineAssumption DEF PipelineAssumption, Word, Reg

LEMMA PlusType == ASSUME NEW a \in Int, NEW b \in Int PROVE Plus(a, b) \in Word
BY Constants, SMT DEF Plus, Word

LEMMA DifferenceType == ASSUME NEW a \in Word, NEW b \in Word PROVE Difference(a, b) \in Word
<1>1. a \in Int /\ WordRange - b \in Int
  BY Constants DEF Word
<1> QED BY <1>1, PlusType DEF Difference

LEMMA NopType == Nop \in Instruction
BY Constants DEF Nop, Instruction, Ops

LEMMA AtType ==
  ASSUME NEW p \in Programs, NEW a PROVE InstructionAt(p, a) \in Instruction
<1>1. CASE a \in DOMAIN p
  BY <1>1, PipelineAssumption DEF PipelineAssumption, InstructionAt
<1>2. CASE a \notin DOMAIN p
  BY <1>2, NopType DEF InstructionAt
<1> QED BY <1>1, <1>2

LEMMA WbMuxType == ASSUME NEW op PROVE WbMux(op) \in WbMuxes
BY DEF WbMux, WbMuxes

LEMMA WbDataType == ASSUME TypeOK PROVE WbData \in Word
<1>1. /\ memWb.result \in Word /\ memWb.loaded \in Word /\ memWb.pc \in Int /\ 4 \in Int
      /\ 0 \in Word
  BY Constants DEF TypeOK, Word
<1>2. Plus(memWb.pc, 4) \in Word
  BY <1>1, PlusType
<1> QED BY <1>1, <1>2 DEF WbData

LEMMA OperandTypes == ASSUME TypeOK PROVE OperandA \in Word /\ OperandB \in Word
<1>1. idEx.a \in Word /\ idEx.b \in Word /\ exMem.result \in Word
  BY DEF TypeOK
<1> QED BY <1>1, WbDataType DEF OperandA, OperandB, Forward

LEMMA AluType == ASSUME TypeOK PROVE AluResult \in Word
<1>1. PICK a \in Word : a = OperandA
  BY OperandTypes
<1>2. PICK b \in Word : b = OperandB
  BY OperandTypes
<1>3. Plus(a, b) \in Word
  BY PlusType DEF Word
<1>4. Difference(a, b) \in Word
  BY DifferenceType
<1> QED BY <1>1, <1>2, <1>3, <1>4, Constants DEF AluResult

LEMMA ClockType == ASSUME TypeOK, Clock PROVE TypeOK'
<1>1. 0 \in Word /\ 0 \in Reg /\ 4 \in Int /\ pc \in Int
  BY Constants DEF TypeOK, Word
<1>2. program' \in Programs /\ valid' \in BOOLEAN
  BY DEF Clock, TypeOK
<1>3. pc' \in Word
  <2>1. Plus(pc, 4) \in Word
    BY <1>1, PlusType
  <2> QED BY <2>1, AluType DEF Clock, NextPc, TypeOK
<1>4. ifId' \in [instr : Instruction, pc : Word]
  <2>1. At(pc) \in Instruction
    BY AtType DEF At, TypeOK
  <2> QED BY <2>1, <1>1, NopType DEF Clock, NextIfId, EmptyIfId, TypeOK
<1>5. idEx' \in IdExType
  <2>1. Bubble \in IdExType
    BY <1>1 DEF Bubble, IdExType, Ops, WbMuxes
  <2>2. Decoded \in IdExType
    <3>1. PICK i \in Instruction : i = ifId.instr
      BY DEF TypeOK
    <3>2. /\ i.op \in Ops /\ i.rd \in Reg /\ i.rs1 \in Reg /\ i.rs2 \in Reg /\ i.imm \in Word
          /\ ifId.pc \in Word
      BY DEF Instruction, TypeOK
    <3>3. regs[i.rs1] \in Word /\ regs[i.rs2] \in Word
      BY <3>2 DEF TypeOK
    <3>4. WbMux(i.op) \in WbMuxes
      BY WbMuxType
    <3> QED BY <3>1, <3>2, <3>3, <3>4 DEF Decoded, IdExType
  <2> QED BY <2>1, <2>2 DEF Clock, NextIdEx
<1>6. exMem' \in ExMemType
  BY AluType DEF Clock, NextExMem, ExMemType, TypeOK
<1>7. memWb' \in [result : Word, loaded : Word, wbMux : WbMuxes, rd : Reg, pc : Word]
  <2>1. Loaded \in Word
    BY PipelineAssumption DEF PipelineAssumption, Loaded, TypeOK
  <2> QED BY <2>1 DEF Clock, NextMemWb, TypeOK
<1>8. regs' \in [Reg -> Word]
  BY WbDataType DEF Clock, NextRegs, TypeOK
<1> QED BY <1>2, <1>3, <1>4, <1>5, <1>6, <1>7, <1>8 DEF TypeOK, IdExType, ExMemType

LEMMA InitType == ASSUME Init PROVE TypeOK
BY Constants, NopType DEF Init, TypeOK, EmptyIfId, Bubble, Ops, WbMuxes

(* The buffers, the program counter and the registers always hold values of *)
(* their types: in particular the ALU's results are words.                  *)
THEOREM TypeCorrect == Spec => []TypeOK
<1>1. Init => TypeOK
  BY InitType
<1>2. TypeOK /\ [Clock]_vars => TypeOK'
  <2>1. ASSUME TypeOK, UNCHANGED vars PROVE TypeOK'
    BY <2>1 DEF TypeOK, vars
  <2> QED BY <2>1, ClockType
<1> QED BY <1>1, <1>2, PTL DEF Spec
-----------------------------------------------------------------------------
(***************************************************************************)
(* The instruction at address a of program p leads from the registers R to *)
(* After(...), and to the address Succ(p, a).                              *)
(***************************************************************************)
Succ(p, a) == Plus(a, IF InstructionAt(p, a).op = "JAL" THEN InstructionAt(p, a).imm ELSE 4)

Result(i, a, R) ==
  CASE i.op = "ADD" -> Plus(R[i.rs1], R[i.rs2])
    [] i.op = "SUB" -> Difference(R[i.rs1], R[i.rs2])
    [] i.op = "SLT" -> IF Signed(R[i.rs1]) < Signed(R[i.rs2]) THEN 1 ELSE 0
    [] i.op = "ADDI" -> Plus(R[i.rs1], i.imm)
    [] i.op = "LW" -> Memory[Plus(R[i.rs1], i.imm)]
    [] i.op = "JAL" -> Plus(a, 4)

After(i, a, R) == IF i.op = "NOP" \/ i.rd = 0 THEN R ELSE [R EXCEPT ![i.rd] = Result(i, a, R)]

(* The same across a buffer with address x, which is 0 if it is empty.      *)
PassPc(p, a, x) == IF x = 0 THEN a ELSE Succ(p, a)
PassRegs(p, a, x, R) == IF x = 0 THEN R ELSE After(InstructionAt(p, a), a, R)

(* The address and the registers with which the instruction in each buffer  *)
(* is to be executed: Pc0 is the one the abstract machine is at.            *)
Pc0 == ArchitecturalPc
Pc1 == PassPc(program, Pc0, memWb.pc)
Pc2 == PassPc(program, Pc1, exMem.pc)
Pc3 == PassPc(program, Pc2, idEx.pc)
Pc4 == PassPc(program, Pc3, ifId.pc)

Regs1 == PassRegs(program, Pc0, memWb.pc, regs)
Regs2 == PassRegs(program, Pc1, exMem.pc, Regs1)
Regs3 == PassRegs(program, Pc2, idEx.pc, Regs2)

(* The writing part of a buffer belongs to instruction i.                   *)
Carries(buffer, i) == buffer.wbMux = WbMux(i.op) /\ buffer.rd = i.rd

Writers == RegisterOps \cup {"ADDI"}

MemWbOk ==
  IF memWb.pc = 0 THEN memWb.wbMux = "NO_WRITEBACK" /\ memWb.rd = 0
  ELSE LET i == InstructionAt(program, Pc0)
       IN memWb.pc = Pc0 /\ Carries(memWb, i) /\ (i.op # "NOP" => WbData = Result(i, Pc0, regs))

ExMemOk ==
  IF exMem.pc = 0 THEN exMem.op = "NOP" /\ exMem.wbMux = "NO_WRITEBACK" /\ exMem.rd = 0
  ELSE LET i == InstructionAt(program, Pc1)
       IN /\ exMem.pc = Pc1 /\ exMem.op = i.op /\ Carries(exMem, i)
          /\ i.op \in Writers => exMem.result = Result(i, Pc1, Regs1)
          /\ i.op = "LW" => Memory[exMem.result] = Result(i, Pc1, Regs1)

IdExOk ==
  IF idEx.pc = 0 THEN idEx.op = "NOP" /\ idEx.wbMux = "NO_WRITEBACK" /\ idEx.rd = 0
  ELSE LET i == InstructionAt(program, Pc2)
       IN /\ idEx.pc = Pc2 /\ idEx.op = i.op /\ Carries(idEx, i)
          /\ i.op \in Writers => OperandA = Regs2[i.rs1]
          /\ i.op \in RegisterOps => OperandB = Regs2[i.rs2]
          /\ i.op \in {"ADDI", "LW", "JAL"} => idEx.b = i.imm
          /\ i.op = "LW" => idEx.a = Regs2[i.rs1]
          /\ i.op = "JAL" => idEx.a = Pc2

IfIdOk ==
  IF ifId.pc = 0 THEN ifId.instr = Nop
  ELSE ifId.pc = Pc3 /\ ifId.instr = InstructionAt(program, Pc3)

FetchOk == Pc4 = IF valid THEN pc ELSE Plus(pc, 4)

(* Where the clock still ticks once the instruction there is done.          *)
Runs(buffer) == buffer.pc < MaxPc

(* A stage is as it should be unless an older instruction stops the clock,  *)
(* or is a jump that will discard it.                                       *)
StagesOk ==
  /\ MemWbOk
  /\ Runs(memWb) => ExMemOk
  /\ Runs(memWb) /\ Runs(exMem) => IdExOk
  /\ Runs(memWb) /\ Runs(exMem) /\ Runs(idEx) /\ ~Flush => IfIdOk
  /\ Runs(memWb) /\ Runs(exMem) /\ Runs(idEx) /\ ~Flush
     /\ Runs(ifId) /\ ifId.instr.op # "JAL" => FetchOk

(* A jump is followed by two empty buffers.                                 *)
JumpFlushed == exMem.op = "JAL" => idEx.pc = 0 /\ ifId.pc = 0

(* The first cycle fetches nothing.                                         *)
FirstCycle == ~valid => pc = 0 /\ ifId = EmptyIfId /\ idEx.pc = 0 /\ exMem.pc = 0 /\ memWb.pc = 0

PipelineInv == Pc0 # 0 /\ StagesOk /\ JumpFlushed /\ FirstCycle

-----------------------------------------------------------------------------
(***************************************************************************)
(* What one instruction does.                                              *)
(***************************************************************************)
LEMMA InstructionFields ==
  ASSUME NEW i \in Instruction
  PROVE i.op \in Ops /\ i.rd \in Reg /\ i.rs1 \in Reg /\ i.rs2 \in Reg /\ i.imm \in Word
BY DEF Instruction

LEMMA SuccType == ASSUME NEW p \in Programs, NEW a \in Word PROVE Succ(p, a) \in Word
<1>1. PICK i \in Instruction : i = InstructionAt(p, a)
  BY AtType
<1>2. a \in Int /\ i.imm \in Int /\ 4 \in Int
  BY InstructionFields DEF Word
<1>3. Plus(a, i.imm) \in Word /\ Plus(a, 4) \in Word
  BY <1>2, PlusType
<1> QED BY <1>1, <1>3 DEF Succ

(* No instruction before MaxPc is followed by the one at address 0.         *)
LEMMA SuccNonzero ==
  ASSUME LegalPrograms, NEW p \in Programs, NEW a \in Word, a < MaxPc
  PROVE Succ(p, a) # 0
<1>1. CASE InstructionAt(p, a).op = "JAL"
  <2>1. a \in DOMAIN p /\ p[a] = InstructionAt(p, a)
    BY <1>1 DEF InstructionAt, Nop
  <2> QED BY <1>1, <2>1 DEF Succ, LegalPrograms, LegalProgram, NoJumpToZero
<1>2. CASE InstructionAt(p, a).op # "JAL"
  <2>1. a \in Nat /\ a + 4 < WordRange
    BY Constants DEF LegalPrograms, Word
  <2>2. (a + 4) % WordRange = a + 4
    BY <2>1, Constants
  <2> QED BY <1>2, <2>1, <2>2 DEF Succ, Plus
<1> QED BY <1>1, <1>2

LEMMA ResultType ==
  ASSUME NEW i \in Instruction, i.op # "NOP", NEW a \in Word, NEW R \in [Reg -> Word]
  PROVE Result(i, a, R) \in Word
<1>1. PICK x \in Word : x = R[i.rs1]
  BY InstructionFields
<1>2. PICK y \in Word : y = R[i.rs2]
  BY InstructionFields
<1>3. x \in Int /\ y \in Int /\ i.imm \in Int /\ a \in Int /\ 4 \in Int
  BY InstructionFields DEF Word
<1>4. Plus(x, y) \in Word /\ Plus(x, i.imm) \in Word /\ Plus(a, 4) \in Word
  BY <1>3, PlusType
<1>5. Difference(x, y) \in Word
  BY DifferenceType
<1>6. Memory[Plus(x, i.imm)] \in Word
  BY <1>4, PipelineAssumption DEF PipelineAssumption
<1>7. 0 \in Word /\ 1 \in Word /\ i.op \in Ops
  BY Constants, InstructionFields
<1> QED BY <1>1, <1>2, <1>4, <1>5, <1>6, <1>7 DEF Result, Ops

LEMMA AfterType ==
  ASSUME NEW i \in Instruction, NEW a \in Word, NEW R \in [Reg -> Word]
  PROVE After(i, a, R) \in [Reg -> Word]
BY ResultType, InstructionFields DEF After

(* It changes its own register, and no other.                               *)
LEMMA AfterOwn ==
  ASSUME NEW i \in Instruction, NEW a \in Word, NEW R \in [Reg -> Word], i.op # "NOP", i.rd # 0
  PROVE After(i, a, R)[i.rd] = Result(i, a, R)
BY InstructionFields DEF After

LEMMA AfterOther ==
  ASSUME NEW i \in Instruction, NEW a \in Word, NEW R \in [Reg -> Word], NEW r \in Reg,
         i.op = "NOP" \/ i.rd = 0 \/ r # i.rd
  PROVE After(i, a, R)[r] = R[r]
BY InstructionFields DEF After

LEMMA PassTypes ==
  ASSUME NEW p \in Programs, NEW a \in Word, NEW x, NEW R \in [Reg -> Word]
  PROVE PassPc(p, a, x) \in Word /\ PassRegs(p, a, x, R) \in [Reg -> Word]
<1>1. PICK i \in Instruction : i = InstructionAt(p, a)
  BY AtType
<1> QED BY <1>1, SuccType, AfterType DEF PassPc, PassRegs

-----------------------------------------------------------------------------
(***************************************************************************)
(* The addresses and registers along the pipeline.                         *)
(***************************************************************************)
LEMMA ArchitecturalPcType == ASSUME TypeOK PROVE Pc0 \in Word
<1>1. pc \in Int /\ 4 \in Int
  BY DEF TypeOK, Word
<1>2. Plus(pc, 4) \in Word
  BY <1>1, PlusType
<1> QED BY <1>2 DEF Pc0, ArchitecturalPc, TypeOK

LEMMA ChainTypes ==
  ASSUME TypeOK
  PROVE /\ Pc0 \in Word /\ Pc1 \in Word /\ Pc2 \in Word /\ Pc3 \in Word /\ Pc4 \in Word
        /\ Regs1 \in [Reg -> Word] /\ Regs2 \in [Reg -> Word] /\ Regs3 \in [Reg -> Word]
<1>1. program \in Programs /\ regs \in [Reg -> Word]
  BY DEF TypeOK
<1>2. PICK a \in Word : a = Pc0
  BY ArchitecturalPcType
<1>3. Pc1 \in Word /\ Regs1 \in [Reg -> Word]
  BY <1>1, <1>2, PassTypes DEF Pc1, Regs1
<1>4. PICK a1 \in Word : a1 = Pc1
  BY <1>3
<1>5. PICK R1 \in [Reg -> Word] : R1 = Regs1
  BY <1>3
<1>6. Pc2 \in Word /\ Regs2 \in [Reg -> Word]
  BY <1>1, <1>4, <1>5, PassTypes DEF Pc2, Regs2
<1>7. PICK a2 \in Word : a2 = Pc2
  BY <1>6
<1>8. PICK R2 \in [Reg -> Word] : R2 = Regs2
  BY <1>6
<1>9. Pc3 \in Word /\ Regs3 \in [Reg -> Word]
  BY <1>1, <1>7, <1>8, PassTypes DEF Pc3, Regs3
<1>10. PICK a3 \in Word : a3 = Pc3
  BY <1>9
<1>11. Pc4 \in Word
  BY <1>1, <1>10, <1>8, PassTypes DEF Pc4
<1> QED BY <1>2, <1>3, <1>6, <1>9, <1>11

(* PassPc never leads to 0 from an address before MaxPc.                    *)
LEMMA PassNonzero ==
  ASSUME LegalPrograms, NEW p \in Programs, NEW a \in Word, NEW x \in Word,
         a # 0, x = 0 \/ x = a, x < MaxPc
  PROVE PassPc(p, a, x) # 0
BY SuccNonzero DEF PassPc

LEMMA ChainNonzero ==
  ASSUME LegalPrograms, TypeOK, PipelineInv, Runs(memWb)
  PROVE /\ Pc1 # 0
        /\ Runs(exMem) => Pc2 # 0
        /\ Runs(exMem) /\ Runs(idEx) => Pc3 # 0
        /\ Runs(exMem) /\ Runs(idEx) /\ ~Flush /\ Runs(ifId) => Pc4 # 0
<1>1. /\ program \in Programs /\ memWb.pc \in Word /\ exMem.pc \in Word
      /\ idEx.pc \in Word /\ ifId.pc \in Word
  BY DEF TypeOK
<1>2. Pc0 \in Word /\ Pc1 \in Word /\ Pc2 \in Word /\ Pc3 \in Word
  BY ChainTypes
<1>3. Pc0 # 0 /\ (memWb.pc = 0 \/ memWb.pc = Pc0)
  BY DEF PipelineInv, StagesOk, MemWbOk
<1>4. Pc1 # 0
  BY <1>1, <1>2, <1>3, PassNonzero DEF Pc1, Runs
<1>5. exMem.pc = 0 \/ exMem.pc = Pc1
  BY DEF PipelineInv, StagesOk, ExMemOk
<1>6. ASSUME Runs(exMem) PROVE Pc2 # 0
  BY <1>1, <1>2, <1>4, <1>5, <1>6, PassNonzero DEF Pc2, Runs
<1>7. ASSUME Runs(exMem), Runs(idEx) PROVE Pc3 # 0
  <2>1. idEx.pc = 0 \/ idEx.pc = Pc2
    BY <1>7 DEF PipelineInv, StagesOk, IdExOk
  <2> QED BY <1>1, <1>2, <1>6, <1>7, <2>1, PassNonzero DEF Pc3, Runs
<1>8. ASSUME Runs(exMem), Runs(idEx), ~Flush, Runs(ifId) PROVE Pc4 # 0
  <2>1. ifId.pc = 0 \/ ifId.pc = Pc3
    BY <1>8 DEF PipelineInv, StagesOk, IfIdOk
  <2> QED BY <1>1, <1>2, <1>7, <1>8, <2>1, PassNonzero DEF Pc4, Runs
<1> QED BY <1>4, <1>6, <1>7, <1>8
-----------------------------------------------------------------------------
(***************************************************************************)
(* A clock cycle moves every instruction one buffer on, and completes the  *)
(* one in the last buffer.                                                 *)
(***************************************************************************)

(* What the clock does to the pc's, whichever of the cases it is.           *)
LEMMA ClockPcs ==
  ASSUME TypeOK, Clock
  PROVE /\ program' = program /\ memWb'.pc = exMem.pc /\ exMem'.pc = idEx.pc /\ valid' = TRUE
        /\ Flush => idEx' = Bubble /\ ifId' = EmptyIfId /\ pc' = AluResult
        /\ ~Flush /\ Stall => idEx' = Bubble /\ ifId' = ifId /\ pc' = pc
        /\ ~Flush /\ ~Stall =>
             /\ idEx' = Decoded /\ idEx'.pc = ifId.pc /\ pc' = Plus(pc, 4)
             /\ ifId' = IF valid THEN [instr |-> At(pc), pc |-> pc] ELSE EmptyIfId
BY DEF Clock, NextMemWb, NextExMem, NextIdEx, NextIfId, NextPc, Decoded

(* An empty buffer before decode stalls nothing.                            *)
LEMMA EmptyDoesNotStall == ASSUME ifId.instr = Nop PROVE ~Stall
BY DEF Stall, LoadUse, WriteBackRead, Sources, RegisterOps, Nop

LEMMA PcAdvances ==
  ASSUME LegalPrograms, TypeOK, PipelineInv, Clock
  PROVE Pc0' = Pc1
<1>1. Runs(memWb) /\ 0 < MaxPc
  BY Constants DEF Clock, Runs, TypeOK, Word
<1>2. /\ Pc1 # 0 /\ (exMem.pc = 0 \/ exMem.pc = Pc1)
      /\ exMem.pc = 0 => Runs(exMem) /\ Pc2 = Pc1
  BY <1>1, ChainNonzero DEF PipelineInv, StagesOk, ExMemOk, Pc2, PassPc, Runs
<1>3. CASE exMem.pc # 0
  BY <1>2, <1>3, ClockPcs DEF Pc0, ArchitecturalPc
<1>4. CASE exMem.pc = 0
  <2>1. /\ idEx.pc = 0 \/ idEx.pc = Pc1
        /\ idEx.pc = 0 => ~Flush /\ Runs(idEx) /\ Pc3 = Pc1
    BY <1>1, <1>2, <1>4 DEF PipelineInv, StagesOk, IdExOk, Pc3, PassPc, Runs, Flush
  <2>2. CASE idEx.pc # 0
    BY <1>4, <2>1, <2>2, ClockPcs DEF Pc0, ArchitecturalPc
  <2>3. CASE idEx.pc = 0
    <3>1. /\ ifId.pc = 0 => ifId.instr = Nop /\ Runs(ifId) /\ Pc4 = Pc1
          /\ ifId.pc # 0 => ifId.pc = Pc1
      BY <1>1, <1>2, <1>4, <2>1, <2>3 DEF PipelineInv, StagesOk, IfIdOk, Pc4, PassPc, Runs
    <3>2. CASE ifId.pc # 0
      <4>1. CASE Stall
        BY <1>4, <2>1, <2>3, <3>1, <3>2, <4>1, ClockPcs DEF Pc0, ArchitecturalPc, Bubble
      <4>2. CASE ~Stall
        BY <1>4, <2>1, <2>3, <3>1, <3>2, <4>2, ClockPcs DEF Pc0, ArchitecturalPc
      <4> QED BY <4>1, <4>2
    <3>3. CASE ifId.pc = 0
      <4>1. ~Stall
        BY <3>1, <3>3, EmptyDoesNotStall
      <4>2. Pc1 = IF valid THEN pc ELSE Plus(pc, 4)
        BY <1>1, <1>2, <1>4, <2>1, <2>3, <3>1, <3>3 DEF PipelineInv, StagesOk, FetchOk, Nop
      <4>3. /\ idEx'.pc = 0 /\ memWb'.pc = 0 /\ exMem'.pc = 0
            /\ ifId'.pc = IF valid THEN pc ELSE 0
            /\ valid' = TRUE /\ pc' = Plus(pc, 4)
        BY <1>4, <2>1, <2>3, <3>3, <4>1, ClockPcs DEF EmptyIfId
      <4> QED BY <1>2, <4>2, <4>3 DEF Pc0, ArchitecturalPc
    <3> QED BY <3>2, <3>3
  <2> QED BY <2>2, <2>3
<1> QED BY <1>3, <1>4

(* The register file changes as the completed instruction says.             *)
LEMMA RegsAdvance ==
  ASSUME TypeOK, PipelineInv, Clock
  PROVE regs' = Regs1
<1>1. regs' = IF memWb.wbMux # "NO_WRITEBACK" /\ memWb.rd # 0
              THEN [regs EXCEPT ![memWb.rd] = WbData] ELSE regs
  BY DEF Clock, NextRegs, WbValid
<1>2. CASE memWb.pc = 0
  BY <1>1, <1>2 DEF PipelineInv, StagesOk, MemWbOk, Regs1, PassRegs
<1>3. CASE memWb.pc # 0
  <2>1. PICK i \in Instruction : i = InstructionAt(program, Pc0)
    BY AtType DEF TypeOK
  <2>2. /\ memWb.wbMux = WbMux(i.op) /\ memWb.rd = i.rd
        /\ i.op # "NOP" => WbData = Result(i, Pc0, regs)
    BY <1>3, <2>1 DEF PipelineInv, StagesOk, MemWbOk, Carries
  <2>3. WbMux(i.op) # "NO_WRITEBACK" <=> i.op # "NOP"
    BY <2>1, InstructionFields DEF WbMux, RegisterOps, Ops
  <2>4. Regs1 = IF i.op = "NOP" \/ i.rd = 0 THEN regs ELSE [regs EXCEPT ![i.rd] = Result(i, Pc0, regs)]
    BY <1>3, <2>1 DEF Regs1, PassRegs, After
  <2> QED BY <1>1, <2>2, <2>3, <2>4
<1> QED BY <1>2, <1>3

LEMMA ChainAdvances ==
  ASSUME LegalPrograms, TypeOK, PipelineInv, Clock
  PROVE /\ Pc0' = Pc1 /\ Pc1' = Pc2 /\ Pc2' = Pc3 /\ Pc3' = PassPc(program, Pc3, idEx'.pc)
        /\ Pc4' = PassPc(program, Pc3', ifId'.pc)
        /\ regs' = Regs1 /\ Regs1' = Regs2 /\ Regs2' = Regs3
<1>1. Pc0' = Pc1 /\ regs' = Regs1
  BY PcAdvances, RegsAdvance
<1>2. program' = program /\ memWb'.pc = exMem.pc /\ exMem'.pc = idEx.pc
  BY ClockPcs
<1>3. Pc1' = Pc2 /\ Regs1' = Regs2
  BY <1>1, <1>2 DEF Pc1, Pc2, Regs1, Regs2
<1>4. Pc2' = Pc3 /\ Regs2' = Regs3
  BY <1>1, <1>2, <1>3 DEF Pc2, Pc3, Regs2, Regs3
<1>5. Pc3' = PassPc(program, Pc3, idEx'.pc) /\ Pc4' = PassPc(program, Pc3', ifId'.pc)
  BY <1>2, <1>4 DEF Pc3, Pc4
<1> QED BY <1>1, <1>3, <1>4, <1>5
-----------------------------------------------------------------------------
(***************************************************************************)
(* Each buffer after a clock cycle, from the one before it.                *)
(***************************************************************************)
LEMMA MemWbStep ==
  ASSUME LegalPrograms, TypeOK, PipelineInv, Clock
  PROVE MemWbOk'
<1>1. /\ memWb'.pc = exMem.pc /\ memWb'.wbMux = exMem.wbMux /\ memWb'.rd = exMem.rd
      /\ memWb'.result = exMem.result
      /\ exMem.op = "LW" => memWb'.loaded = Memory[exMem.result]
  BY DEF Clock, NextMemWb, Loaded
<1>2. program' = program /\ Pc0' = Pc1 /\ regs' = Regs1
  BY ChainAdvances, ClockPcs
<1>3. ExMemOk
  BY DEF PipelineInv, StagesOk, Clock, Runs
<1>4. CASE exMem.pc = 0
  BY <1>1, <1>3, <1>4 DEF ExMemOk, MemWbOk
<1>5. CASE exMem.pc # 0
  <2>1. PICK i \in Instruction : i = InstructionAt(program, Pc1)
    BY AtType DEF TypeOK
  <2>2. /\ exMem.pc = Pc1 /\ exMem.op = i.op /\ exMem.wbMux = WbMux(i.op) /\ exMem.rd = i.rd
        /\ i.op \in Writers => exMem.result = Result(i, Pc1, Regs1)
        /\ i.op = "LW" => Memory[exMem.result] = Result(i, Pc1, Regs1)
    BY <1>3, <1>5, <2>1 DEF ExMemOk, Carries
  <2>3. ASSUME i.op # "NOP" PROVE WbData' = Result(i, Pc1, Regs1)
    <3>1. i.op \in Writers \/ i.op = "LW" \/ i.op = "JAL"
      BY <2>3, InstructionFields DEF Writers, RegisterOps, Ops
    <3>2. CASE i.op \in Writers
      BY <1>1, <2>2, <3>2 DEF WbData, WbMux, Writers, RegisterOps
    <3>3. CASE i.op = "LW"
      BY <1>1, <2>2, <3>3 DEF WbData, WbMux, RegisterOps
    <3>4. CASE i.op = "JAL"
      <4>1. Result(i, Pc1, Regs1) = Plus(Pc1, 4)
        BY <3>4 DEF Result
      <4> QED BY <1>1, <2>2, <3>4, <4>1 DEF WbData, WbMux, RegisterOps
    <3> QED BY <3>1, <3>2, <3>3, <3>4
  <2> QED BY <1>1, <1>2, <1>5, <2>1, <2>2, <2>3 DEF MemWbOk, Carries
<1> QED BY <1>4, <1>5

(* The ALU computes what the instruction asks for, from operands that are   *)
(* right.                                                                   *)
LEMMA AluComputes ==
  ASSUME TypeOK, IdExOk, idEx.pc # 0, NEW i \in Instruction, i = InstructionAt(program, Pc2)
  PROVE /\ i.op \in Writers => AluResult = Result(i, Pc2, Regs2)
        /\ i.op = "LW" => Memory[AluResult] = Result(i, Pc2, Regs2)
        /\ i.op = "JAL" => AluResult = Succ(program, Pc2)
<1>1. /\ idEx.op = i.op
      /\ i.op \in Writers => OperandA = Regs2[i.rs1]
      /\ i.op \in RegisterOps => OperandB = Regs2[i.rs2]
      /\ i.op \in {"ADDI", "LW", "JAL"} => idEx.b = i.imm
      /\ i.op = "LW" => idEx.a = Regs2[i.rs1]
      /\ i.op = "JAL" => idEx.a = Pc2
  BY DEF IdExOk
<1>2. /\ i.op \in {"ADDI", "LW", "JAL"} => OperandB = i.imm
      /\ i.op = "LW" => OperandA = Regs2[i.rs1]
      /\ i.op = "JAL" => OperandA = Pc2
  BY <1>1 DEF OperandA, OperandB, RegisterOps
<1>3. CASE i.op = "ADD"
  BY <1>1, <1>2, <1>3 DEF AluResult, Result, Writers, RegisterOps
<1>4. CASE i.op = "SUB"
  BY <1>1, <1>2, <1>4 DEF AluResult, Result, Writers, RegisterOps
<1>5. CASE i.op = "SLT"
  BY <1>1, <1>2, <1>5 DEF AluResult, Result, Writers, RegisterOps
<1>6. CASE i.op = "ADDI"
  BY <1>1, <1>2, <1>6 DEF AluResult, Result, Writers, RegisterOps
<1>7. CASE i.op = "LW"
  BY <1>1, <1>2, <1>7 DEF AluResult, Result, Writers, RegisterOps
<1>8. CASE i.op = "JAL"
  BY <1>1, <1>2, <1>8 DEF AluResult, Succ, Writers, RegisterOps
<1> QED BY <1>3, <1>4, <1>5, <1>6, <1>7, <1>8 DEF Writers, RegisterOps

LEMMA ExMemStep ==
  ASSUME LegalPrograms, TypeOK, PipelineInv, Clock, Runs(exMem)
  PROVE ExMemOk'
<1>1. /\ exMem'.pc = idEx.pc /\ exMem'.op = idEx.op /\ exMem'.wbMux = idEx.wbMux
      /\ exMem'.rd = idEx.rd /\ exMem'.result = AluResult
  BY DEF Clock, NextExMem
<1>2. program' = program /\ Pc1' = Pc2 /\ Regs1' = Regs2
  BY ChainAdvances, ClockPcs
<1>3. IdExOk
  BY DEF PipelineInv, StagesOk, Clock, Runs
<1>4. CASE idEx.pc = 0
  BY <1>1, <1>3, <1>4 DEF IdExOk, ExMemOk
<1>5. CASE idEx.pc # 0
  <2>1. PICK i \in Instruction : i = InstructionAt(program, Pc2)
    BY AtType DEF TypeOK
  <2>2. /\ idEx.pc = Pc2 /\ idEx.op = i.op /\ idEx.wbMux = WbMux(i.op) /\ idEx.rd = i.rd
    BY <1>3, <1>5, <2>1 DEF IdExOk, Carries
  <2>3. /\ i.op \in Writers => AluResult = Result(i, Pc2, Regs2)
        /\ i.op = "LW" => Memory[AluResult] = Result(i, Pc2, Regs2)
    BY <1>3, <1>5, <2>1, AluComputes
  <2> QED BY <1>1, <1>2, <1>5, <2>1, <2>2, <2>3 DEF ExMemOk, Carries
<1> QED BY <1>4, <1>5

LEMMA IfIdStep ==
  ASSUME LegalPrograms, TypeOK, PipelineInv, Clock, Runs(exMem), Runs(idEx), Runs(idEx)', ~Flush'
  PROVE IfIdOk'
<1>1. program' = program /\ Pc3' = PassPc(program, Pc3, idEx'.pc)
  BY ChainAdvances, ClockPcs
<1>2. Runs(memWb)
  BY DEF Clock, Runs
<1>3. CASE Flush
  BY <1>3, ClockPcs DEF IfIdOk, EmptyIfId
<1>4. CASE ~Flush /\ Stall
  <2>1. IfIdOk /\ ifId' = ifId /\ Pc3' = Pc3
    BY <1>1, <1>2, <1>4, ClockPcs DEF PipelineInv, StagesOk, Bubble, PassPc
  <2> QED BY <1>1, <2>1 DEF IfIdOk
<1>5. CASE ~Flush /\ ~Stall
  <2>1. /\ idEx'.pc = ifId.pc /\ idEx'.op = ifId.instr.op
        /\ ifId' = IF valid THEN [instr |-> At(pc), pc |-> pc] ELSE EmptyIfId
    BY <1>5, ClockPcs DEF Decoded
  <2>2. Runs(ifId) /\ ifId.instr.op # "JAL"
    BY <2>1 DEF Runs, Flush
  <2>3. Pc4 = IF valid THEN pc ELSE Plus(pc, 4)
    BY <1>2, <1>5, <2>2 DEF PipelineInv, StagesOk, FetchOk
  <2>4. Pc3' = Pc4 /\ Pc4 # 0
    BY <1>1, <1>2, <1>5, <2>1, <2>2, ChainNonzero DEF Pc4
  <2>5. CASE valid
    BY <1>1, <2>1, <2>3, <2>4, <2>5 DEF IfIdOk, At
  <2>6. CASE ~valid
    BY <2>1, <2>6 DEF IfIdOk, EmptyIfId
  <2> QED BY <2>5, <2>6
<1> QED BY <1>3, <1>4, <1>5

LEMMA FetchStep ==
  ASSUME LegalPrograms, TypeOK, PipelineInv, Clock, Runs(exMem), Runs(idEx), Runs(idEx)', ~Flush',
         Runs(ifId)', ifId'.instr.op # "JAL"
  PROVE FetchOk'
<1>1. /\ program' = program /\ valid' = TRUE /\ Pc3' = PassPc(program, Pc3, idEx'.pc)
      /\ Pc4' = PassPc(program, Pc3', ifId'.pc)
  BY ChainAdvances, ClockPcs
<1>2. Runs(memWb)
  BY DEF Clock, Runs
<1>3. CASE Flush
  <2>1. Pc4' = Pc3
    BY <1>1, <1>3, ClockPcs DEF Bubble, EmptyIfId, PassPc
  <2>2. IdExOk /\ idEx.op = "JAL"
    BY <1>2, <1>3 DEF PipelineInv, StagesOk, Flush
  <2>3. idEx.pc # 0
    BY <2>2 DEF IdExOk
  <2>4. PICK i \in Instruction : i = InstructionAt(program, Pc2)
    BY AtType DEF TypeOK
  <2>5. i.op = "JAL"
    BY <2>2, <2>3, <2>4 DEF IdExOk
  <2>6. AluResult = Succ(program, Pc2)
    BY <2>2, <2>3, <2>4, <2>5, AluComputes
  <2>7. Pc3 = Succ(program, Pc2)
    BY <2>3 DEF Pc3, PassPc
  <2> QED BY <1>1, <1>3, <2>1, <2>6, <2>7, ClockPcs DEF FetchOk
<1>4. CASE ~Flush /\ Stall
  <2>1. ifId' = ifId /\ pc' = pc /\ Pc3' = Pc3
    BY <1>1, <1>4, ClockPcs DEF Bubble, PassPc
  <2>2. Pc4' = Pc4
    BY <1>1, <2>1 DEF Pc4
  <2>3. Runs(ifId) /\ ifId.instr.op # "JAL"
    BY <2>1 DEF Runs
  <2>4. FetchOk
    BY <1>2, <1>4, <2>3 DEF PipelineInv, StagesOk
  <2>5. valid
    BY <1>4, EmptyDoesNotStall DEF PipelineInv, FirstCycle, EmptyIfId
  <2> QED BY <1>1, <2>1, <2>2, <2>4, <2>5 DEF FetchOk
<1>5. CASE ~Flush /\ ~Stall
  <2>1. /\ idEx'.pc = ifId.pc /\ idEx'.op = ifId.instr.op /\ pc' = Plus(pc, 4)
        /\ ifId' = IF valid THEN [instr |-> At(pc), pc |-> pc] ELSE EmptyIfId
    BY <1>5, ClockPcs DEF Decoded
  <2>2. Runs(ifId) /\ ifId.instr.op # "JAL"
    BY <2>1 DEF Runs, Flush
  <2>3. Pc4 = IF valid THEN pc ELSE Plus(pc, 4)
    BY <1>2, <1>5, <2>2 DEF PipelineInv, StagesOk, FetchOk
  <2>4. Pc3' = Pc4 /\ Pc4 # 0
    BY <1>1, <1>2, <1>5, <2>1, <2>2, ChainNonzero DEF Pc4
  <2>5. CASE valid
    <3>1. ifId'.pc = pc /\ InstructionAt(program, pc).op # "JAL"
      BY <2>1, <2>5 DEF At
    <3>2. Pc4' = Plus(pc, 4)
      BY <1>1, <2>3, <2>4, <2>5, <3>1 DEF PassPc, Succ
    <3> QED BY <1>1, <2>1, <3>2 DEF FetchOk
  <2>6. CASE ~valid
    <3>1. Pc4' = Plus(pc, 4)
      BY <1>1, <2>1, <2>3, <2>4, <2>6 DEF EmptyIfId, PassPc
    <3> QED BY <1>1, <2>1, <3>1 DEF FetchOk
  <2> QED BY <2>5, <2>6
<1> QED BY <1>3, <1>4, <1>5
-----------------------------------------------------------------------------
(***************************************************************************)
(* Decode reads the register file two or three instructions early.  What   *)
(* it reads is right, or will be forwarded.                                *)
(***************************************************************************)
Writes(buffer, r) == buffer.wbMux # "NO_WRITEBACK" /\ buffer.rd # 0 /\ buffer.rd = r

BufferOk(buffer, p, a) ==
  IF buffer.pc = 0 THEN buffer.wbMux = "NO_WRITEBACK" /\ buffer.rd = 0
  ELSE Carries(buffer, InstructionAt(p, a))

LEMMA WbMuxWrites ==
  ASSUME NEW i \in Instruction
  PROVE WbMux(i.op) # "NO_WRITEBACK" <=> i.op # "NOP"
BY InstructionFields DEF WbMux, RegisterOps, Ops

LEMMA PassUnwritten ==
  ASSUME NEW p \in Programs, NEW a \in Word, NEW R \in [Reg -> Word], NEW r \in Reg,
         NEW buffer, BufferOk(buffer, p, a), ~Writes(buffer, r)
  PROVE PassRegs(p, a, buffer.pc, R)[r] = R[r]
<1>1. PICK i \in Instruction : i = InstructionAt(p, a)
  BY AtType
<1>2. CASE buffer.pc = 0
  BY <1>2 DEF PassRegs
<1>3. CASE buffer.pc # 0
  <2>1. i.op = "NOP" \/ i.rd = 0 \/ r # i.rd
    BY <1>1, <1>3, WbMuxWrites DEF BufferOk, Carries, Writes
  <2> QED BY <1>1, <1>3, <2>1, AfterOther DEF PassRegs
<1> QED BY <1>2, <1>3

LEMMA PassWritten ==
  ASSUME NEW p \in Programs, NEW a \in Word, NEW R \in [Reg -> Word], NEW r \in Reg,
         NEW buffer, BufferOk(buffer, p, a), Writes(buffer, r)
  PROVE /\ buffer.pc # 0 /\ InstructionAt(p, a).op # "NOP" /\ InstructionAt(p, a).rd = r /\ r # 0
        /\ PassRegs(p, a, buffer.pc, R)[r] = Result(InstructionAt(p, a), a, R)
<1>1. PICK i \in Instruction : i = InstructionAt(p, a)
  BY AtType
<1>2. buffer.pc # 0
  BY DEF BufferOk, Writes
<1>3. i.op # "NOP" /\ i.rd = r /\ r # 0
  BY <1>1, <1>2, WbMuxWrites DEF BufferOk, Carries, Writes
<1>4. After(i, a, R)[r] = Result(i, a, R)
  BY <1>3, AfterOwn
<1> QED BY <1>1, <1>2, <1>3, <1>4 DEF PassRegs

(* A destination in a buffer will be written.                               *)
LEMMA NoPhantom ==
  ASSUME LegalPrograms, NEW p \in Programs, NEW a \in Word, NEW buffer, BufferOk(buffer, p, a),
         buffer.rd # 0
  PROVE Writes(buffer, buffer.rd)
<1>1. PICK i \in Instruction : i = InstructionAt(p, a)
  BY AtType
<1>2. buffer.wbMux = WbMux(i.op) /\ buffer.rd = i.rd
  BY <1>1 DEF BufferOk, Carries
<1>3. i.op # "NOP"
  BY <1>1, <1>2 DEF LegalPrograms, LegalProgram, NoPhantomDestination, InstructionAt, Nop
<1> QED BY <1>2, <1>3, WbMuxWrites DEF Writes

(* All three buffers ahead of decode carry what they should.                *)
LEMMA BuffersOk ==
  ASSUME PipelineInv, Runs(memWb), Runs(exMem)
  PROVE BufferOk(memWb, program, Pc0) /\ BufferOk(exMem, program, Pc1) /\ BufferOk(idEx, program, Pc2)
BY DEF PipelineInv, StagesOk, MemWbOk, ExMemOk, IdExOk, BufferOk

(* Which of the buffers ahead decides on register r.                        *)
LEMMA RegisterAhead ==
  ASSUME LegalPrograms, TypeOK, PipelineInv, Clock, Runs(exMem), NEW r \in Reg
  PROVE /\ ~Writes(memWb, r) => Regs1[r] = regs[r]
        /\ ~Writes(exMem, r) => Regs2[r] = Regs1[r]
        /\ Writes(exMem, r) => Regs2[r] = WbData'
        /\ ~Writes(idEx, r) => Regs3[r] = Regs2[r]
        /\ Writes(idEx, r) /\ idEx.op \in Writers => Regs3[r] = AluResult
<1>1. Runs(memWb) /\ program \in Programs /\ regs \in [Reg -> Word]
  BY DEF Clock, Runs, TypeOK
<1>2. BufferOk(memWb, program, Pc0) /\ BufferOk(exMem, program, Pc1) /\ BufferOk(idEx, program, Pc2)
  BY <1>1, BuffersOk
<1>3. PICK a0 \in Word, a1 \in Word, a2 \in Word : a0 = Pc0 /\ a1 = Pc1 /\ a2 = Pc2
  BY ChainTypes
<1>4. PICK R1 \in [Reg -> Word], R2 \in [Reg -> Word] : R1 = Regs1 /\ R2 = Regs2
  BY ChainTypes
<1>5. /\ Regs1 = PassRegs(program, a0, memWb.pc, regs)
      /\ Regs2 = PassRegs(program, a1, exMem.pc, R1)
      /\ Regs3 = PassRegs(program, a2, idEx.pc, R2)
  BY <1>3, <1>4 DEF Regs1, Regs2, Regs3
<1>6. ASSUME ~Writes(memWb, r) PROVE Regs1[r] = regs[r]
  BY <1>1, <1>2, <1>3, <1>5, <1>6, PassUnwritten
<1>7. ASSUME ~Writes(exMem, r) PROVE Regs2[r] = Regs1[r]
  BY <1>1, <1>2, <1>3, <1>4, <1>5, <1>7, PassUnwritten
<1>8. ASSUME ~Writes(idEx, r) PROVE Regs3[r] = Regs2[r]
  BY <1>1, <1>2, <1>3, <1>4, <1>5, <1>8, PassUnwritten
<1>9. ASSUME Writes(exMem, r) PROVE Regs2[r] = WbData'
  <2>1. /\ exMem.pc # 0 /\ InstructionAt(program, a1).op # "NOP"
        /\ Regs2[r] = Result(InstructionAt(program, a1), a1, R1)
    BY <1>1, <1>2, <1>3, <1>4, <1>5, <1>9, PassWritten
  <2>2. program' = program /\ Pc0' = a1 /\ regs' = R1 /\ memWb'.pc = exMem.pc
    BY <1>3, <1>4, ChainAdvances, ClockPcs
  <2>3. MemWbOk'
    BY MemWbStep
  <2> QED BY <2>1, <2>2, <2>3 DEF MemWbOk
<1>10. ASSUME Writes(idEx, r), idEx.op \in Writers PROVE Regs3[r] = AluResult
  <2>1. idEx.pc # 0 /\ Regs3[r] = Result(InstructionAt(program, a2), a2, R2)
    BY <1>1, <1>2, <1>3, <1>4, <1>5, <1>10, PassWritten
  <2>2. PICK i \in Instruction : i = InstructionAt(program, Pc2)
    BY <1>1, AtType
  <2>3. IdExOk
    BY <1>1 DEF PipelineInv, StagesOk
  <2>4. i.op \in Writers
    BY <1>10, <2>1, <2>2, <2>3 DEF IdExOk
  <2> QED BY <1>3, <1>4, <2>1, <2>2, <2>3, <2>4, AluComputes
<1> QED BY <1>6, <1>7, <1>8, <1>9, <1>10

(* If neither of the two buffers behind the ALU's inputs has the register,  *)
(* the register file has it: decode did not read while it was written.      *)
LEMMA ReadFromRegisterFile ==
  ASSUME LegalPrograms, TypeOK, PipelineInv, Clock, Runs(exMem), ~Stall,
         NEW r \in Reg, r \in Sources(ifId.instr), ~Writes(idEx, r), ~Writes(exMem, r)
  PROVE Regs3[r] = regs[r]
<1>1. ASSUME Writes(memWb, r) PROVE FALSE
  <2>1. r # 0 /\ (r = idEx.rd \/ r = exMem.rd)
    BY <1>1 DEF Writes, Stall, WriteBackRead, WbValid
  <2>2. Runs(memWb) /\ program \in Programs
    BY DEF Clock, Runs, TypeOK
  <2>3. BufferOk(exMem, program, Pc1) /\ BufferOk(idEx, program, Pc2)
    BY <2>2, BuffersOk
  <2>4. Pc1 \in Word /\ Pc2 \in Word
    BY ChainTypes
  <2>5. (idEx.rd # 0 => Writes(idEx, idEx.rd)) /\ (exMem.rd # 0 => Writes(exMem, exMem.rd))
    BY <2>2, <2>3, <2>4, NoPhantom
  <2> QED BY <2>1, <2>5
<1> QED BY <1>1, RegisterAhead

(* The value that execute will take for source register r is the one that   *)
(* the older instructions leave in it.                                      *)
LEMMA SourceRead ==
  ASSUME LegalPrograms, TypeOK, PipelineInv, Clock, Runs(exMem), ~Flush, ~Stall,
         NEW r \in Reg, r \in Sources(ifId.instr)
  PROVE Regs3[r] = IF Writes(idEx, r) THEN AluResult
                   ELSE IF Writes(exMem, r) THEN WbData' ELSE regs[r]
<1>1. CASE Writes(idEx, r)
  <2>1. idEx.op # "LW" /\ idEx.op # "JAL"
    BY <1>1 DEF Writes, Stall, LoadUse, Flush
  <2>2. Runs(memWb) /\ program \in Programs
    BY DEF Clock, Runs, TypeOK
  <2>3. PICK i \in Instruction : i = InstructionAt(program, Pc2)
    BY <2>2, AtType
  <2>4. IdExOk /\ idEx.pc # 0
    BY <1>1, <2>2 DEF PipelineInv, StagesOk, IdExOk, Writes
  <2>5. idEx.op = i.op /\ idEx.wbMux = WbMux(i.op)
    BY <2>3, <2>4 DEF IdExOk, Carries
  <2>6. i.op # "NOP" /\ i.op \in Ops
    BY <1>1, <2>5, WbMuxWrites, InstructionFields DEF Writes
  <2>7. idEx.op \in Writers
    BY <2>1, <2>5, <2>6 DEF Ops, Writers, RegisterOps
  <2> QED BY <1>1, <2>7, RegisterAhead
<1>2. CASE ~Writes(idEx, r) /\ Writes(exMem, r)
  BY <1>2, RegisterAhead
<1>3. CASE ~Writes(idEx, r) /\ ~Writes(exMem, r)
  BY <1>3, ReadFromRegisterFile
<1> QED BY <1>1, <1>2, <1>3

(* The base register of a load, for which nothing is forwarded.             *)
LEMMA LoadBaseRead ==
  ASSUME LegalPrograms, TypeOK, PipelineInv, Clock, Runs(exMem), Runs(idEx), ~Flush, ~Stall,
         ifId.pc # 0, ifId.instr.op = "LW"
  PROVE Regs3[ifId.instr.rs1] = regs[ifId.instr.rs1]
<1>1. /\ Runs(memWb) /\ program \in Programs /\ Pc1 \in Word /\ Pc2 \in Word /\ Pc3 \in Word
      /\ ifId.instr \in Instruction
  BY ChainTypes DEF Clock, Runs, TypeOK
<1>2. PICK r \in Reg : r = ifId.instr.rs1
  BY <1>1, InstructionFields
<1>3. r \in Sources(ifId.instr)
  BY <1>2 DEF Sources
<1>4. ifId.instr = InstructionAt(program, Pc3)
  BY <1>1 DEF PipelineInv, StagesOk, IfIdOk
<1>5. BufferOk(exMem, program, Pc1) /\ BufferOk(idEx, program, Pc2)
  BY <1>1, BuffersOk
<1>6. ExMemOk /\ IdExOk /\ exMem.op # "JAL" /\ idEx.op # "JAL"
  BY <1>1 DEF PipelineInv, StagesOk, JumpFlushed, Flush
<1>7. /\ idEx.pc = 0 => Pc3 = Pc2
      /\ idEx.pc # 0 => InstructionAt(program, Pc2).op # "JAL" /\ Pc3 = Plus(Pc2, 4)
  BY <1>6 DEF IdExOk, Pc3, PassPc, Succ
<1>8. ASSUME NEW a \in Word, InstructionAt(program, a).op \notin {"NOP", "JAL"},
             InstructionAt(program, a).rd = r, r # 0
      PROVE /\ ~(InstructionAt(program, Plus(a, 4)).op = "LW" /\ InstructionAt(program, Plus(a, 4)).rs1 = r)
            /\ \/ InstructionAt(program, Plus(a, 4)).op = "JAL"
               \/ ~(InstructionAt(program, Plus(Plus(a, 4), 4)).op = "LW"
                    /\ InstructionAt(program, Plus(Plus(a, 4), 4)).rs1 = r)
  <2>1. a \in DOMAIN program /\ program[a] = InstructionAt(program, a)
    BY <1>8 DEF InstructionAt, Nop
  <2>2. program[a].op \in RegisterOps \cup {"ADDI", "LW"}
    BY <1>1, <1>8, <2>1, AtType, InstructionFields DEF Ops, RegisterOps
  <2> QED BY <1>1, <1>8, <2>1, <2>2 DEF LegalPrograms, LegalProgram, LoadBasesReady
<1>9. ASSUME Writes(idEx, r) PROVE FALSE
  <2>1. /\ idEx.pc # 0 /\ InstructionAt(program, Pc2).op # "NOP"
        /\ InstructionAt(program, Pc2).rd = r /\ r # 0
    <3>1. PICK R \in [Reg -> Word] : R = regs
      BY DEF TypeOK
    <3> QED BY <1>1, <1>5, <1>9, <3>1, PassWritten
  <2> QED BY <1>1, <1>2, <1>4, <1>7, <1>8, <2>1
<1>10. ASSUME Writes(exMem, r) PROVE FALSE
  <2>1. /\ exMem.pc # 0 /\ InstructionAt(program, Pc1).op # "NOP"
        /\ InstructionAt(program, Pc1).rd = r /\ r # 0
    <3>1. PICK R \in [Reg -> Word] : R = regs
      BY DEF TypeOK
    <3> QED BY <1>1, <1>5, <1>10, <3>1, PassWritten
  <2>2. InstructionAt(program, Pc1).op # "JAL" /\ Pc2 = Plus(Pc1, 4)
    BY <1>6, <2>1 DEF ExMemOk, Pc2, PassPc, Succ
  <2> QED BY <1>1, <1>2, <1>4, <1>7, <1>8, <2>1, <2>2
<1> QED BY <1>2, <1>3, <1>9, <1>10, ReadFromRegisterFile
LEMMA IdExStep ==
  ASSUME LegalPrograms, TypeOK, PipelineInv, Clock, Runs(exMem), Runs(idEx)
  PROVE IdExOk'
<1>1. program' = program /\ Pc2' = Pc3 /\ Regs2' = Regs3
  BY ChainAdvances, ClockPcs
<1>2. CASE Flush \/ Stall
  BY <1>2, ClockPcs DEF IdExOk, Bubble
<1>3. CASE ~Flush /\ ~Stall
  <2>1. PICK i \in Instruction : i = ifId.instr
    BY DEF TypeOK
  <2>2. /\ idEx'.op = i.op /\ idEx'.wbMux = WbMux(i.op) /\ idEx'.rd = i.rd
        /\ idEx'.rs1 = i.rs1 /\ idEx'.rs2 = i.rs2 /\ idEx'.pc = ifId.pc
        /\ idEx'.a = (IF i.op = "JAL" THEN ifId.pc ELSE regs[i.rs1])
        /\ idEx'.b = IF i.op \in RegisterOps THEN regs[i.rs2] ELSE i.imm
    BY <1>3, <2>1, ClockPcs DEF Decoded
  <2>3. IfIdOk
    BY <1>3 DEF PipelineInv, StagesOk, Clock, Runs
  <2>4. CASE ifId.pc = 0
    BY <2>1, <2>2, <2>3, <2>4 DEF IfIdOk, IdExOk, Nop, WbMux, RegisterOps
  <2>5. CASE ifId.pc # 0
    <3>1. ifId.pc = Pc3 /\ i = InstructionAt(program, Pc3)
      BY <2>1, <2>3, <2>5 DEF IfIdOk
    <3>2. /\ exMem'.wbMux = idEx.wbMux /\ exMem'.rd = idEx.rd /\ exMem'.result = AluResult
          /\ memWb'.wbMux = exMem.wbMux /\ memWb'.rd = exMem.rd
      BY DEF Clock, NextExMem, NextMemWb
    <3>3. ASSUME i.op \in Writers PROVE OperandA' = Regs3[i.rs1]
      <4>1. i.rs1 \in Sources(ifId.instr) /\ i.rs1 \in Reg
        BY <2>1, <3>3, InstructionFields DEF Sources, Writers
      <4>2. Regs3[i.rs1] = IF Writes(idEx, i.rs1) THEN AluResult
                           ELSE IF Writes(exMem, i.rs1) THEN WbData' ELSE regs[i.rs1]
        BY <1>3, <4>1, SourceRead
      <4>3. idEx'.a = regs[i.rs1] /\ idEx'.op \in RegisterOps \cup {"ADDI"}
        BY <2>2, <3>3 DEF Writers, RegisterOps
      <4> QED BY <2>2, <3>2, <4>2, <4>3 DEF OperandA, Forward, WbValid, Writes
    <3>4. ASSUME i.op \in RegisterOps PROVE OperandB' = Regs3[i.rs2]
      <4>1. i.rs2 \in Sources(ifId.instr) /\ i.rs2 \in Reg
        BY <2>1, <3>4, InstructionFields DEF Sources
      <4>2. Regs3[i.rs2] = IF Writes(idEx, i.rs2) THEN AluResult
                           ELSE IF Writes(exMem, i.rs2) THEN WbData' ELSE regs[i.rs2]
        BY <1>3, <4>1, SourceRead
      <4>3. idEx'.b = regs[i.rs2] /\ idEx'.op \in RegisterOps
        BY <2>2, <3>4
      <4> QED BY <2>2, <3>2, <4>2, <4>3 DEF OperandB, Forward, WbValid, Writes
    <3>5. ASSUME i.op = "LW" PROVE idEx'.a = Regs3[i.rs1]
      BY <1>3, <2>1, <2>2, <2>5, <3>5, LoadBaseRead
    <3>6. i.op \in {"ADDI", "LW", "JAL"} => idEx'.b = i.imm
      BY <2>2 DEF RegisterOps
    <3>7. i.op = "JAL" => idEx'.a = Pc3
      BY <2>2, <3>1
    <3> QED BY <1>1, <2>2, <2>5, <3>1, <3>3, <3>4, <3>5, <3>6, <3>7 DEF IdExOk, Carries
  <2> QED BY <2>4, <2>5
<1> QED BY <1>2, <1>3

-----------------------------------------------------------------------------
(***************************************************************************)
(* The invariant.                                                          *)
(***************************************************************************)
LEMMA InvInit == ASSUME LegalPrograms, Init PROVE PipelineInv
<1>1. Plus(0, 4) = 4
  BY Constants DEF Plus
<1>2. Pc0 = 4
  BY <1>1 DEF Pc0, ArchitecturalPc, Init, EmptyIfId, Bubble
<1>3. Pc1 = 4 /\ Pc2 = 4 /\ Pc3 = 4 /\ Pc4 = 4
  BY <1>2 DEF Pc1, Pc2, Pc3, Pc4, PassPc, Init, EmptyIfId, Bubble
<1>4. MemWbOk /\ ExMemOk /\ IdExOk /\ IfIdOk
  BY DEF MemWbOk, ExMemOk, IdExOk, IfIdOk, Init, EmptyIfId, Bubble
<1>5. FetchOk
  BY <1>1, <1>3 DEF FetchOk, Init
<1>6. JumpFlushed /\ FirstCycle
  BY DEF JumpFlushed, FirstCycle, Init, EmptyIfId, Bubble
<1> QED BY <1>2, <1>4, <1>5, <1>6 DEF PipelineInv, StagesOk

LEMMA InvClock == ASSUME LegalPrograms, TypeOK, PipelineInv, Clock PROVE PipelineInv'
<1>1. Runs(memWb)' = Runs(exMem) /\ Runs(exMem)' = Runs(idEx)
  BY ClockPcs DEF Runs
<1>2. Pc0' # 0
  BY ChainAdvances, ChainNonzero DEF Clock, Runs
<1>3. MemWbOk'
  BY MemWbStep
<1>4. ASSUME Runs(memWb)' PROVE ExMemOk'
  BY <1>1, <1>4, ExMemStep
<1>5. ASSUME Runs(memWb)', Runs(exMem)' PROVE IdExOk'
  BY <1>1, <1>5, IdExStep
<1>6. ASSUME Runs(memWb)', Runs(exMem)', Runs(idEx)', ~Flush' PROVE IfIdOk'
  BY <1>1, <1>6, IfIdStep
<1>7. ASSUME Runs(memWb)', Runs(exMem)', Runs(idEx)', ~Flush', Runs(ifId)', ifId'.instr.op # "JAL"
      PROVE FetchOk'
  BY <1>1, <1>7, FetchStep
<1>8. StagesOk'
  BY <1>3, <1>4, <1>5, <1>6, <1>7 DEF StagesOk
<1>9. JumpFlushed'
  <2>1. exMem'.op = idEx.op
    BY DEF Clock, NextExMem
  <2>2. Flush => idEx'.pc = 0 /\ ifId'.pc = 0
    BY ClockPcs DEF Bubble, EmptyIfId
  <2> QED BY <2>1, <2>2 DEF JumpFlushed, Flush
<1>10. FirstCycle'
  BY ClockPcs DEF FirstCycle
<1> QED BY <1>2, <1>8, <1>9, <1>10 DEF PipelineInv

LEMMA PipelineInvariant == LegalPrograms => (Spec => [](TypeOK /\ PipelineInv))
<1> SUFFICES ASSUME LegalPrograms PROVE Spec => [](TypeOK /\ PipelineInv)
  OBVIOUS
<1>1. Init => TypeOK /\ PipelineInv
  BY InitType, InvInit
<1>2. TypeOK /\ PipelineInv /\ [Clock]_vars => (TypeOK /\ PipelineInv)'
  <2>1. ASSUME TypeOK, PipelineInv, UNCHANGED vars PROVE (TypeOK /\ PipelineInv)'
    <3>1. /\ program' = program /\ pc' = pc /\ valid' = valid /\ ifId' = ifId
          /\ idEx' = idEx /\ exMem' = exMem /\ memWb' = memWb /\ regs' = regs
      BY <2>1 DEF vars
    <3>2. TypeOK'
      BY <2>1, <3>1 DEF TypeOK
    <3>3. Pc0' = Pc0
      BY <3>1 DEF Pc0, ArchitecturalPc
    <3>4. Pc1' = Pc1 /\ Regs1' = Regs1
      BY <3>1, <3>3 DEF Pc1, Regs1
    <3>5. Pc2' = Pc2 /\ Regs2' = Regs2
      BY <3>1, <3>4 DEF Pc2, Regs2
    <3>6. Pc3' = Pc3
      BY <3>1, <3>5 DEF Pc3
    <3>7. Pc4' = Pc4
      BY <3>1, <3>6 DEF Pc4
    <3>8. OperandA' = OperandA /\ OperandB' = OperandB /\ WbData' = WbData
      BY <3>1 DEF OperandA, OperandB, Forward, WbData, WbValid
    <3>9. MemWbOk' = MemWbOk /\ ExMemOk' = ExMemOk
      BY <3>1, <3>3, <3>4, <3>8 DEF MemWbOk, ExMemOk
    <3>10. IdExOk' = IdExOk /\ IfIdOk' = IfIdOk /\ FetchOk' = FetchOk
      BY <3>1, <3>5, <3>6, <3>7, <3>8 DEF IdExOk, IfIdOk, FetchOk
    <3>11. StagesOk'
      BY <2>1, <3>1, <3>9, <3>10 DEF PipelineInv, StagesOk, Runs, Flush
    <3> QED BY <2>1, <3>1, <3>2, <3>3, <3>11 DEF PipelineInv, JumpFlushed, FirstCycle
  <2> QED BY <2>1, ClockType, InvClock
<1> QED BY <1>1, <1>2, PTL DEF Spec

-----------------------------------------------------------------------------
(***************************************************************************)
(* The refinement: completing an instruction is a step of the abstract     *)
(* machine, a cycle that completes none is a stutter.                      *)
(***************************************************************************)

(* The abstract machine's step, in the words of this module.                *)
IsaStep ==
  /\ regs' = After(InstructionAt(program, Pc0), Pc0, regs)
  /\ Pc0' = Succ(program, Pc0)
  /\ program' = program

LEMMA SequentialStep == ASSUME TypeOK, IsaStep PROVE Sequential!Next
<1>1. PICK i \in Instruction : i = InstructionAt(program, Pc0)
  BY AtType DEF TypeOK
<1>2. Sequential!At(ArchitecturalPc) = i
  BY <1>1 DEF Sequential!At, InstructionAt, Pc0
<1>3. i.op # "NOP" => Sequential!Result(i) = Result(i, Pc0, regs)
  <2>1. i.op \in Ops
    BY InstructionFields
  <2> QED BY <2>1 DEF Ops, Sequential!Result, Result, Sequential!Plus, Plus, Difference,
             Sequential!Signed, Signed, Pc0
<1>4. regs' = IF i.op = "NOP" \/ i.rd = 0 THEN regs ELSE [regs EXCEPT ![i.rd] = Sequential!Result(i)]
  BY <1>1, <1>3 DEF IsaStep, After
<1>5. ArchitecturalPc' = Sequential!Plus(ArchitecturalPc, IF i.op = "JAL" THEN i.imm ELSE 4)
  BY <1>1 DEF IsaStep, Succ, Pc0, Plus, Sequential!Plus
<1> QED BY <1>2, <1>4, <1>5 DEF Sequential!Next, IsaStep

LEMMA ClockRefines ==
  ASSUME LegalPrograms, TypeOK, PipelineInv, Clock
  PROVE Sequential!Next \/ UNCHANGED Sequential!vars
<1>1. Pc0' = Pc1 /\ regs' = Regs1 /\ program' = program
  BY ChainAdvances, ClockPcs
<1>2. CASE memWb.pc = 0
  BY <1>1, <1>2 DEF Pc0, Pc1, Regs1, PassPc, PassRegs, Sequential!vars
<1>3. CASE memWb.pc # 0
  BY <1>1, <1>3, SequentialStep DEF IsaStep, Pc1, Regs1, PassPc, PassRegs
<1> QED BY <1>2, <1>3

(* With instructions in all five stages, stalled, forwarded and flushed,    *)
(* the core of pipelined_riscv_core changes its register file as if each    *)
(* instruction was completed before the next began: for every program that  *)
(* computes no load's base register just before it.                         *)
THEOREM PipelineImplementsIsa == LegalPrograms => (Spec => ImplementsIsa)
<1> SUFFICES ASSUME LegalPrograms PROVE Spec => ImplementsIsa
  OBVIOUS
<1>1. Init => Sequential!Init
  <2>1. ASSUME Init PROVE Pc0 = 4
    <3>1. Plus(0, 4) = 4
      BY Constants DEF Plus
    <3> QED BY <2>1, <3>1 DEF Pc0, ArchitecturalPc, Init, EmptyIfId, Bubble
  <2> QED BY <2>1 DEF Init, Sequential!Init, Pc0, Reg
<1>2. TypeOK /\ PipelineInv /\ [Clock]_vars => [Sequential!Next]_(Sequential!vars)
  <2>1. ASSUME UNCHANGED vars PROVE UNCHANGED Sequential!vars
    BY <2>1 DEF vars, Sequential!vars, ArchitecturalPc
  <2> QED BY <2>1, ClockRefines
<1>3. Spec => [](TypeOK /\ PipelineInv)
  BY PipelineInvariant
<1> QED BY <1>1, <1>2, <1>3, PTL DEF Spec, ImplementsIsa, Sequential!Spec
=============================================================================

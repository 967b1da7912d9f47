\* Every legal program of four instructions of the mix, and of six of the shorter one.
SPECIFICATION FairSpec
\* The clock stops when the program is done.
CHECK_DEADLOCK FALSE
CONSTANTS
  NumRegs = 3
  WordRange = 64
  Memory <- DataMemory
  Programs <- MixPrograms
  ProgramLength = 4
  LongLength = 6
  MaxPc = 28
INVARIANT
  TypeOK
PROPERTIES
  ImplementsIsa
  ProgramEnds

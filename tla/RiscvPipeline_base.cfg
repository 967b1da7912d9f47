\* A load right after the instruction that computes its base register.
SPECIFICATION Spec
CHECK_DEADLOCK FALSE
CONSTANTS
  NumRegs = 3
  WordRange = 64
  Memory <- DataMemory
  Programs <- BasePrograms
  ProgramLength = 3
  LongLength = 3
  MaxPc = 16
PROPERTY
  ImplementsIsa

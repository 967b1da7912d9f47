\* Three processes of process.c with their own times, FIFO and round robin.
SPECIFICATION SimSpec
CONSTANTS
  CPU = {1}
  Proc = {1, 2, 3}
  NoProc = 0
  Program <- IoProcesses
  TimeSlices <- FifoOr3
  CreatePeriod = 10
  SpuriousWakeups = FALSE
PROPERTY
  FifoRunsToBlock

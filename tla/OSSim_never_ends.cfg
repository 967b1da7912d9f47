\* A lost terminate: the simulation never ends.
SPECIFICATION SimFairSpec
CONSTANTS
  CPU = {1}
  Proc = {1}
  NoProc = 0
  Program <- ShortProgram
  TimeSlices = {1}
  CreatePeriod = 1
  SpuriousWakeups = FALSE
PROPERTIES
  Terminates

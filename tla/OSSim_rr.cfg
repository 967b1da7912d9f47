\* Round robin with a slice of one tick on two CPUs; every wait that a loop
\* protects may wake spuriously.
SPECIFICATION SimFairSpec
CONSTANTS
  CPU = {1, 2}
  Proc = {1, 2, 3}
  NoProc = 0
  Program <- MixedProgram
  TimeSlices = {1}
  CreatePeriod = 2
  SpuriousWakeups = TRUE
INVARIANTS
  SimTypeOK
  SchedulerRanFirst
  NeverScheduledBlocked
  NoDoubleSimulation
  IoQueueMatchesWaiting
  SliceHonoured
  ExitsWhenDone
  LockBalanced
PROPERTIES
  ImplementsScheduler
  TerminatesUnlessLost
  OnlyIdleLosesEvents

\* Two CPUs compete for four processes: a CPU can take the process another
\* was woken for.  Spurious wakeups may happen but are not fair, so a missing
\* signal would starve a process.
SPECIFICATION QueueFairSpec
CONSTANTS
  CPU = {c1, c2}
  Proc = {p1, p2, p3, p4}
  NoProc = NoProc
  SpuriousWakeups = TRUE
INVARIANTS
  TypeOK
  OnePlace
  StateMatchesPlace
  NoLostWakeup
  SimulatorAgrees
  ListIsQueue
PROPERTIES
  ReadyRuns
  ImplementsLifecycle

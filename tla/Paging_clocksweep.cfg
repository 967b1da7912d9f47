\* One process and two frames for its data, three pages.
SPECIFICATION Spec
\* A panic ends the simulation.
CHECK_DEADLOCK FALSE
CONSTANTS
  Pid = {1}
  NumFrames = 4
  NumPages = 3
  PageSize = 1
  NumBytes = 2
  Replacements = {"clocksweep"}
  RestartCurrent = FALSE
  TraceAddress = {0, 1, 2}
  MaxToken = 2
INVARIANT
  OutOfMemoryMeansProtected

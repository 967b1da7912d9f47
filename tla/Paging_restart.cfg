\* A trace may restart the process that ran last.
SPECIFICATION Spec
\* The trace may end, and a panic ends the simulation.
CHECK_DEADLOCK FALSE
CONSTANTS
  Pid = {1, 2}
  NumFrames = 4
  NumPages = 2
  PageSize = 1
  NumBytes = 2
  Replacements = {"random"}
  RestartCurrent = TRUE
  TraceAddress = {0, 1}
  MaxToken = 3
INVARIANT
  CheckValidity

\* Four frames, one for the frame table: with two processes one is left for
\* data, so nearly every access evicts; with three none is.  Three swap entries,
\* so that one in the middle of the list is freed.
SPECIFICATION SwapSpec
SYMMETRY PidSymmetry
\* The trace may end, and a panic ends the simulation.
CHECK_DEADLOCK FALSE
CONSTANTS
  p1 = p1
  p2 = p2
  p3 = p3
  Pid = {p1, p2, p3}
  NumFrames = 4
  NumPages = 2
  PageSize = 2
  NumBytes = 2
  Replacements = {"random", "clocksweep"}
  RestartCurrent = FALSE
  TraceAddress = {1, 2}
  MaxToken = 3
INVARIANTS
  TypeOK
  PtbrFollowsCurrent
  CheckValidity
  SwapOwned
  CleanPagesMatchSwap
  SwapListIntact
PROPERTY
  ImplementsFlatMemory

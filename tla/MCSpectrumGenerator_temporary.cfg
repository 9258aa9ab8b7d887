SPECIFICATION Spec
CONSTANTS
  CustomTreeSolver = FALSE
  MaxIts <- Enough
  EwsbLoops <- Loops
  QedQcdErrors <- RunningFails
  MaxRuns = 1
INVARIANTS
  TemporarySolveFlagsNothing
CHECK_DEADLOCK FALSE

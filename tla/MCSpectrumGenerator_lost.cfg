SPECIFICATION Spec
CONSTANTS
  CustomTreeSolver = TRUE
  MaxIts <- Enough
  EwsbLoops <- Loops
  QedQcdErrors <- ToFails
  MaxRuns = 1
INVARIANTS
  ExceptionReported
CHECK_DEADLOCK FALSE

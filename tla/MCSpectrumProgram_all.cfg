SPECIFICATION MCSpec
CONSTANTS
  CustomTreeSolver = TRUE
  MaxIts <- AnyMaxIt
  EwsbLoops <- TreeOrLoops
  QedQcdErrors <- RunningFails
  MaxRuns = 2
  Enabled <- TwoScaleAndSemiAnalytic
  SolverTypes <- AnyType
INVARIANTS
  CleanMeansConverged
  CleanMeansSpectrum
  ReportsLastIteration
  ExceptionReported
  EwsbVerdict
  FirstSuccessEnds
  OutputOfLastSolver
PROPERTIES
  ProgramEnds
CHECK_DEADLOCK FALSE

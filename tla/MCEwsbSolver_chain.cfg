SPECIFICATION Spec
CONSTANTS
  CustomTreeSolver = FALSE
  Points <- ThreePoints
  NoPoint = NoPoint
  Totals <- ZeroOrOne
  NaN = NaN
  Tachyonic <- Farthest
  Loops <- TreeOrLoops
  MaxIts <- NoneOrTwo
  Precision = 1
  Goal = 1
  Chains <- EveryKind
  MaxCalls = 2
INVARIANTS
  TypeOK
  SuccessSolves
  TrialsLeaveNoTrace
  SolvesAsPromised
  BestOfNumbers
PROPERTIES
  SolveReturns
CHECK_DEADLOCK FALSE

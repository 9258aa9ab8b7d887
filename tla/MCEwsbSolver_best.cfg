SPECIFICATION Spec
CONSTANTS
  CustomTreeSolver = FALSE
  Points <- ThreePoints
  NoPoint = NoPoint
  Totals <- ZeroOrOne
  NaN = NaN
  Tachyonic <- Farthest
  Loops <- TreeOrLoops
  MaxIts <- NoneOrTwo
  Precision = 1
  Goal = 1
  Chains <- DefaultChain
  MaxCalls = 1
INVARIANTS
  BestOfAll
CHECK_DEADLOCK FALSE

\* One model in any order of calls, or the tower of two models.
SPECIFICATION MCSpec
CONSTANTS
  m1 = m1
  m2 = m2
  c1 = c1
  c2 = c2
  mcUp = mcUp
  mcDown = mcDown
  Models = {m1, m2}
  NoModel = NoModel
  Constraints = {c1, c2}
  Matchings = {mcUp, mcDown}
  Dynamic = {c2}
  Scales = {0, 1, 2, 3}
  Trajectories <- TrajectoriesDef
  MaxIts <- MaxItsDef
  MinPrecision = 2
  DefaultPrecision = 3
  Goal = 1
  ScaleGoal = 1
  CompareAt = 2
  MaxSliders = 4
  MaxSolves = 2
INVARIANTS
  TypeOK
  ProblemsOfThisIteration
  ConditionsInOrder
  ImposedAtScale
  TestersInStep
  ConvergedOnTwoIterations
PROPERTIES
  GivesUpUnconverged
\* The client stops calling.
CHECK_DEADLOCK FALSE

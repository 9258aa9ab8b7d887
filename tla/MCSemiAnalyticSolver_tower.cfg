SPECIFICATION TowerSpec
CONSTANTS
  Models = {m1, m2}
  NoModel = NoModel
  Constraints = {c1}
  Matchings = {mc}
  Dynamic = {}
  m1 = m1
  m2 = m2
  c1 = c1
  mc = mc
  Scales = {0, 1, 2}
  Trajectories <- TrajectoriesDef
  MaxIts <- NoneOrTwo
  MinPrecision = 2
  DefaultPrecision = 3
  Goal = 1
  ScaleGoal = 1
  CompareAt = 1
  MaxSliders = 1
  MaxSolves = 2
INVARIANTS
  OTypeOK
  OuterAfterInner
  InnerAnew
  OuterImposedAtScale
  ProblemsOfOuterIteration
PROPERTIES
  BothConverged
  OSolveEnds
CHECK_DEADLOCK FALSE

SPECIFICATION Spec
CONSTANTS
  Models = {m1}
  NoModel = NoModel
  Constraints = {c1}
  Matchings = {}
  Dynamic = {c1}
  m1 = m1
  m2 = m2
  c1 = c1
  c2 = c2
  mcUp = mcUp
  mcDown = mcDown
  Scales = {0, 1, 2}
  Trajectories <- TrajectoriesDef
  MaxIts <- MaxItsDef
  MinPrecision = 2
  DefaultPrecision = 1
  Goal = 1
  ScaleGoal = 1
  CompareAt = 0
  MaxSliders = 1
  MaxSolves = 1
INVARIANTS
  ConvergedScaleSettled
CHECK_DEADLOCK FALSE

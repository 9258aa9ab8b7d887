SPECIFICATION Spec
CONSTANTS
  p = p
  q = q
  None = None
  Failed = Failed
  Zeros = Zeros
  WrongNumber = WrongNumber
  MaxHandles = 2
  Inputs <- TwoPoints
  Solvers <- TwoSolvers
  Outcomes <- SomeProblems
INVARIANT
  ProblemsListed

SPECIFICATION MCSpec
CONSTANTS
  MaxScale = 6
  Trajectories <- Distances
  Strays <- SomeDistances
  Loops <- TreeOrThree
  MaxSteps = 3
  MinStep = 1
  MaxDistance = 2
  InputScales <- AnyInput
  MaxIts <- AnyIterations
INVARIANTS
  BetweenScales
  PoleMassAtItsScale
  ConvergedMeetsInputs
PROPERTIES
  ImplementsRunning
  ToEnds

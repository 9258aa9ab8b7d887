-------------------------- MODULE MCTwoScaleSolver --------------------------
(***************************************************************************)
(* The instance of TwoScaleSolver for TLC.  The client either works with   *)
(* one model and one constraint, in any order of calls, or sets a tester   *)
(* of two models and builds the tower the effective field theory           *)
(* generators build, which it solves once.                                 *)
(***************************************************************************)
EXTENDS TwoScaleSolver

CONSTANTS m1, m2, c1, c2, mcUp, mcDown

MaxItsDef == {-1, 0, 2}
TrajectoriesDef == {0, 1}

\* Low scale, matching up, high scale, matching down.
EFTTower == <<ConstraintSlider(c1, m1), MatchingSlider(mcUp, m1, m2),
              ConstraintSlider(c2, m2), MatchingSlider(mcDown, m2, m1)>>

\* Both matchings are at the same scale and the low scale is below it; the client
\* with one model does not tell other scales apart.
OrderedScales == condScale[c1] < condScale[mcUp] /\ condScale[mcUp] = condScale[mcDown]
OneModelScales == condScale[c1] = 1 /\ condScale[mcUp] = 3 /\ condScale[c2] < 3

EFTTester == DOMAIN testers = {m1, m2}

OneModelCall ==
  \/ sliders = << >> /\ AddConstraint(c2, m1)
  \/ \E ms \in SUBSET {m1} : \E max \in [ms -> MaxIts] : SetTester(max)
  \/ RestartTester
  \/ \E g, p \in BOOLEAN : SetGuesserAndPrecision(g, p)
  \/ Reset
  \/ \E s \in {1, 2} : RunTo(s)
  \/ SolveNothing
  \/ Solve

\* The first calls of the client that builds the tower ...
StartTower ==
  /\ sliders = << >> /\ solves = 0 /\ scale = 0 /\ ~hasTester /\ ~hasGuesser
  /\ \/ ~hasCalc /\ SetGuesserAndPrecision(FALSE, TRUE)
     \/ hasCalc /\ SetTester([m \in {m1, m2} |-> 2])

\* ... and the others.
TowerCall ==
  \/ /\ Len(sliders) < Len(EFTTower)
     /\ LET s == EFTTower[Len(sliders) + 1]
        IN \/ s.cond \in Constraints /\ AddConstraint(s.cond, s.m1)
           \/ s.cond \in Matchings /\ AddMatching(s.cond, s.m1, s.m2)
  \/ sliders = EFTTower /\ solves = 0 /\ Solve
  \/ sliders = EFTTower /\ \E s \in Scales \ {0} : RunTo(s)

MCInit == Init /\ OrderedScales

\* In the runs of one model the other one is not touched, and scales are below 3.
MCNext ==
  \/ ~EFTTester /\ OneModelScales /\ (OneModelCall \/ SolveStep)
       /\ model'[m2] = NewModel /\ model'[m1].scale < 3 /\ condScale'[c2] < 3
  \/ StartTower
  \/ EFTTester /\ (TowerCall \/ SolveStep)

MCSpec == MCInit /\ [][MCNext]_vars /\ WF_vars(SolveStep)
=============================================================================

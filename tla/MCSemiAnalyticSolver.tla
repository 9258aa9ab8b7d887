------------------------ MODULE MCSemiAnalyticSolver ------------------------
(***************************************************************************)
(* The instance of SemiAnalyticSolver for TLC: two models, a constraint of *)
(* the first in the inner iteration and a matching of both in the outer    *)
(* one.  The client makes the set-up calls for them in any order.          *)
(***************************************************************************)
EXTENDS SemiAnalyticSolver

CONSTANTS m1, m2, c1, mc

TrajectoriesDef == {0, 1}
NoneOrTwo == {0, 2}

\* After an exception the outer tester is restarted before solve() is called again.
TestersReady ==
  oResult = "thrown" => \A m \in DOMAIN outerTesters : outerTesters[m].count = 0

\* The set-up calls come before the first solve(), the outer tester may be
\* restarted before the second one, and what converged is run to a scale.
SetUpCall ==
  \/ AddInner(ConstraintSlider(c1, m1)) \/ AddOuter(MatchingSlider(mc, m1, m2))
  \/ \E max \in MaxIts : SetInnerTester([m \in {m1} |-> max])
  \/ SetOuterTester([m \in {m1, m2} |-> 2])
  \/ \E g \in BOOLEAN : OSetGuesserAndPrecision(g, TRUE)

LaterCall ==
  \/ RestartOuterTester
  \/ oSolves = MaxSolves /\ ((oResult = "converged" /\ ORunTo(1)) \/ OReset)

TowerNext ==
  \/ oSolves = 0 /\ SetUpCall
  \/ oSolves > 0 /\ LaterCall
  \/ OSolveNothing \/ (TestersReady /\ OSolve) \/ OSolveStep

TowerSpec == OInit /\ [][TowerNext]_allVars /\ WF_allVars(OSolveStep)
=============================================================================

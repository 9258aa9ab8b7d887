------------------------- MODULE ConvergenceTester -------------------------
(***************************************************************************)
(* The convergence test of the RG solvers (Convergence_tester_DRbar and    *)
(* Composite_convergence_tester).  A tester keeps a copy of the model of   *)
(* the previous iteration and compares the present model with it.          *)
(*                                                                         *)
(* Data.  Renormalisation scales are points of a logarithmic grid, so that *)
(* a relative scale difference of the code is a difference here; 0 is the  *)
(* scale of a model that was never run.  A running parameter is given by   *)
(* its RG trajectory: running moves along the trajectory, a boundary       *)
(* condition moves the model to another one.  Point(t, s) is the value of  *)
(* the parameter on trajectory t at scale s (a beta function of one).      *)
(***************************************************************************)
EXTENDS Integers, Sequences, FiniteSetsExt

CONSTANTS
  Goal,        \* accuracy_goal: parameter differences below it are accepted
  ScaleGoal,   \* accuracy_goal * 16 Pi^2, for the scale difference
  CompareAt    \* the scale a scale_getter returns, 0 without scale_getter

Abs(x) == IF x < 0 THEN -x ELSE x

Point(traj, scale) == traj + scale

\* The part of a model a tester copies.
Snapshot(m) == [scale |-> m.scale, traj |-> m.traj]
Blank == [scale |-> 0, traj |-> 0]

\* A tester under construction and after restart().
NewTester(max) == [count |-> 0, max |-> max, last |-> Blank]
Restarted(t) == [t EXCEPT !.count = 0, !.last = Blank]

\* run_to_scale(): both copies are run to the comparison scale, if any.
AtComparisonScale(c) == IF CompareAt = 0 THEN c ELSE [c EXCEPT !.scale = CompareAt]

\* rel_scale_difference() < accuracy_goal * 16 Pi^2.  The difference is signed.
ScaleAccepted(cur, last) == last.scale # 0 /\ cur.scale - last.scale < ScaleGoal

\* max_rel_diff() < accuracy_goal.
ParametersAccepted(cur, last) ==
  Abs(Point(cur.traj, cur.scale) - Point(last.traj, last.scale)) < Goal

\* A bug: the first call compares with the blank copy.
GoalReachedAtOnce(t, m) ==
  ParametersAccepted(AtComparisonScale(Snapshot(m)), AtComparisonScale(t.last))

\* The answer of accuracy_goal_reached() for tester t and model m ...
GoalReached(t, m) ==
  LET cur  == AtComparisonScale(Snapshot(m))
      last == AtComparisonScale(t.last)
  IN /\ t.count > 0
     /\ ScaleAccepted(cur, last)
     /\ ParametersAccepted(cur, last)

\* ... and the tester after the call.
Tested(t, m) ==
  [t EXCEPT !.count = @ + 1,
            !.last = IF t.count > 0 THEN AtComparisonScale(Snapshot(m))
                                    ELSE Snapshot(m)]

-----------------------------------------------------------------------------
(* Composite_convergence_tester: ts maps each tested model to its tester,   *)
(* ms maps models to their states.  Every tester is asked, in every case.  *)

CompositeGoalReached(ts, ms) == \A m \in DOMAIN ts : GoalReached(ts[m], ms[m])

\* A bug: the testers after one that is not satisfied are not asked.
CompositeTestedUntilFalse(ts, ms) ==
  IF CompositeGoalReached(ts, ms) \/ DOMAIN ts = {}
  THEN [m \in DOMAIN ts |-> Tested(ts[m], ms[m])]
  ELSE LET first == CHOOSE m \in DOMAIN ts : ~GoalReached(ts[m], ms[m])
       IN [ts EXCEPT ![first] = Tested(ts[first], ms[first])]

CompositeTested(ts, ms) == [m \in DOMAIN ts |-> Tested(ts[m], ms[m])]

\* The testers when the one of model k throws, a copy of its being at scale q
\* on the way to the comparison scale: those in asked came before it.
CompositeThrown(ts, ms, asked, k, q) ==
  [m \in DOMAIN ts |-> CASE m \in asked -> Tested(ts[m], ms[m])
                        [] m = k -> [ts[m] EXCEPT !.last.scale = q]
                        [] OTHER -> ts[m]]

CompositeRestarted(ts) == [m \in DOMAIN ts |-> Restarted(ts[m])]
CompositeMaxIterations(ts) ==
  IF DOMAIN ts = {} THEN 0 ELSE Max({ts[m].max : m \in DOMAIN ts})
=============================================================================

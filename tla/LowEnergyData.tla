---------------------------- MODULE LowEnergyData ----------------------------
(***************************************************************************)
(* QedQcd::to(): the parameters of the Standard Model without the top      *)
(* quark are given at different scales: the couplings at MZ, mb and mc at  *)
(* themselves, the light quark and lepton masses at 2 GeV.  to() runs from *)
(* one of these scales to the next, imposes each input at its scale, and   *)
(* repeats this until two rounds end with the same parameters.             *)
(*                                                                         *)
(* A trajectory is given by the distance of each parameter from its input  *)
(* at the scale of the input, in units of the precision goal.  Imposing an *)
(* input removes its distance.  The couplings enter the beta functions of  *)
(* the masses, and the masses those of the couplings by the thresholds:    *)
(* each moves the other by at most half the distance removed.              *)
(***************************************************************************)
EXTENDS BetaFunction

CONSTANTS
  MaxDistance,  \* bound: the largest distance
  InputScales,  \* the scales of the inputs
  MaxIts        \* values of max_iterations

Parameters == {"alpha", "mb", "mc", "light"}
Distances == [Parameters -> 0..MaxDistance]

ASSUME LowEnergyAssumption ==
  /\ MaxDistance \in Nat /\ MaxIts \subseteq Int
  /\ Trajectories = Distances
  /\ InputScales \subseteq [Parameters -> Scales]

VARIABLES
  input,      \* the scale of each input
  todo,       \* where to() is: "none", a parameter, or one of "target",
              \* "alphaAgain" and "targetAgain"
  target,     \* arguments of to()
  maxIt,
  it,
  old,        \* qedqcd_old: the parameters, as scale and trajectory
  converged,
  result      \* how the last call ended

call == <<target, maxIt, old>>
qedqcdVars == <<input, todo, call, it, converged, result>>
allVars == <<rkVars, qedqcdVars>>

Now == <<scale, traj>>

QInit ==
  /\ RkInit
  /\ input \in InputScales
  /\ todo = "none" /\ target = 0 /\ maxIt = 0 /\ it = 0
  /\ old = Now /\ converged = FALSE
  /\ result = "none"

Round(done, n, max) == IF ~done /\ n < max THEN "alpha" ELSE "alphaAgain"

\* How to() is left; what is local to it is gone.
End(how) ==
  /\ todo' = "none" /\ result' = how
  /\ it' = 0 /\ converged' = FALSE /\ old' = <<scale', traj'>>
  /\ UNCHANGED <<input, target, maxIt>>

\* to(scale, precision_goal, max_iterations)
To(t, max) ==
  /\ todo = "none" /\ rk = "idle"
  /\ target' = t /\ maxIt' = max /\ it' = 0 /\ converged' = FALSE
  /\ old' = Now
  /\ todo' = Round(FALSE, 0, max)
  /\ result' = "running"
  /\ UNCHANGED <<rkVars, input>>

ScaleOf(what) ==
  IF what \in Parameters THEN input[what]
  ELSE IF what = "alphaAgain" THEN input["alpha"] ELSE target

\* runto_safe(): to the scale of what is to be done next ...
StartRunning ==
  /\ todo # "none" /\ RunTo(ScaleOf(todo))
  /\ UNCHANGED qedqcdVars

RunningOn == RkStep /\ UNCHANGED qedqcdVars

\* ... and any exception is NonPerturbativeRunningQedQcdError.
RunningFailed ==
  /\ todo # "none" /\ rk = "thrown" /\ Return
  /\ End("nonPerturbative")

Arrived(what) == todo = what /\ rk = "done"

\* What p enters the beta functions of.
Moves(p) == IF p = "alpha" THEN Parameters \ {p} ELSE {"alpha"}

\* The trajectories that pass where the parameters are after p was set.
Imposed(p) ==
  {t \in Distances :
     /\ t[p] = 0
     /\ \A o \in Parameters \ {p} :
          IF o \in Moves(p)
          THEN t[o] - traj[o] \in -(traj[p] \div 2)..(traj[p] \div 2)
          ELSE t[o] = traj[o]}

Impose(p, next) ==
  /\ Leave /\ traj' \in Imposed(p)
  /\ todo' = next
  /\ UNCHANGED <<input, call, it, converged, result>>

SetAlpha == Arrived("alpha") /\ Impose("alpha", "mb")
SetMc == Arrived("mc") /\ Impose("mc", "light")
SetLight == Arrived("light") /\ Impose("light", "target")

\* setMass(mBottom) makes mb(mb) the scale extractPoleMb() insists on.
SetMb ==
  /\ Arrived("mb")
  /\ Leave /\ traj' \in Imposed("mb")
  /\ IF scale = input["mb"]
     THEN todo' = "mc" /\ UNCHANGED <<input, call, it, converged, result>>
     ELSE End("setupError")

\* MaxRelDiff(qedqcd_old, qedqcd_new) < precision_goal: the same parameters.
\* Those of different scales differ, unless nothing runs.
Same == old[2] = traj /\ (loops = 0 \/ old[1] = scale)

TestConvergence ==
  /\ Arrived("target") /\ Return
  /\ converged' = Same
  /\ old' = Now
  /\ it' = it + 1
  /\ todo' = Round(Same, it + 1, maxIt)
  /\ UNCHANGED <<input, target, maxIt, result>>

SetAlphaAgain == Arrived("alphaAgain") /\ Impose("alpha", "targetAgain")

\* A bug: an iteration that did not converge ends like one that did.
EndSilently == Arrived("targetAgain") /\ Return /\ End("returned")

EndTo ==
  /\ Arrived("targetAgain") /\ Return
  /\ End(IF ~converged /\ maxIt > 0 THEN "noConvergence" ELSE "returned")

ToStep ==
  \/ StartRunning \/ RunningOn \/ RunningFailed
  \/ SetAlpha \/ SetMb \/ SetMc \/ SetLight \/ TestConvergence
  \/ SetAlphaAgain \/ EndTo

QNext == ToStep \/ \E t \in Scales, max \in MaxIts : To(t, max)

\* The statements of to() are executed one after the other.
QSpec == QInit /\ [][QNext]_allVars /\ WF_allVars(ToStep)
-----------------------------------------------------------------------------
(* Properties.                                                             *)

\* extractPoleMb() is called at mb(mb), to the last digit, however the running
\* that led there went: its SetupError is never thrown.
PoleMassAtItsScale == result # "setupError"

\* "This function can be called multiple times, leading to the same result": a
\* call that made iterations and returned has met every input at its scale, and
\* the parameters are those at the scale asked for, wherever it started.
ConvergedMeetsInputs ==
  todo = "none" /\ result = "returned" /\ maxIt > 0 =>
    scale = target /\ at = target /\ \A p \in Parameters : traj[p] = 0

\* to() ends, whatever the steps of the integrator do.
ToEnds == todo # "none" ~> todo = "none"
=============================================================================

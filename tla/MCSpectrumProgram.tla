-------------------------- MODULE MCSpectrumProgram --------------------------
(***************************************************************************)
(* SpectrumProgram for TLC: two solvers are enabled; all of them, one of   *)
(* them or an unknown one is asked for.  At the stage "reuse" no program   *)
(* runs: a client of the generator calls run() more than once on it.       *)
(***************************************************************************)
EXTENDS SpectrumProgram

TwoScaleAndSemiAnalytic == <<1, 2>>
AnyType == 0..3
\* A negative number, no iteration, too few to compare, enough to compare.
AnyMaxIt == {-1, 0, 1, 2}
TreeOrLoops == {0, 1}
RunningFails == {"NonPerturbativeRunningQedQcd"}

\* The client's settings: no iteration or enough of them, the rest is fixed.
ReuseSettings ==
  {s \in Settings : s.maxIt \in {0, 2} /\ s.ewsbLoops = 1 /\ s.output /\ ~s.force}

ReuseInit ==
  /\ Init /\ settings \in ReuseSettings
  /\ stage = "reuse" /\ solverType = 0 /\ readable = TRUE
  /\ index = 0 /\ exitCode = 0
  /\ blocks = NoBlocks /\ file = NoBlocks /\ rows = << >>
  /\ codes = << >>

ReuseStep ==
  /\ stage = "reuse"
  /\ RunStep \/ \E s \in ReuseSettings : Run(s)
  /\ UNCHANGED programVars

MCInit == PInit \/ ReuseInit
MCNext == PStep \/ ReuseStep
MCSpec == MCInit /\ [][MCNext]_<<vars, programVars>> /\ WF_<<vars, programVars>>(PStep)
==============================================================================

------------------------- MODULE SemiAnalyticSolver -------------------------
(***************************************************************************)
(* RGFlow<Semi_analytic>: the semi-analytic solver.  Each of its (outer)   *)
(* iterations solves an inner boundary value problem by a two-scale solver *)
(* and then imposes the outer conditions.                                  *)
(*                                                                         *)
(* The variables of TwoScaleSolver are those of the inner solver, a local  *)
(* variable of solve(); testers is the inner convergence tester, which the *)
(* client owns; models and conditions are shared by both solvers.  What    *)
(* the outer solver adds begins with o.                                    *)
(***************************************************************************)
EXTENDS TwoScaleSolver

VARIABLES
  inner, outer,  \* inner_sliders, outer_sliders
  hasInner,      \* inner_convergence_tester # nullptr
  outerTesters,  \* the outer convergence tester: tested models -> testers
  hasOuter,      \* outer_convergence_tester # nullptr
  oGuesser,      \* initial_guesser # nullptr
  oCalc,         \* running_precision_calculator # nullptr
  oPrecision, oIteration, oScale, oPc, oCur, oMaxIt, oReached,
  noConvInner,   \* local no_conv_inner_iteration of solve()
  oResult, oSolves,
  oGhost         \* like ghost, and how the inner solver ended in the iteration

oConfig == <<inner, outer, hasInner, outerTesters, hasOuter, oGuesser, oCalc>>
oLocals == <<oCur, oMaxIt, oReached, noConvInner>>
oVars == <<oConfig, oPrecision, oIteration, oScale, oPc, oLocals, oResult,
           oSolves, oGhost>>
innerSolver == <<sliders, hasTester, hasGuesser, hasCalc, precision, iteration,
                 scale, pc, locals, result, solves, ghost>>
shared == <<testers, model, condScale>>
allVars == <<vars, oVars>>

NoOuterGhost == [imposed |-> << >>, flagged |-> {}, ends |-> << >>,
                 fresh |-> FALSE, inner |-> "none"]

Tower == inner \o outer
ModelsOf(tower) == UNION {SliderModels(tower[i]) : i \in DOMAIN tower}

OInit ==
  /\ Init
  /\ inner = << >> /\ outer = << >>
  /\ hasInner = FALSE /\ outerTesters = << >> /\ hasOuter = FALSE
  /\ oGuesser = FALSE /\ oCalc = FALSE
  /\ oPrecision = DefaultPrecision /\ oIteration = 0 /\ oScale = 0
  /\ oPc = "idle" /\ oCur = 0 /\ oMaxIt = 0 /\ oReached = FALSE
  /\ noConvInner = FALSE
  /\ oResult = "none" /\ oSolves = 0 /\ oGhost = NoOuterGhost

-----------------------------------------------------------------------------
(* The client's calls.                                                     *)

OIdle == oPc = "idle"

\* Sliders of a condition: one model, or two different ones.
Sliders == {s \in SliderType : s.cond \in Matchings => s.m1 # s.m2}

AddInner(s) ==
  /\ OIdle /\ Len(inner) < MaxSliders /\ Unmatched(Tower, s)
  /\ inner' = Append(inner, s)
  /\ UNCHANGED <<vars, outer, hasInner, outerTesters, hasOuter, oGuesser, oCalc,
                 oPrecision, oIteration, oScale, oPc, oLocals, oResult, oSolves, oGhost>>

AddOuter(s) ==
  /\ OIdle /\ Len(outer) < MaxSliders /\ Unmatched(Tower, s)
  /\ outer' = Append(outer, s)
  /\ UNCHANGED <<vars, inner, hasInner, outerTesters, hasOuter, oGuesser, oCalc,
                 oPrecision, oIteration, oScale, oPc, oLocals, oResult, oSolves, oGhost>>

SetInnerTester(max) ==
  /\ OIdle
  /\ hasInner' = TRUE
  /\ testers' = [m \in DOMAIN max |-> Tester!NewTester(max[m])]
  /\ UNCHANGED <<innerSolver, model, condScale, inner, outer, outerTesters, hasOuter,
                 oGuesser, oCalc, oPrecision, oIteration, oScale, oPc, oLocals,
                 oResult, oSolves, oGhost>>

SetOuterTester(max) ==
  /\ OIdle
  /\ hasOuter' = TRUE
  /\ outerTesters' = [m \in DOMAIN max |-> Tester!NewTester(max[m])]
  /\ UNCHANGED <<vars, inner, outer, hasInner, oGuesser, oCalc, oPrecision,
                 oIteration, oScale, oPc, oLocals, oResult, oSolves, oGhost>>

\* restart() of the outer tester; the solver itself never calls it.
RestartOuterTester ==
  /\ OIdle /\ hasOuter
  /\ outerTesters' = Tester!CompositeRestarted(outerTesters)
  /\ UNCHANGED <<vars, inner, outer, hasInner, hasOuter, oGuesser, oCalc, oPrecision,
                 oIteration, oScale, oPc, oLocals, oResult, oSolves, oGhost>>

OSetGuesserAndPrecision(g, p) ==
  /\ OIdle
  /\ oGuesser' = g /\ oCalc' = p
  /\ UNCHANGED <<vars, inner, outer, hasInner, outerTesters, hasOuter, oPrecision,
                 oIteration, oScale, oPc, oLocals, oResult, oSolves, oGhost>>

OReset ==
  /\ OIdle
  /\ inner' = << >> /\ outer' = << >>
  /\ hasInner' = FALSE /\ hasOuter' = FALSE /\ oGuesser' = FALSE /\ oCalc' = FALSE
  /\ outerTesters' = << >> /\ testers' = << >>
  /\ oPrecision' = DefaultPrecision /\ oIteration' = 0 /\ oScale' = 0
  /\ UNCHANGED <<innerSolver, model, condScale, oPc, oLocals, oResult, oSolves, oGhost>>

\* get_model(): std::merge() of the sorted inner and outer sliders puts the inner
\* ones first among those at the same scale.
OModelsAt(s) ==
  LET lowest == SlidersAt(Tower, s)
      first == lowest \cap DOMAIN inner
  IN IF lowest = {} THEN {NoModel}
     ELSE {Tower[i].m1 : i \in IF first # {} THEN first ELSE lowest}

ORunTo(s) ==
  /\ OIdle
  /\ oScale' = s
  /\ \E m \in OModelsAt(s) :
       \/ m = NoModel /\ UNCHANGED <<model, oResult>>
       \/ /\ m # NoModel
          /\ model' = [model EXCEPT ![m].scale = s]
          /\ UNCHANGED oResult
       \/ /\ m # NoModel
          /\ \E t \in Scales \ {0} : model' = [model EXCEPT ![m].scale = t]
          /\ oResult' = "thrown"
  /\ UNCHANGED <<innerSolver, testers, condScale, oConfig, oPrecision, oIteration,
                 oPc, oLocals, oSolves, oGhost>>

-----------------------------------------------------------------------------
(* solve()                                                                 *)

\* check_setup() and the early return.
OSolveNothing ==
  /\ OIdle /\ oSolves < MaxSolves
  /\ \/ ~(hasInner /\ hasOuter) /\ oResult' = "setupError"
     \/ /\ hasInner /\ hasOuter
        /\ Tower = << >> \/ Tester!CompositeMaxIterations(outerTesters) = 0
        /\ oResult' = "returned"
  /\ oSolves' = oSolves + 1
  /\ oGhost' = NoOuterGhost
  /\ UNCHANGED <<vars, oConfig, oPrecision, oIteration, oScale, oPc, oLocals>>

OSolve ==
  /\ OIdle /\ oSolves < MaxSolves
  /\ hasInner /\ hasOuter
  /\ Tower # << >> /\ Tester!CompositeMaxIterations(outerTesters) # 0
  /\ InitialGuess(oGuesser)
  /\ \/ /\ oMaxIt' = Tester!CompositeMaxIterations(outerTesters)
        /\ oIteration' = 0 /\ oReached' = FALSE /\ noConvInner' = FALSE /\ oCur' = 0
        /\ oPc' = "iterate" /\ oResult' = "running"
     \/ /\ oGuesser             \* the guesser throws
        /\ oResult' = "thrown"
        /\ UNCHANGED <<oIteration, oLocals, oPc>>
  /\ oSolves' = oSolves + 1
  /\ oGhost' = [NoOuterGhost EXCEPT
                  !.fresh = \A m \in DOMAIN outerTesters : outerTesters[m].count = 0]
  /\ UNCHANGED <<innerSolver, testers, condScale, oConfig, oPrecision, oScale>>

OMayIterate == oIteration < oMaxIt /\ ~oReached

\* A bug: only the models of the inner sliders are cleared.
ClearInnerProblems ==
  [m \in Models |-> IF m \in ModelsOf(inner) THEN [model[m] EXCEPT !.problem = FALSE]
                    ELSE model[m]]

\* clear_problems() for the outer sliders, prepare_inner_iteration() for the inner.
OClearProblems ==
  [m \in Models |-> IF m \in ModelsOf(Tower) THEN [model[m] EXCEPT !.problem = FALSE]
                    ELSE model[m]]

\* A bug: the inner tester goes on where it stopped.
PrepareButRestart ==
  /\ sliders' = inner /\ hasTester' = TRUE /\ hasGuesser' = FALSE /\ hasCalc' = oCalc
  /\ precision' = DefaultPrecision /\ iteration' = 0 /\ scale' = 0
  /\ UNCHANGED testers
  /\ solves' = 0 /\ result' = "none" /\ ghost' = NoGhost
  /\ UNCHANGED <<pc, locals>>

\* prepare_inner_iteration(): the tester is restarted and the solver set up
\* anew, without an initial guesser.
Prepare ==
  /\ sliders' = inner /\ hasTester' = TRUE /\ hasGuesser' = FALSE /\ hasCalc' = oCalc
  /\ precision' = DefaultPrecision /\ iteration' = 0 /\ scale' = 0
  /\ testers' = Tester!CompositeRestarted(testers)
  /\ solves' = 0 /\ result' = "none" /\ ghost' = NoGhost
  /\ UNCHANGED <<pc, locals>>

\* Loop head, up to the call of the inner solver.
OBeginIteration ==
  /\ oPc = "iterate" /\ OMayIterate
  /\ oPrecision' = IF oCalc THEN GetPrecision(oIteration) ELSE oPrecision
  /\ model' = OClearProblems
  /\ noConvInner' = FALSE
  /\ Prepare
  /\ oGhost' = [oGhost EXCEPT !.imposed = << >>, !.flagged = {}, !.inner = "none"]
  /\ oCur' = 0 /\ oPc' = "inner"
  /\ UNCHANGED <<condScale, oConfig, oIteration, oScale, oMaxIt, oReached, oResult,
                 oSolves>>

\* inner_solver.solve()
InnerStep ==
  /\ oPc = "inner"
  /\ \/ result = "none" /\ (SolveNothing \/ Solve)
     \/ SolveStep
  /\ UNCHANGED oVars

\* solve() is left and the inner solver is gone.
Gone ==
  /\ sliders' = << >> /\ hasTester' = FALSE /\ hasGuesser' = FALSE /\ hasCalc' = FALSE
  /\ precision' = DefaultPrecision /\ iteration' = 0 /\ scale' = 0
  /\ pc' = "idle" /\ cur' = 0 /\ maxIt' = 0 /\ reached' = FALSE
  /\ result' = "none" /\ solves' = 0 /\ ghost' = NoGhost

OLeave ==
  /\ oPc' = "idle" /\ oResult' = "thrown"
  /\ Gone
  /\ UNCHANGED <<testers, inner, outer, hasInner, hasOuter, oGuesser, oCalc,
                 oPrecision, oIteration, oScale, oLocals, oSolves>>

OAfterSlider(i) == IF i = Len(outer) THEN "test" ELSE "run1"

\* A bug: every error of the inner iteration is taken for no convergence.
InnerReturnsAny ==
  /\ oPc = "inner" /\ pc = "idle" /\ result # "none"
  /\ noConvInner' = (result \in {"noConvergence", "thrown"})
  /\ oGhost' = [oGhost EXCEPT !.inner = result]
  /\ oCur' = 1 /\ oPc' = OAfterSlider(0)
  /\ UNCHANGED <<vars, oConfig, oPrecision, oIteration, oScale, oMaxIt, oReached,
                 oResult, oSolves>>

\* The inner solver returns: no convergence is noted, every other error leaves.
\* Only solvers throw NoConvergenceError, and no condition of a tower calls one.
InnerReturns ==
  /\ oPc = "inner" /\ pc = "idle" /\ result # "none"
  /\ oGhost' = [oGhost EXCEPT !.inner = result]
  /\ \/ /\ result # "thrown"
        /\ noConvInner' = (result = "noConvergence")
        /\ oCur' = 1 /\ oPc' = OAfterSlider(0)
        /\ UNCHANGED <<vars, oConfig, oPrecision, oIteration, oScale, oMaxIt,
                       oReached, oResult, oSolves>>
     \/ result = "thrown" /\ OLeave /\ UNCHANGED <<model, condScale, outerTesters>>

\* A bug: the running precision is that of the inner iteration.
OImprecise(s) == model

OPrecise(s) == [m \in Models |-> IF m \in SliderModels(s)
                                 THEN [model[m] EXCEPT !.precision = oPrecision]
                                 ELSE model[m]]

ORunModel(m, next) ==
  LET s == outer[oCur] IN
  /\ \/ /\ model' = [OPrecise(s) EXCEPT ![m].scale = condScale[s.cond]]
        /\ oPc' = next
        /\ UNCHANGED <<innerSolver, testers, oConfig, oPrecision, oIteration, oScale,
                       oLocals, oResult, oSolves>>
     \/ /\ \E q \in Scales \ {0} : model' = [OPrecise(s) EXCEPT ![m].scale = q]
        /\ OLeave /\ UNCHANGED outerTesters
  /\ UNCHANGED <<condScale, oGhost>>

ORunFirst ==
  /\ oPc = "run1"
  /\ ORunModel(outer[oCur].m1,
               IF outer[oCur].cond \in Matchings THEN "run2" ELSE "impose")

ORunSecond == oPc = "run2" /\ ORunModel(outer[oCur].m2, "impose")

OImpose ==
  /\ oPc = "impose"
  /\ LET s == outer[oCur]
     IN \E t \in Trajectories, p \in BOOLEAN, q \in NewScales(s.cond) :
          /\ model' = [model EXCEPT ![s.m2].traj = t, ![s.m2].problem = @ \/ p]
          /\ condScale' = [condScale EXCEPT ![s.cond] = q]
          /\ oGhost' = [oGhost EXCEPT !.imposed = Append(@, oCur),
                          !.flagged = IF p THEN @ \cup {s.m2} ELSE @]
          /\ \/ /\ oCur' = oCur + 1
                /\ oPc' = OAfterSlider(oCur)
                /\ UNCHANGED <<innerSolver, testers, oConfig, oPrecision, oIteration,
                               oScale, oMaxIt, oReached, noConvInner, oResult, oSolves>>
             \/ OLeave /\ UNCHANGED outerTesters

OTestAccuracy ==
  /\ oPc = "test"
  /\ \/ /\ oReached' = Tester!CompositeGoalReached(outerTesters, model)
        /\ outerTesters' = Tester!CompositeTested(outerTesters, model)
        /\ oIteration' = oIteration + 1
        /\ oGhost' = [oGhost EXCEPT !.ends = Append(@, Ends)]
        /\ oPc' = "iterate"
        /\ UNCHANGED <<vars, inner, outer, hasInner, hasOuter, oGuesser, oCalc,
                       oPrecision, oScale, oCur, oMaxIt, noConvInner, oResult, oSolves>>
     \/ /\ outerTesters' \in ThrownTesters(outerTesters)
        /\ OLeave
        /\ UNCHANGED <<model, condScale, oGhost>>

\* A bug: whether the inner iteration converged is not asked.
OutcomeOfOuter(accuracyReached, noConv) ==
  IF accuracyReached THEN "converged" ELSE "noConvergence"

\* if (!accuracy_reached || no_conv_inner_iteration) throw NoConvergenceError
Outcome(accuracyReached, noConv) ==
  IF accuracyReached /\ ~noConv THEN "converged" ELSE "noConvergence"

OEndSolve ==
  /\ oPc = "iterate" /\ ~OMayIterate
  /\ oResult' = Outcome(oReached, noConvInner)
  /\ oPc' = "idle"
  /\ Gone
  /\ UNCHANGED <<shared, oConfig, oPrecision, oIteration, oScale, oLocals, oSolves, oGhost>>

-----------------------------------------------------------------------------
OSolveStep ==
  \/ OBeginIteration \/ InnerStep \/ InnerReturns
  \/ ORunFirst \/ ORunSecond \/ OImpose \/ OTestAccuracy \/ OEndSolve

OClient ==
  \/ \E s \in Sliders : AddInner(s) \/ AddOuter(s)
  \/ \E ms \in SUBSET Models : \E max \in [ms -> MaxIts] : SetInnerTester(max) \/ SetOuterTester(max)
  \/ RestartOuterTester
  \/ \E g, p \in BOOLEAN : OSetGuesserAndPrecision(g, p)
  \/ OReset
  \/ \E s \in Scales \ {0} : ORunTo(s)
  \/ OSolveNothing \/ OSolve

ONext == OClient \/ OSolveStep
OSpec == OInit /\ [][ONext]_allVars /\ WF_allVars(OSolveStep)

-----------------------------------------------------------------------------
(* Properties.                                                             *)

InOuterSlider == oPc \in {"run1", "run2", "impose"}

\* Types; the inner solver lives only within solve().
OTypeOK ==
  /\ TypeOK
  /\ inner \in Seq(SliderType) /\ outer \in Seq(SliderType)
  /\ \A m \in DOMAIN outerTesters : m \in Models /\ outerTesters[m] \in TesterType
  /\ {hasInner, hasOuter, oGuesser, oCalc, oReached, noConvInner} \subseteq BOOLEAN
  /\ oPrecision \in Precisions /\ oIteration \in Nat /\ oScale \in Scales
  /\ oPc \in {"idle", "iterate", "inner", "run1", "run2", "impose", "test"}
  /\ oPc # "inner" => pc = "idle"
  /\ oPc = "idle" => sliders = << >> /\ result = "none"
  /\ InOuterSlider => oCur \in DOMAIN outer
  /\ oGhost.flagged \subseteq Models /\ oGhost.imposed \in Seq(Nat)

\* The outer conditions follow a complete inner solution: they are imposed once
\* each, in order, and only after the inner solver has converged, given up or
\* had nothing to do.
OuterAfterInner ==
  /\ InOuterSlider \/ oPc = "test" =>
       oGhost.inner \in {"converged", "noConvergence", "returned"}
  /\ InOuterSlider => oGhost.imposed = [i \in 1..(oCur - 1) |-> i]
  /\ oPc = "test" => oGhost.imposed = [i \in DOMAIN outer |-> i]

\* An inner solution is found anew in each outer iteration: it imposes the
\* inner tower, and if it converged, then on two iterations of its own.
InnerAnew ==
  oPc = "inner" =>
    /\ sliders = inner
    /\ result = "converged" =>
         LET n == Len(ghost.ends) IN
           /\ n >= 2
           /\ \A m \in DOMAIN testers : SameParameters(ghost.ends[n][m], ghost.ends[n - 1][m])

\* The outer conditions see models at their scale, run there with the precision
\* of the outer iteration, whatever precision the inner iteration left behind.
OuterImposedAtScale ==
  oPc = "impose" =>
    \A m \in SliderModels(outer[oCur]) :
      /\ model[m].scale = condScale[outer[oCur].cond]
      /\ model[m].precision = oPrecision

\* The problems of the models are those of the last inner iteration and of the
\* outer conditions that followed it.
ProblemsOfOuterIteration ==
  InOuterSlider \/ oPc = "test" \/ (oPc = "iterate" /\ oIteration > 0) =>
    \A m \in ModelsOf(Tower) :
      model[m].problem <=> m \in ghost.flagged \cup oGhost.flagged

\* solve() returns normally only when both converged: the inner solution of the
\* last iteration did not give up and, with a fresh tester, the models after
\* the last two outer iterations of this solve() agree.
BothConverged ==
  [][oPc = "iterate" /\ oPc' = "idle" /\ oResult' = "converged" =>
       /\ oGhost.inner \in {"converged", "returned"}
       /\ oGhost.fresh =>
            LET n == Len(oGhost.ends) IN
              /\ n >= 2
              /\ \A m \in DOMAIN outerTesters :
                   SameParameters(oGhost.ends[n][m], oGhost.ends[n - 1][m])]_allVars

\* solve() ends.
OSolveEnds == oPc # "idle" ~> oPc = "idle"
=============================================================================

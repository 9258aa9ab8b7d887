--------------------------- MODULE TwoScaleSolver ---------------------------
(***************************************************************************)
(* RGFlow<Two_scale>: the solver of the boundary value problem.  A client  *)
(* builds a tower of sliders (constraints on one model, matchings of two), *)
(* sets a convergence tester and calls solve(), which runs the sliders in  *)
(* the order they were added until two successive iterations agree or the  *)
(* maximum number of iterations is reached.                                *)
(*                                                                         *)
(* solve() is split where an exception may leave it: every RG running and  *)
(* every boundary condition may throw and leaves the models as they are.   *)
(* ghost holds what no variable of the program keeps: the slider positions *)
(* imposed and the problems raised in the present iteration, the ends of   *)
(* the iterations of this solve(), and how the tester was when it started. *)
(***************************************************************************)
EXTENDS Integers, Sequences, FiniteSets

CONSTANTS
  Models, NoModel,  \* the models of the tower; the null pointer
  Constraints,      \* single-scale constraints
  Matchings,        \* single-scale matching conditions
  Dynamic,          \* conditions that recompute their scale when imposed
  Scales,           \* renormalisation scales (see ConvergenceTester)
  Trajectories,     \* RG trajectories of the running parameters
  MaxIts,           \* values a tester's max_iterations() may have
  MinPrecision,     \* the finest level of running precision
  DefaultPrecision, \* the level of the precision a new solver has
  Goal, ScaleGoal, CompareAt,
  MaxSliders,       \* bound: length of the tower
  MaxSolves         \* bound: calls of solve()

ASSUME SolverAssumption ==
  /\ NoModel \notin Models
  /\ Constraints \cap Matchings = {} /\ Dynamic \subseteq Constraints \cup Matchings
  /\ Scales \subseteq Nat /\ 0 \in Scales /\ CompareAt \in Scales
  /\ Trajectories \subseteq Int /\ 0 \in Trajectories
  /\ MaxIts \subseteq Int /\ IsFiniteSet(MaxIts)
  /\ Goal \in Nat /\ ScaleGoal \in Nat
  /\ MinPrecision \in Nat \ {0} /\ DefaultPrecision \in Nat
  /\ MaxSliders \in Nat /\ MaxSolves \in Nat

Tester == INSTANCE ConvergenceTester

VARIABLES
  sliders,    \* sequence of sliders
  testers,    \* the convergence tester: tested models -> testers
  hasTester,  \* convergence_tester # nullptr
  hasGuesser, \* initial_guesser # nullptr
  hasCalc,    \* running_precision_calculator # nullptr
  precision,  \* running_precision, as a level p for 10^-p
  iteration,
  scale,      \* the scale run_to() was called with
  model,      \* state of every model
  condScale,  \* get_scale() of every condition
  pc,         \* where solve() is; "idle": not running
  cur,        \* slider that is being slid
  maxIt,      \* local max_iterations of solve()
  reached,    \* local accuracy_reached of solve()
  result,     \* how the last call ended
  solves,     \* number of calls of solve()
  ghost

config == <<sliders, testers, hasTester, hasGuesser, hasCalc>>
locals == <<cur, maxIt, reached>>
vars == <<config, precision, iteration, scale, model, condScale, pc, locals,
          result, solves, ghost>>

-----------------------------------------------------------------------------
Conditions == Constraints \cup Matchings

\* A constraint slider has one model, a matching slider two.
ConstraintSlider(c, m) == [cond |-> c, m1 |-> m, m2 |-> m]
MatchingSlider(mc, m1, m2) == [cond |-> mc, m1 |-> m1, m2 |-> m2]
SliderType == {s \in [cond : Conditions, m1 : Models, m2 : Models] :
                 s.cond \in Constraints => s.m1 = s.m2}
SliderModels(s) == {s.m1, s.m2}

InTower(m) == \E i \in DOMAIN sliders : m \in SliderModels(sliders[i])
TowerModels == {m \in Models : InTower(m)}

Precisions == {DefaultPrecision} \cup 1..MinPrecision
ModelType == [scale : Scales, traj : Trajectories, problem : BOOLEAN,
              precision : Precisions]
NewModel == [scale |-> 0, traj |-> 0, problem |-> FALSE,
             precision |-> DefaultPrecision]

NoGhost == [imposed |-> << >>, flagged |-> {}, ends |-> << >>, fresh |-> FALSE]

\* A bug: the exponent starts at 0.
PrecisionFromZero(it) == IF it < MinPrecision THEN it ELSE MinPrecision

\* Two_scale_increasing_precision(10, 10^-MinPrecision): 10^-(it + 1), but no
\* finer than the minimum.
GetPrecision(it) == IF it + 1 < MinPrecision THEN it + 1 ELSE MinPrecision

\* The sliders lower_bound() may find: the lowest ones that are not below s.
\* std::sort() leaves sliders at the same scale in any order.
SlidersAt(tower, s) ==
  LET at(i) == condScale[tower[i].cond]
  IN {i \in DOMAIN tower :
        at(i) >= s /\ \A j \in DOMAIN tower : at(j) >= s => at(i) <= at(j)}

\* get_model(scale): null above the highest slider.
ModelsAt(tower, s) ==
  IF SlidersAt(tower, s) = {} THEN {NoModel}
  ELSE {tower[i].m1 : i \in SlidersAt(tower, s)}
-----------------------------------------------------------------------------
Init ==
  /\ sliders = << >> /\ testers = << >>
  /\ hasTester = FALSE /\ hasGuesser = FALSE /\ hasCalc = FALSE
  /\ precision = DefaultPrecision /\ iteration = 0 /\ scale = 0
  /\ model = [m \in Models |-> NewModel]
  /\ condScale \in [Conditions -> Scales \ {0}]
  /\ pc = "idle" /\ cur = 0 /\ maxIt = 0 /\ reached = FALSE
  /\ result = "none" /\ solves = 0 /\ ghost = NoGhost

(* The client's calls.                                                     *)
Idle == pc = "idle"

\* add(): appends a slider to the tower.
Add(s) ==
  /\ Idle /\ Len(sliders) < MaxSliders
  /\ sliders' = Append(sliders, s)
  /\ UNCHANGED <<testers, hasTester, hasGuesser, hasCalc, precision, iteration,
                 scale, model, condScale, pc, locals, result, solves, ghost>>

AddConstraint(c, m) == Add(ConstraintSlider(c, m))

\* set_models() gives the condition the models of its slider, for good: as in
\* the generators, no condition is given to two matchings of a tower.
Unmatched(tower, s) ==
  s.cond \in Matchings => \A i \in DOMAIN tower : tower[i].cond # s.cond

AddMatching(mc, m1, m2) ==
  LET s == MatchingSlider(mc, m1, m2) IN m1 # m2 /\ Unmatched(sliders, s) /\ Add(s)

\* set_convergence_tester() with a new (composite) tester; max gives the tested
\* models and the maximum number of iterations of each one's tester.
SetTester(max) ==
  /\ Idle
  /\ hasTester' = TRUE
  /\ testers' = [m \in DOMAIN max |-> Tester!NewTester(max[m])]
  /\ UNCHANGED <<sliders, hasGuesser, hasCalc, precision, iteration, scale,
                 model, condScale, pc, locals, result, solves, ghost>>

\* restart() of the tester that is set.
RestartTester ==
  /\ Idle /\ hasTester
  /\ testers' = Tester!CompositeRestarted(testers)
  /\ UNCHANGED <<sliders, hasTester, hasGuesser, hasCalc, precision, iteration,
                 scale, model, condScale, pc, locals, result, solves, ghost>>

SetGuesserAndPrecision(g, p) ==
  /\ Idle
  /\ hasGuesser' = g /\ hasCalc' = p
  /\ UNCHANGED <<sliders, testers, hasTester, precision, iteration, scale,
                 model, condScale, pc, locals, result, solves, ghost>>

\* reset(): the state of a new solver; the models are not touched.
Reset ==
  /\ Idle
  /\ sliders' = << >> /\ testers' = << >>
  /\ hasTester' = FALSE /\ hasGuesser' = FALSE /\ hasCalc' = FALSE
  /\ precision' = DefaultPrecision /\ iteration' = 0 /\ scale' = 0
  /\ UNCHANGED <<model, condScale, pc, locals, result, solves, ghost>>

\* run_to(): a model responsible for scale s is run there, unless the
\* running fails.  Above the highest slider there is no such model.
RunTo(s) ==
  /\ Idle
  /\ scale' = s
  /\ \E m \in ModelsAt(sliders, s) :
       \/ /\ m = NoModel
          /\ UNCHANGED <<model, result>>
       \/ /\ m # NoModel
          /\ model' = [model EXCEPT ![m].scale = s]
          /\ UNCHANGED result
       \/ /\ m # NoModel
          /\ \E t \in Scales \ {0} : model' = [model EXCEPT ![m].scale = t]
          /\ result' = "thrown"
  /\ UNCHANGED <<config, precision, iteration, condScale, pc, locals, solves, ghost>>
-----------------------------------------------------------------------------
(* solve()                                                                 *)

\* The guesser runs models and applies conditions: any model may end anywhere.
Guess == [scale : Scales \ {0}, traj : Trajectories, problem : BOOLEAN]
Guessed(g) ==
  [m \in Models |-> [scale |-> g[m].scale, traj |-> g[m].traj,
                    problem |-> model[m].problem \/ g[m].problem,
                    precision |-> model[m].precision]]
InitialGuess(has) ==
  \/ ~has /\ UNCHANGED model
  \/ has /\ \E g \in [Models -> Guess] : model' = Guessed(g)

\* check_setup() and the early return of an empty tower or zero iterations.
SolveNothing ==
  /\ Idle /\ solves < MaxSolves
  /\ \/ ~hasTester /\ result' = "setupError"
     \/ /\ hasTester
        /\ sliders = << >> \/ Tester!CompositeMaxIterations(testers) = 0
        /\ result' = "returned"
  /\ solves' = solves + 1
  /\ ghost' = NoGhost
  /\ UNCHANGED <<config, precision, iteration, scale, model, condScale, pc, locals>>

Solve ==
  /\ Idle /\ solves < MaxSolves
  /\ hasTester /\ sliders # << >> /\ Tester!CompositeMaxIterations(testers) # 0
  /\ InitialGuess(hasGuesser)
  /\ \/ /\ maxIt' = Tester!CompositeMaxIterations(testers)
        /\ iteration' = 0 /\ reached' = FALSE /\ cur' = 0
        /\ pc' = "iterate"
        /\ result' = "running"
     \/ /\ hasGuesser           \* the guesser throws
        /\ result' = "thrown"
        /\ UNCHANGED <<iteration, locals, pc>>
  /\ solves' = solves + 1
  /\ ghost' = [NoGhost EXCEPT !.fresh = \A m \in DOMAIN testers : testers[m].count = 0]
  /\ UNCHANGED <<config, precision, scale, condScale>>

\* The condition of the loop.
MayIterate == iteration < maxIt /\ ~reached

\* A bug: problems are kept.
KeepProblems == model

\* clear_problems(): of the models of all sliders.
ClearProblems ==
  [m \in Models |-> IF InTower(m) THEN [model[m] EXCEPT !.problem = FALSE] ELSE model[m]]

\* Loop head: update_running_precision(), clear_problems(), first slider.
BeginIteration ==
  /\ pc = "iterate" /\ MayIterate
  /\ precision' = IF hasCalc THEN GetPrecision(iteration) ELSE precision
  /\ model' = ClearProblems
  /\ ghost' = [ghost EXCEPT !.imposed = << >>, !.flagged = {}]
  /\ cur' = 1
  /\ pc' = "run1"
  /\ UNCHANGED <<config, iteration, scale, condScale, maxIt, reached, result, solves>>

\* An exception leaves solve() from a slider or from the tester.
Leave ==
  /\ pc' = "idle"
  /\ result' = "thrown"
  /\ UNCHANGED <<sliders, hasTester, hasGuesser, hasCalc, precision, iteration, scale,
                 locals, solves, ghost>>

\* A bug: a matching slider sets the precision of its first model only.
PreciseFirst(s) == [model EXCEPT ![s.m1].precision = precision]

\* set_precision() of the slider: for all its models, before any of them runs.
Precise(s) == [m \in Models |-> IF m \in SliderModels(s)
                                THEN [model[m] EXCEPT !.precision = precision]
                                ELSE model[m]]

\* model->run_to(): reaches the scale, or throws somewhere on the way.
RunModel(m, next) ==
  LET s == sliders[cur]
  IN \/ /\ model' = [Precise(s) EXCEPT ![m].scale = condScale[s.cond]]
        /\ pc' = next
        /\ UNCHANGED <<config, precision, iteration, scale, condScale, locals,
                       result, solves, ghost>>
     \/ /\ \E q \in Scales \ {0} : model' = [Precise(s) EXCEPT ![m].scale = q]
        /\ Leave
        /\ UNCHANGED <<testers, condScale>>

\* slide(), up to the boundary condition.
RunFirst ==
  /\ pc = "run1"
  /\ RunModel(sliders[cur].m1,
              IF sliders[cur].cond \in Matchings THEN "run2" ELSE "impose")

RunSecond == pc = "run2" /\ RunModel(sliders[cur].m2, "impose")

\* A bug: the last slider is not run.
AfterSliderButLast(i) == IF i + 1 >= Len(sliders) THEN "test" ELSE "run1"

\* The next slider of run_sliders(), or the test after the last one.
AfterSlider(i) == IF i = Len(sliders) THEN "test" ELSE "run1"

\* apply() of a dynamic condition updates its scale.
NewScales(c) == IF c \in Dynamic THEN Scales \ {0} ELSE {condScale[c]}

\* apply() and match(): set the parameters of the (second) model, may raise
\* problems there, may move the scale of the condition, may throw.  The first
\* model of a match() is const.
Impose ==
  /\ pc = "impose"
  /\ LET s == sliders[cur]
     IN \E t \in Trajectories, p \in BOOLEAN, q \in NewScales(s.cond) :
          /\ model' = [model EXCEPT ![s.m2].traj = t, ![s.m2].problem = @ \/ p]
          /\ condScale' = [condScale EXCEPT ![s.cond] = q]
          /\ \/ /\ ghost' = [ghost EXCEPT !.imposed = Append(@, cur),
                               !.flagged = IF p THEN @ \cup {s.m2} ELSE @]
                /\ cur' = cur + 1
                /\ pc' = AfterSlider(cur)
                /\ UNCHANGED <<config, precision, iteration, scale, maxIt, reached,
                               result, solves>>
             \/ Leave /\ UNCHANGED testers

Ends == [m \in Models |-> [scale |-> model[m].scale, traj |-> model[m].traj]]

\* Running to the comparison scale fails in the tester of a model k, after any
\* of the others have been asked.
ThrownTesters(ts) ==
  {Tester!CompositeThrown(ts, model, asked, k, q) :
     asked \in SUBSET DOMAIN ts, q \in Scales,
     k \in {m \in DOMAIN ts : CompareAt # 0 /\ ts[m].count > 0}}

\* accuracy_goal_reached() and ++iteration.
TestAccuracy ==
  /\ pc = "test"
  /\ \/ /\ reached' = Tester!CompositeGoalReached(testers, model)
        /\ testers' = Tester!CompositeTested(testers, model)
        /\ iteration' = iteration + 1
        /\ ghost' = [ghost EXCEPT !.ends = Append(@, Ends)]
        /\ pc' = "iterate"
        /\ UNCHANGED <<sliders, hasTester, hasGuesser, hasCalc, precision, scale,
                       model, condScale, cur, maxIt, result, solves>>
     \/ /\ testers' \in ThrownTesters(testers)
        /\ UNCHANGED <<model, condScale>>
        /\ Leave

\* A bug: the loop is left only with the accuracy reached.
EndSolveReached ==
  /\ pc = "iterate" /\ reached
  /\ result' = "converged"
  /\ pc' = "idle"
  /\ UNCHANGED <<config, precision, iteration, scale, model, condScale, locals,
                 solves, ghost>>

\* A bug: the loop that ends with the last iteration counts as not converged.
EndSolveByCount ==
  /\ pc = "iterate" /\ ~MayIterate
  /\ result' = IF iteration < maxIt THEN "converged" ELSE "noConvergence"
  /\ pc' = "idle"
  /\ UNCHANGED <<config, precision, iteration, scale, model, condScale, locals,
                 solves, ghost>>

\* The loop is left: normal return or NoConvergenceError.
EndSolve ==
  /\ pc = "iterate" /\ ~MayIterate
  /\ result' = IF reached THEN "converged" ELSE "noConvergence"
  /\ pc' = "idle"
  /\ UNCHANGED <<config, precision, iteration, scale, model, condScale, locals,
                 solves, ghost>>
-----------------------------------------------------------------------------
SolveStep == BeginIteration \/ RunFirst \/ RunSecond \/ Impose \/ TestAccuracy \/ EndSolve

Client ==
  \/ \E c \in Constraints, m \in Models : AddConstraint(c, m)
  \/ \E mc \in Matchings, m1, m2 \in Models : AddMatching(mc, m1, m2)
  \/ \E ms \in SUBSET Models : \E max \in [ms -> MaxIts] : SetTester(max)
  \/ RestartTester
  \/ \E g, p \in BOOLEAN : SetGuesserAndPrecision(g, p)
  \/ Reset
  \/ \E s \in Scales \ {0} : RunTo(s)
  \/ SolveNothing
  \/ Solve

Next == Client \/ SolveStep

\* The statements of solve() are executed one after the other; the client is
\* free to stop calling.
Spec == Init /\ [][Next]_vars /\ WF_vars(SolveStep)
-----------------------------------------------------------------------------
(* Properties.                                                             *)

\* Types of all variables.
SnapshotType == [scale : Scales, traj : Trajectories]
TesterType == [count : Nat, max : MaxIts, last : SnapshotType]
GhostType == [imposed : Seq(Nat), flagged : SUBSET Models, fresh : BOOLEAN,
              ends : Seq([Models -> SnapshotType])]

ConfigTypes ==
  /\ sliders \in Seq(SliderType)
  /\ DOMAIN testers \subseteq Models
  /\ \A m \in DOMAIN testers : testers[m] \in TesterType
  /\ hasTester \in BOOLEAN /\ hasGuesser \in BOOLEAN /\ hasCalc \in BOOLEAN

ControlTypes ==
  /\ precision \in Precisions
  /\ iteration \in Nat /\ scale \in Scales
  /\ pc \in {"idle", "iterate", "run1", "run2", "impose", "test"}
  /\ cur \in Nat /\ maxIt \in MaxIts \cup {0} /\ reached \in BOOLEAN
  /\ result \in {"none", "setupError", "returned", "running", "thrown",
                 "converged", "noConvergence"}
  /\ solves \in 0..MaxSolves

DataTypes ==
  /\ model \in [Models -> ModelType]
  /\ condScale \in [Conditions -> Scales \ {0}]
  /\ ghost \in GhostType

TypeOK == ConfigTypes /\ ControlTypes /\ DataTypes

InSlider == pc \in {"run1", "run2", "impose"}

\* The iteration imposes every condition of the tower exactly once, in the
\* order the sliders were added; it is tested only when it is complete.
ConditionsInOrder ==
  /\ InSlider => cur \in DOMAIN sliders /\ ghost.imposed = [i \in 1..(cur - 1) |-> i]
  /\ pc = "test" => ghost.imposed = [i \in DOMAIN sliders |-> i]

\* A boundary condition only ever sees models that stand at its scale, having
\* been run there with the running precision of the present iteration.
ImposedAtScale ==
  pc = "impose" =>
    \A m \in SliderModels(sliders[cur]) :
      /\ model[m].scale = condScale[sliders[cur].cond]
      /\ model[m].precision = precision

\* The problems of the tower's models are those of the present iteration: none
\* of an earlier iteration or of the initial guess survives, none is lost.
ProblemsOfThisIteration ==
  InSlider \/ pc = "test" \/ (pc = "iterate" /\ iteration > 0) =>
    \A m \in TowerModels : model[m].problem <=> m \in ghost.flagged

\* The iteration counter counts the completed iterations of this solve() and
\* stays within the tester's maximum; giving up means all of them were done.
IterationsCounted ==
  pc # "idle" =>
    /\ Len(ghost.ends) = iteration
    /\ iteration = 0 \/ iteration <= maxIt
    /\ InSlider \/ pc = "test" => iteration < maxIt

\* Every tester of the composite has seen every iteration, however the others
\* answered, so that all compare the same two iterations.
TestersInStep ==
  pc # "idle" /\ ghost.fresh => \A m \in DOMAIN testers : testers[m].count = iteration

\* solve() with a fresh tester converges only after two complete iterations
\* of this very solve() whose end states the tester could not tell apart.
SameParameters(a, b) ==
  LET c == Tester!AtComparisonScale(a)
      d == Tester!AtComparisonScale(b)
  IN Tester!Abs(Tester!Point(c.traj, c.scale) - Tester!Point(d.traj, d.scale)) < Goal

ConvergedOnTwoIterations ==
  reached /\ pc = "iterate" /\ ghost.fresh =>
    LET n == Len(ghost.ends)
    IN n >= 2 /\ \A m \in DOMAIN testers :
                    SameParameters(ghost.ends[n][m], ghost.ends[n - 1][m])

\* ... and that ended at the same scale, up to the goal for the scale, as the
\* tester skips the parameter comparison when the scale has changed by more.
ConvergedScaleSettled ==
  reached /\ pc = "iterate" /\ ghost.fresh /\ CompareAt = 0 =>
    LET n == Len(ghost.ends)
    IN \A m \in DOMAIN testers :
         Tester!Abs(ghost.ends[n][m].scale - ghost.ends[n - 1][m].scale) < ScaleGoal

\* solve() gives up only after all its iterations, and with a fresh tester only
\* if each of them had moved a tested model: no solution is thrown away.
Agree(a, b) ==
  LET c == Tester!AtComparisonScale(a)
      d == Tester!AtComparisonScale(b)
  IN d.scale # 0 /\ Tester!Abs(c.scale - d.scale) < ScaleGoal /\ SameParameters(a, b)

GivesUpUnconverged ==
  [][pc = "iterate" /\ pc' = "idle" /\ result' = "noConvergence" =>
       /\ Len(ghost.ends) >= maxIt
       /\ ghost.fresh =>
            \A i \in 1..(Len(ghost.ends) - 1) :
              \E m \in DOMAIN testers :
                ~Agree(ghost.ends[i + 1][m], ghost.ends[i][m])]_vars
=============================================================================

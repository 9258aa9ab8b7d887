-------------------------- MODULE SpectrumGenerator --------------------------
(***************************************************************************)
(* A two-scale spectrum generator: run() determines the low-energy input,  *)
(* sets the model and the solver up, solves the boundary value problem     *)
(* between the high, SUSY and low scales, calculates the pole masses and   *)
(* translates whatever exception leaves all this into a reported problem.  *)
(*                                                                         *)
(* The solver is TwoScaleSolver with the tower of the generator: low, high *)
(* and SUSY-scale constraint on one model.  Every outcome of the numerics  *)
(* (a running breaks down, no EWSB, a tachyon, two iterations agree) is    *)
(* chosen freely.  Beta functions have at least one loop, so that running  *)
(* from or to scale 0 throws.                                              *)
(***************************************************************************)
EXTENDS Integers, ModelProblems

CONSTANTS
  MaxIts,        \* values of max_iterations(): see MaxIterations in README
  EwsbLoops,     \* values of the setting ewsb_loop_order
  QedQcdErrors,  \* exceptions QedQcd::to() may throw
  MaxRuns        \* bound: calls of run() on one generator

ASSUME GeneratorAssumption ==
  /\ MaxIts \subseteq Int /\ EwsbLoops \subseteq Nat
  /\ QedQcdErrors \subseteq {"NoConvergence", "NonPerturbativeRunningQedQcd"}
  /\ MaxRuns \in Nat

VARIABLES
  pc,              \* where run() is
  settings,        \* Spectrum_generator_settings, parameter_output_scale
  problems,        \* model.get_problems()
  solverProblems,  \* bvp solver problems: "none" (empty vector), "ok", "noConvergence"
  reported,        \* model problems of the generator's get_problems()
  exception,       \* the exception of this run, if threw
  iteration,       \* RGFlow::iteration
  scaleAt,         \* the scale the model is at
  scales,          \* high_scale, susy_scale and low_scale are set
  accuracy,        \* reached_precision: "infinite" or "reached"
  masses,          \* physical: "cleared", "partial" or "computed"
  runs,            \* calls of run()
  raised,          \* ghost: problems raised since the last iteration began
  converged,       \* ghost: two iterations of this run agreed
  ewsb,            \* ghost: the last EWSB solution of this run was found
  threw            \* ghost: an exception was thrown in this run

model == <<problems, scaleAt, masses>>
result == <<solverProblems, reported, scales, accuracy>>
ghosts == <<converged, ewsb, threw>>
vars == <<pc, settings, model, result, exception, iteration, runs, raised, ghosts>>

Settings == [force : BOOLEAN, ewsbLoops : EwsbLoops, maxIt : MaxIts, output : BOOLEAN]
Labels == {"idle", "qedqcd", "setup", "guess", "iterate", "low", "high", "susy",
           "test", "solved", "poleScale", "spectrum", "output", "catch", "report", "done"}
AtScale == {"zero", "low", "high", "susy", "pole", "output", "between"}

Init ==
  /\ pc = "idle" /\ settings \in Settings
  /\ problems = {} /\ scaleAt = "zero" /\ masses = "cleared"
  /\ solverProblems = "none" /\ reported = {}
  /\ scales = FALSE /\ accuracy = "infinite"
  /\ exception = "Error" /\ iteration = 0 /\ runs = 0
  /\ raised = {} /\ converged = FALSE /\ ewsb = FALSE /\ threw = FALSE

\* A problem that a step adds is raised by it.
SetProblems(p) ==
  /\ problems' = p
  /\ raised' = raised \cup (p \ problems)

Throw(e) ==
  /\ pc' = "catch" /\ exception' = e /\ threw' = TRUE
  /\ UNCHANGED <<settings, result, iteration, runs, converged, ewsb>>

-----------------------------------------------------------------------------
(* run() up to the solver.                                                 *)

Run(s) ==
  /\ pc \in {"idle", "done"} /\ runs < MaxRuns
  /\ pc' = "qedqcd" /\ settings' = s /\ runs' = runs + 1
  /\ exception' = "Error" /\ raised' = {}
  /\ converged' = FALSE /\ ewsb' = FALSE /\ threw' = FALSE
  /\ UNCHANGED <<model, result, iteration>>

QedQcdTo ==
  /\ pc = "qedqcd"
  /\ \/ /\ pc' = "setup"
        /\ UNCHANGED <<settings, result, exception, iteration, runs, ghosts>>
     \/ \E e \in QedQcdErrors : Throw(e)
  /\ UNCHANGED <<model, raised>>

\* Mutant: the model of an earlier run keeps its scale.
ClearModelButScale ==
  /\ problems' = {} /\ masses' = "cleared" /\ UNCHANGED scaleAt

ClearModel == problems' = {} /\ scaleAt' = "zero" /\ masses' = "cleared"

\* The solver with no iteration to do returns at once.
SetUp ==
  /\ pc = "setup"
  /\ pc' = IF settings.maxIt = 0 THEN "solved" ELSE "guess"
  /\ ClearModel
  /\ solverProblems' = "ok" /\ scales' = FALSE /\ accuracy' = "infinite"
  /\ iteration' = 0 /\ raised' = {}
  /\ UNCHANGED <<settings, reported, exception, runs, ghosts>>

-----------------------------------------------------------------------------
(* The boundary value problem.                                             *)

Tachyons == SUBSET {"runningTachyon"}

\* What follows the guess or an iteration that did not reach the goal, when n
\* iterations are done.
Again(n) ==
  /\ iteration' = n
  /\ IF n < settings.maxIt
     THEN pc' = "iterate" /\ UNCHANGED <<exception, threw>>
     ELSE pc' = "catch" /\ exception' = "NoConvergence" /\ threw' = TRUE

Guess ==
  /\ pc = "guess"
  /\ \E perturbative, solved, tree \in BOOLEAN, tachyons \in Tachyons :
       LET high == Flagged(problems, "nonPerturbativePar", ~perturbative) IN
         SetProblems(DRbarMasses(TreeLevelSolve(high, solved), tree, tachyons))
  /\ scaleAt' = "low"
  /\ Again(0)
  /\ UNCHANGED <<settings, masses, result, runs, converged, ewsb>>

\* Mutant: problems of earlier iterations are kept.
KeepProblems == UNCHANGED problems

ClearProblems == problems' = {}

\* Mutant: the iterations are counted anew.
BeginIterationAnew ==
  /\ pc = "iterate" /\ pc' = "low" /\ iteration' = 0
  /\ ClearProblems /\ raised' = {}
  /\ UNCHANGED <<settings, scaleAt, masses, result, exception, runs, ghosts>>

BeginIteration ==
  /\ pc = "iterate" /\ pc' = "low"
  /\ ClearProblems /\ raised' = {}
  /\ UNCHANGED <<settings, scaleAt, masses, result, exception, iteration, runs, ghosts>>

\* The low-scale constraint: tree-level masses, weak mixing angle and the
\* finiteness of the gauge couplings.
LowConstraint ==
  \E tree, angle, finite \in BOOLEAN, tachyons \in Tachyons :
    LET masses_ == DRbarMasses(problems, tree, tachyons) IN
      SetProblems(Flagged(Flagged(masses_, "sinThetaW", ~angle),
                          "nonPerturbativePar", ~finite))

ImposeLow ==
  /\ pc = "low" /\ pc' = "high"
  /\ LowConstraint /\ scaleAt' = "low"
  /\ UNCHANGED <<settings, masses, result, exception, iteration, runs, ghosts>>

\* The high-scale constraint ends with the check of the couplings.
ImposeHigh ==
  /\ pc = "high" /\ pc' = "susy"
  /\ \E perturbative \in BOOLEAN :
       SetProblems(Flagged(problems, "nonPerturbativePar", ~perturbative))
  /\ scaleAt' = "high"
  /\ UNCHANGED <<settings, masses, result, exception, iteration, runs, ghosts>>

SolveEwsb(p) ==
  \E solved, tree \in BOOLEAN, tachyons \in Tachyons :
    /\ SetProblems(EwsbSolve(p, settings.ewsbLoops, solved, tree, tachyons))
    /\ ewsb' = solved

ImposeSusy ==
  /\ pc = "susy" /\ pc' = "test"
  /\ \E tree \in BOOLEAN, tachyons \in Tachyons :
       SolveEwsb(DRbarMasses(problems, tree, tachyons))
  /\ scaleAt' = "susy"
  /\ UNCHANGED <<settings, masses, result, exception, iteration, runs, converged, threw>>

\* The first iteration has no other to be compared with.
TestConvergence ==
  /\ pc = "test"
  /\ \/ /\ iteration > 0 /\ pc' = "solved"
        /\ iteration' = iteration + 1 /\ converged' = TRUE
        /\ UNCHANGED <<exception, threw>>
     \/ Again(iteration + 1) /\ UNCHANGED converged
  /\ UNCHANGED <<settings, model, result, runs, raised, ewsb>>

-----------------------------------------------------------------------------
(* After the solver.                                                       *)

\* The low-scale constraint one last time; then the scales are read.
ImposeLowAgain ==
  /\ pc = "solved" /\ scaleAt # "zero"
  /\ pc' = "poleScale"
  /\ LowConstraint /\ scaleAt' = "low"
  /\ scales' = TRUE
  /\ accuracy' = IF converged THEN "reached" ELSE "infinite"
  /\ UNCHANGED <<settings, masses, solverProblems, reported, exception, iteration,
                 runs, ghosts>>

SolveEwsbAtPoleScale ==
  /\ pc = "poleScale" /\ pc' = "spectrum"
  /\ SolveEwsb(problems)
  /\ scaleAt' = "pole"
  /\ UNCHANGED <<settings, masses, result, exception, iteration, runs, converged, threw>>

KeepsSpectrum(p) == ~HaveProblem(p) \/ settings.force

CalculateSpectrum ==
  /\ pc = "spectrum" /\ pc' = "output"
  /\ \E tree \in BOOLEAN, tachyons \in Tachyons,
        pole \in SUBSET {"poleTachyon", "poleMass"} :
       LET p == DRbarMasses(problems, tree, tachyons) \cup pole IN
         /\ SetProblems(p)
         /\ masses' = IF KeepsSpectrum(p) THEN "computed" ELSE "cleared"
  /\ UNCHANGED <<settings, scaleAt, result, exception, iteration, runs, ghosts>>

RunToOutputScale ==
  /\ pc = "output" /\ pc' = "report"
  /\ scaleAt' = IF settings.output THEN "output" ELSE scaleAt
  /\ UNCHANGED <<settings, problems, masses, result, exception, iteration, runs,
                 raised, ghosts>>

\* The flags the part of run_except() at label l sets or clears.
FlagsAt(l) ==
  CASE l = "guess" -> {"nonPerturbativePar", "ewsbTreeLevel", "runningTachyon"}
    [] l \in {"low", "solved"} ->
         {"ewsbTreeLevel", "runningTachyon", "sinThetaW", "nonPerturbativePar"}
    [] l = "high" -> {"nonPerturbativePar"}
    [] l \in {"susy", "poleScale"} -> EwsbProblems \cup {"runningTachyon"}
    [] l = "spectrum" -> {"ewsbTreeLevel", "runningTachyon", "poleTachyon", "poleMass"}
    [] OTHER -> {}

\* A running or a condition fails and run_except() is left, whatever the part
\* that fails has flagged before; a running that fails stops between scales.
BreakDown ==
  /\ pc \in {"guess", "low", "high", "susy", "test", "solved", "poleScale", "spectrum", "output"}
  /\ pc = "output" => settings.output
  /\ \E e \in {"NonPerturbativeRunning", "Error"} :
       /\ Throw(e)
       /\ scaleAt' = IF e = "NonPerturbativeRunning" /\ scaleAt # "zero"
                     THEN "between" ELSE scaleAt
  /\ \E flags \in SUBSET FlagsAt(pc) : SetProblems((problems \ FlagsAt(pc)) \cup flags)
  /\ masses' = IF pc = "spectrum" THEN "partial" ELSE masses

\* Mutant: the solver's flag is not among the translated ones.
NoTranslation(e) == UNCHANGED solverProblems

\* for (auto& p: solver_problems) p.flag_no_convergence()
FlagNoConvergence(e) ==
  IF e = "NoConvergence" /\ solverProblems # "none"
  THEN solverProblems' = "noConvergence"
  ELSE UNCHANGED solverProblems

Translate ==
  /\ pc = "catch" /\ pc' = "report"
  /\ FlagNoConvergence(exception)
  /\ SetProblems(problems \cup ProblemsOf(exception))
  /\ UNCHANGED <<settings, scaleAt, masses, reported, scales, accuracy, exception,
                 iteration, runs, ghosts>>

Report ==
  /\ pc = "report" /\ pc' = "done"
  /\ reported' = problems
  /\ UNCHANGED <<settings, model, solverProblems, scales, accuracy, exception,
                 iteration, runs, raised, ghosts>>

Solve == Guess \/ BeginIteration \/ ImposeLow \/ ImposeHigh \/ ImposeSusy \/ TestConvergence

RunStep ==
  \/ QedQcdTo \/ SetUp \/ Solve
  \/ ImposeLowAgain \/ SolveEwsbAtPoleScale \/ CalculateSpectrum \/ RunToOutputScale
  \/ BreakDown \/ Translate \/ Report

Next == (\E s \in Settings : Run(s)) \/ RunStep

Spec == Init /\ [][Next]_vars /\ WF_vars(RunStep)

-----------------------------------------------------------------------------
StateTypes ==
  /\ pc \in Labels /\ settings \in Settings
  /\ problems \subseteq Problems /\ reported \subseteq Problems /\ raised \subseteq Problems
  /\ scaleAt \in AtScale /\ masses \in {"cleared", "partial", "computed"}
  /\ solverProblems \in {"none", "ok", "noConvergence"}
  /\ accuracy \in {"infinite", "reached"}
  /\ exception \in Exceptions /\ iteration \in Nat /\ runs \in 0..MaxRuns

FlagTypes ==
  /\ scales \in BOOLEAN /\ converged \in BOOLEAN
  /\ ewsb \in BOOLEAN /\ threw \in BOOLEAN

\* Types.
TypeOK == StateTypes /\ FlagTypes

ReportsProblem == HaveProblem(reported) \/ solverProblems = "noConvergence"
Clean == pc = "done" /\ ~ReportsProblem

\* A run that reports no problem has solved the boundary value problem: two
\* iterations of this run agreed, and the precision reached and the scales
\* found are its own.  get_exit_code() tells nothing else to a caller.
CleanMeansConverged == Clean => converged /\ accuracy = "reached" /\ scales

\* A run that reports no problem hands out the spectrum of a model that
\* breaks the electroweak symmetry, with its parameters at the scale asked for.
CleanMeansSpectrum ==
  Clean => /\ masses = "computed" /\ ewsb
           /\ scaleAt = IF settings.output THEN "output" ELSE "pole"

\* "translates an emitted exception into an problem code": whatever leaves the
\* calculation is reported when run() returns.
ExceptionReported == pc = "done" /\ threw => ReportsProblem

\* What is reported was raised in the last iteration or after it: a tachyon
\* met on the way to the solution, or in an earlier run, is forgotten.  Only a
\* run that ends in QedQcd::to() still reports what an earlier run left.
ReportsLastIteration ==
  pc = "done" /\ ~(threw /\ exception = "NonPerturbativeRunningQedQcd")
    => reported \subseteq raised

\* The EWSB problems reported are the verdict of the last EWSB solution, the
\* one at the scale of the pole masses.
EwsbVerdict ==
  pc = "done" /\ ~threw => (reported \cap EwsbProblems # {} <=> ~ewsb)

\* "Solve EWSB conditions without flagging a problem if no solution is found":
\* when all EWSB conditions proper are solved at loop level, no failure at tree
\* level is flagged once the solver has converged.
TemporarySolveFlagsNothing ==
  pc \in {"poleScale", "spectrum", "output"} /\ settings.ewsbLoops > 0
    => "ewsbTreeLevel" \notin problems
==============================================================================

----------------------- MODULE SpectrumGeneratorProofs -----------------------
(***************************************************************************)
(* What a spectrum generator reports, for every setting of the iterations  *)
(* and loop orders and any number of runs: types, the report of            *)
(* exceptions, convergence of clean points, and the verdict on EWSB.       *)
(***************************************************************************)
EXTENDS SpectrumGenerator, TLAPS

(***************************************************************************)
(* The operations on problems.                                             *)
(***************************************************************************)

\* The temporary tree-level solution and the masses know only problem kinds.
LEMMA MassesType ==
  ASSUME NEW p \in SUBSET Problems, NEW tree \in BOOLEAN, NEW tachyons \in Tachyons
  PROVE  DRbarMasses(p, tree, tachyons) \in SUBSET Problems
  BY DEF DRbarMasses, IgnoringFailures, TreeLevelSolve, Flagged, Tachyons, Problems,
         EwsbProblems

LEMMA TreeLevelType ==
  ASSUME NEW p \in SUBSET Problems, NEW solved \in BOOLEAN
  PROVE  TreeLevelSolve(p, solved) \in SUBSET Problems
  BY DEF TreeLevelSolve, Flagged, Problems, EwsbProblems

LEMMA EwsbType ==
  ASSUME NEW p \in SUBSET Problems, NEW loops \in Nat, NEW solved \in BOOLEAN,
         NEW tree \in BOOLEAN, NEW tachyons \in Tachyons
  PROVE  EwsbSolve(p, loops, solved, tree, tachyons) \in SUBSET Problems
  BY MassesType, TreeLevelType
  DEF EwsbSolve, IterativeSolve, Flagged, Problems, EwsbProblems

\* With the soft Higgs masses fixed at tree level, the masses leave the EWSB
\* flags alone.
LEMMA MassesKeepEwsb ==
  ASSUME CustomTreeSolver, NEW p, NEW tree \in BOOLEAN, NEW tachyons \in Tachyons
  PROVE  /\ "ewsb" \in DRbarMasses(p, tree, tachyons) <=> "ewsb" \in p
         /\ "ewsbTreeLevel" \in DRbarMasses(p, tree, tachyons) <=> "ewsbTreeLevel" \in p
  BY DEF DRbarMasses, Tachyons

\* The EWSB solver sets one of the two flags and leaves the other.
LEMMA EwsbSolveFlags ==
  ASSUME CustomTreeSolver, NEW p, NEW loops \in Nat, NEW solved \in BOOLEAN,
         NEW tree \in BOOLEAN, NEW tachyons \in Tachyons
  PROVE  LET q == EwsbSolve(p, loops, solved, tree, tachyons)
         IN IF loops = 0
            THEN /\ "ewsb" \in q <=> "ewsb" \in p
                 /\ "ewsbTreeLevel" \in q <=> ~solved
            ELSE /\ "ewsb" \in q <=> ~solved
                 /\ "ewsbTreeLevel" \in q <=> "ewsbTreeLevel" \in p
<1>1. CASE loops = 0
  BY <1>1 DEF EwsbSolve, TreeLevelSolve, Flagged
<1>2. CASE loops # 0
  BY <1>2, MassesKeepEwsb DEF EwsbSolve, IterativeSolve, Flagged
<1>3. QED BY <1>1, <1>2

(***************************************************************************)
(* Types.                                                                  *)
(***************************************************************************)

LEMMA TypeInit == Init => TypeOK
<1>1. Init => StateTypes
  BY GeneratorAssumption DEF Init, StateTypes, Labels, Problems, AtScale, Exceptions
<1>2. Init => FlagTypes
  BY Zenon DEF Init, FlagTypes
<1>3. QED BY <1>1, <1>2 DEF TypeOK

\* Every step keeps the types of everything but the flags.
LEMMA StateStep == StateTypes /\ [Next]_vars => StateTypes'
<1> SUFFICES ASSUME StateTypes, [Next]_vars PROVE StateTypes'
  OBVIOUS
<1> USE GeneratorAssumption
<1>0. CASE UNCHANGED vars
  BY <1>0 DEF StateTypes, vars, model, result, ghosts
<1>1. ASSUME NEW s \in Settings, Run(s) PROVE StateTypes'
  BY <1>1 DEF StateTypes, Run, model, result, Labels, Exceptions
<1>2. CASE QedQcdTo
  BY <1>2 DEF StateTypes, QedQcdTo, Throw, model, result, ghosts, Labels, Exceptions
<1>3. CASE SetUp
  BY <1>3 DEF StateTypes, SetUp, ClearModel, model, result, ghosts, Labels, AtScale
<1>4. CASE Guess
  <2>1. /\ problems' \in SUBSET Problems /\ raised' \in SUBSET Problems
    <3>1. PICK perturbative, solved, tree \in BOOLEAN, tachyons \in Tachyons :
            LET high == Flagged(problems, "nonPerturbativePar", ~perturbative) IN
              SetProblems(DRbarMasses(TreeLevelSolve(high, solved), tree, tachyons))
      BY <1>4 DEF Guess
    <3>2. Flagged(problems, "nonPerturbativePar", ~perturbative) \in SUBSET Problems
      BY DEF StateTypes, Flagged, Problems
    <3>3. QED BY <3>1, <3>2, TreeLevelType, MassesType DEF SetProblems, StateTypes
  <2>2. QED
    BY <1>4, <2>1 DEF StateTypes, Guess, Again, model, result, Labels, AtScale, Exceptions
<1>5. CASE BeginIteration
  BY <1>5 DEF StateTypes, BeginIteration, ClearProblems, result, ghosts, Labels
<1>6. ASSUME LowConstraint PROVE problems' \in SUBSET Problems /\ raised' \in SUBSET Problems
  <2>1. PICK tree, angle, finite \in BOOLEAN, tachyons \in Tachyons :
          SetProblems(Flagged(Flagged(DRbarMasses(problems, tree, tachyons),
                                      "sinThetaW", ~angle),
                              "nonPerturbativePar", ~finite))
    BY <1>6 DEF LowConstraint
  <2>2. Flagged(Flagged(DRbarMasses(problems, tree, tachyons), "sinThetaW", ~angle),
                "nonPerturbativePar", ~finite) \in SUBSET Problems
    BY MassesType DEF StateTypes, Flagged, Problems
  <2>3. QED BY <2>1, <2>2 DEF SetProblems, StateTypes
<1>7. CASE ImposeLow
  BY <1>7, <1>6 DEF StateTypes, ImposeLow, result, ghosts, Labels, AtScale
<1>8. CASE ImposeHigh
  BY <1>8 DEF StateTypes, ImposeHigh, SetProblems, Flagged, Problems, result, ghosts, Labels,
              AtScale
<1>9. ASSUME NEW p \in SUBSET Problems, SolveEwsb(p)
      PROVE  problems' \in SUBSET Problems /\ raised' \in SUBSET Problems
  <2>1. PICK solved, tree \in BOOLEAN, tachyons \in Tachyons :
          SetProblems(EwsbSolve(p, settings.ewsbLoops, solved, tree, tachyons))
    BY <1>9 DEF SolveEwsb
  <2>2. settings.ewsbLoops \in Nat
    BY DEF StateTypes, Settings
  <2>3. EwsbSolve(p, settings.ewsbLoops, solved, tree, tachyons) \in SUBSET Problems
    BY <2>2, EwsbType
  <2>4. QED BY <2>1, <2>3 DEF SetProblems, StateTypes
<1>10. CASE ImposeSusy
  <2>1. PICK tree \in BOOLEAN, tachyons \in Tachyons :
          SolveEwsb(DRbarMasses(problems, tree, tachyons))
    BY <1>10 DEF ImposeSusy
  <2>2. DRbarMasses(problems, tree, tachyons) \in SUBSET Problems
    BY MassesType DEF StateTypes
  <2>3. problems' \in SUBSET Problems /\ raised' \in SUBSET Problems
    BY <2>1, <2>2, <1>9
  <2>4. QED BY <1>10, <2>3 DEF StateTypes, ImposeSusy, result, ghosts, Labels, AtScale
<1>11. CASE TestConvergence
  BY <1>11 DEF StateTypes, TestConvergence, Again, model, result, Labels, Exceptions
<1>12. CASE ImposeLowAgain
  BY <1>12, <1>6 DEF StateTypes, ImposeLowAgain, ghosts, Labels, AtScale
<1>13. CASE SolveEwsbAtPoleScale
  <2>1. problems' \in SUBSET Problems /\ raised' \in SUBSET Problems
    BY <1>13, <1>9 DEF SolveEwsbAtPoleScale, StateTypes
  <2>2. QED BY <1>13, <2>1 DEF StateTypes, SolveEwsbAtPoleScale, result, Labels, AtScale
<1>14. CASE CalculateSpectrum
  <2>1. PICK tree \in BOOLEAN, tachyons \in Tachyons,
             pole \in SUBSET {"poleTachyon", "poleMass"} :
          LET p == DRbarMasses(problems, tree, tachyons) \cup pole IN
            /\ SetProblems(p)
            /\ masses' = IF KeepsSpectrum(p) THEN "computed" ELSE "cleared"
    BY <1>14 DEF CalculateSpectrum
  <2>2. DRbarMasses(problems, tree, tachyons) \cup pole \in SUBSET Problems
    BY MassesType DEF StateTypes, Problems
  <2>3. problems' \in SUBSET Problems /\ raised' \in SUBSET Problems
    BY <2>1, <2>2 DEF SetProblems, StateTypes
  <2>4. masses' \in {"cleared", "partial", "computed"}
    BY <2>1
  <2>5. QED BY <1>14, <2>3, <2>4 DEF StateTypes, CalculateSpectrum, result, ghosts, Labels
<1>15. CASE RunToOutputScale
  BY <1>15 DEF StateTypes, RunToOutputScale, result, ghosts, Labels, AtScale
<1>16. CASE BreakDown
  <2>1. FlagsAt(pc) \in SUBSET Problems
    BY DEF FlagsAt, Problems, EwsbProblems
  <2>2. problems' \in SUBSET Problems /\ raised' \in SUBSET Problems
    BY <1>16, <2>1 DEF BreakDown, SetProblems, StateTypes
  <2>3. QED
    BY <1>16, <2>2 DEF StateTypes, BreakDown, Throw, result, Labels, AtScale, Exceptions
<1>17. CASE Translate
  <2>1. ProblemsOf(exception) \in SUBSET Problems
    BY DEF StateTypes, ProblemsOf, Exceptions, Problems
  <2>2. QED
    BY <1>17, <2>1 DEF StateTypes, Translate, SetProblems, FlagNoConvergence, Labels, ghosts
<1>18. CASE Report
  BY <1>18 DEF StateTypes, Report, model, ghosts, Labels
<1>19. QED
  BY <1>0, <1>1, <1>2, <1>3, <1>4, <1>5, <1>7, <1>8, <1>10, <1>11, <1>12, <1>13, <1>14,
     <1>15, <1>16, <1>17, <1>18
  DEF Next, RunStep, Solve

\* Every step keeps the flags Boolean.
LEMMA FlagStep == FlagTypes /\ [Next]_vars => FlagTypes'
<1> SUFFICES ASSUME FlagTypes, [Next]_vars PROVE FlagTypes'
  OBVIOUS
<1>1. ASSUME NEW s \in Settings, Run(s) PROVE FlagTypes'
  BY <1>1, Zenon DEF FlagTypes, Run, result
<1>2. CASE QedQcdTo \/ SetUp
  BY <1>2, Zenon DEF FlagTypes, QedQcdTo, Throw, SetUp, result, ghosts
<1>3. ASSUME NEW p, SolveEwsb(p) PROVE ewsb' \in BOOLEAN
  BY <1>3, Zenon DEF SolveEwsb
<1>4. CASE Guess \/ TestConvergence
  BY <1>4, Zenon DEF FlagTypes, Guess, TestConvergence, Again, result
<1>5. CASE BeginIteration \/ ImposeLow \/ ImposeHigh
  BY <1>5, Zenon DEF FlagTypes, BeginIteration, ImposeLow, ImposeHigh, result, ghosts
<1>6. CASE ImposeSusy \/ SolveEwsbAtPoleScale
  BY <1>6, <1>3, Zenon DEF FlagTypes, ImposeSusy, SolveEwsbAtPoleScale, result
<1>7. CASE ImposeLowAgain \/ CalculateSpectrum \/ RunToOutputScale
  BY <1>7, Zenon DEF FlagTypes, ImposeLowAgain, CalculateSpectrum, RunToOutputScale, result, ghosts
<1>8. CASE BreakDown
  BY <1>8, Zenon DEF FlagTypes, BreakDown, Throw, result
<1>9. CASE Translate \/ Report
  BY <1>9, Zenon DEF FlagTypes, Translate, Report, ghosts
<1>10. CASE UNCHANGED vars
  BY <1>10, Zenon DEF FlagTypes, vars, result, ghosts
<1>11. QED
  BY <1>1, <1>2, <1>4, <1>5, <1>6, <1>7, <1>8, <1>9, <1>10 DEF Next, RunStep, Solve

LEMMA TypeStep == TypeOK /\ [Next]_vars => TypeOK'
  BY StateStep, FlagStep DEF TypeOK

\* Type correctness of the generator.
THEOREM TypeCorrect == Spec => []TypeOK
<1>1. QED BY TypeInit, TypeStep, PTL DEF Spec

(***************************************************************************)
(* Reports.  An exception of QedQcd::to() comes before the solver's        *)
(* problems are set up and must be one that flags a problem of the model.  *)
(***************************************************************************)

Solving == {"guess", "iterate", "low", "high", "susy", "test", "solved",
            "poleScale", "spectrum", "output"}

\* What run() has when no exception has left the solver.
Converged == converged /\ accuracy = "reached" /\ scales

\* Where run() is tells whether an exception was thrown, what its translation
\* finds, and, behind the solver, that the solver has converged.
RunState ==
  /\ pc \in Solving => ~threw /\ solverProblems # "none"
  /\ pc \in {"idle", "qedqcd", "setup"} => ~threw
  /\ pc = "solved" => converged \/ scaleAt = "zero"
  /\ pc \in {"poleScale", "spectrum", "output"} => Converged
  /\ pc = "catch" => threw /\ (exception = "NoConvergence" => solverProblems # "none")
  /\ pc = "report" =>
       IF threw THEN HaveProblem(problems) \/ solverProblems = "noConvergence"
       ELSE Converged
  /\ pc = "done" => IF threw THEN ReportsProblem ELSE Converged

LEMMA RunStateInit == Init => RunState
  BY DEF Init, RunState, Solving

\* Every exception but NoConvergenceError flags a problem of the model.
LEMMA ExceptionFlags ==
  ASSUME NEW e \in Exceptions, e # "NoConvergence"
  PROVE  ProblemsOf(e) # {}
  BY DEF Exceptions, ProblemsOf

LEMMA RunStateStep ==
  ASSUME "NoConvergence" \notin QedQcdErrors, TypeOK, RunState, [Next]_vars
  PROVE  RunState'
<1> USE DEF RunState, Solving, Converged
<1>0. CASE UNCHANGED vars
  BY <1>0 DEF vars, model, result, ghosts, ReportsProblem, HaveProblem
<1>1. ASSUME NEW s \in Settings, Run(s) PROVE RunState'
  BY <1>1 DEF Run
<1>2. CASE QedQcdTo
  BY <1>2, GeneratorAssumption DEF QedQcdTo, Throw, ghosts
<1>3. CASE SetUp
  BY <1>3 DEF SetUp, ClearModel, ghosts
<1>4. CASE Guess
  BY <1>4 DEF Guess, Again, result
<1>5. CASE BeginIteration \/ ImposeLow \/ ImposeHigh \/ ImposeSusy
  BY <1>5 DEF BeginIteration, ImposeLow, ImposeHigh, ImposeSusy, result, ghosts
<1>6. CASE TestConvergence
  BY <1>6 DEF TestConvergence, Again, result
<1>7. CASE ImposeLowAgain
  BY <1>7 DEF ImposeLowAgain, ghosts
<1>8. CASE SolveEwsbAtPoleScale \/ CalculateSpectrum \/ RunToOutputScale
  BY <1>8 DEF SolveEwsbAtPoleScale, CalculateSpectrum, RunToOutputScale, result, ghosts
<1>9. CASE BreakDown
  BY <1>9 DEF BreakDown, Throw, result
<1>10. CASE Translate
  <2>1. CASE exception = "NoConvergence"
    BY <1>10, <2>1 DEF Translate, FlagNoConvergence, ghosts
  <2>2. CASE exception # "NoConvergence"
    <3>1. exception \in Exceptions
      BY DEF TypeOK, StateTypes
    <3>2. HaveProblem(problems')
      BY <1>10, <2>2, <3>1, ExceptionFlags DEF Translate, SetProblems, HaveProblem
    <3>3. QED BY <1>10, <3>2 DEF Translate, HaveProblem, ghosts
  <2>3. QED BY <2>1, <2>2
<1>11. CASE Report
  BY <1>11 DEF Report, ReportsProblem, ghosts
<1>12. QED
  BY <1>0, <1>1, <1>2, <1>3, <1>4, <1>5, <1>6, <1>7, <1>8, <1>9, <1>10, <1>11
  DEF Next, RunStep, Solve

LEMMA RunStateInvariant ==
  ASSUME "NoConvergence" \notin QedQcdErrors
  PROVE  Spec => [](TypeOK /\ RunState)
<1>1. Init => TypeOK /\ RunState
  BY TypeInit, RunStateInit
<1>2. (TypeOK /\ RunState) /\ [Next]_vars => (TypeOK /\ RunState)'
  BY TypeStep, RunStateStep
<1>3. QED BY <1>1, <1>2, PTL DEF Spec

\* Every exception is reported, provided QedQcd::to() throws none that only a
\* solver could report.
THEOREM ExceptionReportedInvariant ==
  ASSUME "NoConvergence" \notin QedQcdErrors
  PROVE  Spec => []ExceptionReported
<1>1. RunState => ExceptionReported
  BY DEF RunState, ExceptionReported
<1>2. QED BY <1>1, RunStateInvariant, PTL

\* A run that reports no problem has converged, under the same proviso.
THEOREM CleanMeansConvergedInvariant ==
  ASSUME "NoConvergence" \notin QedQcdErrors
  PROVE  Spec => []CleanMeansConverged
<1>1. RunState => CleanMeansConverged
  BY DEF RunState, CleanMeansConverged, Clean, Converged
<1>2. QED BY <1>1, RunStateInvariant, PTL

(***************************************************************************)
(* Electroweak symmetry breaking.                                          *)
(***************************************************************************)

\* Since an iteration began, only the flag of the loop order in use can be
\* set; after the EWSB solution at the scale of the pole masses it is the
\* verdict of that solution.
EwsbState ==
  /\ pc \in {"low", "high", "susy", "test", "solved", "poleScale"} =>
       IF settings.ewsbLoops = 0 THEN "ewsb" \notin problems
       ELSE "ewsbTreeLevel" \notin problems
  /\ pc \in {"spectrum", "output"} \/ (pc = "report" /\ ~threw) =>
       (problems \cap EwsbProblems # {} <=> ~ewsb)
  /\ pc = "done" /\ ~threw => (reported \cap EwsbProblems # {} <=> ~ewsb)
  /\ pc = "catch" => threw

LEMMA EwsbStep ==
  ASSUME CustomTreeSolver, TypeOK, EwsbState, [Next]_vars
  PROVE  EwsbState'
<1> USE DEF EwsbState
<1>0. CASE UNCHANGED vars
  BY <1>0 DEF vars, model, result, ghosts
<1>1. ASSUME NEW s \in Settings, Run(s) PROVE EwsbState'
  BY <1>1 DEF Run
<1>2. CASE QedQcdTo
  BY <1>2 DEF QedQcdTo, Throw
<1>3. CASE SetUp
  BY <1>3 DEF SetUp, ClearModel
<1>4. CASE Guess
  BY <1>4 DEF Guess, Again
<1>5. CASE BeginIteration
  BY <1>5 DEF BeginIteration, ClearProblems
<1>6. ASSUME LowConstraint
      PROVE  /\ "ewsb" \in problems' <=> "ewsb" \in problems
             /\ "ewsbTreeLevel" \in problems' <=> "ewsbTreeLevel" \in problems
  BY <1>6, MassesKeepEwsb DEF LowConstraint, SetProblems, Flagged
<1>7. CASE ImposeLow
  BY <1>7, <1>6 DEF ImposeLow
<1>8. CASE ImposeHigh
  BY <1>8 DEF ImposeHigh, SetProblems, Flagged
<1>9. ASSUME NEW p, SolveEwsb(p),
             IF settings.ewsbLoops = 0 THEN "ewsb" \notin p ELSE "ewsbTreeLevel" \notin p
      PROVE  /\ problems' \cap EwsbProblems # {} <=> ~ewsb'
             /\ IF settings.ewsbLoops = 0 THEN "ewsb" \notin problems'
                ELSE "ewsbTreeLevel" \notin problems'
  <2>1. PICK solved, tree \in BOOLEAN, tachyons \in Tachyons :
          /\ SetProblems(EwsbSolve(p, settings.ewsbLoops, solved, tree, tachyons))
          /\ ewsb' = solved
    BY <1>9 DEF SolveEwsb
  <2>2. settings.ewsbLoops \in Nat
    BY GeneratorAssumption DEF TypeOK, StateTypes, Settings
  <2>3. IF settings.ewsbLoops = 0
        THEN "ewsb" \notin problems' /\ ("ewsbTreeLevel" \in problems' <=> ~solved)
        ELSE "ewsbTreeLevel" \notin problems' /\ ("ewsb" \in problems' <=> ~solved)
    BY <1>9, <2>1, <2>2, EwsbSolveFlags DEF SetProblems
  <2>4. problems' \cap EwsbProblems # {} <=> ~solved
    BY <2>3 DEF EwsbProblems
  <2>5. QED BY <2>1, <2>3, <2>4
<1>10. CASE ImposeSusy
  <2>1. PICK tree \in BOOLEAN, tachyons \in Tachyons :
          SolveEwsb(DRbarMasses(problems, tree, tachyons))
    BY <1>10 DEF ImposeSusy
  <2>2. IF settings.ewsbLoops = 0 THEN "ewsb" \notin DRbarMasses(problems, tree, tachyons)
        ELSE "ewsbTreeLevel" \notin DRbarMasses(problems, tree, tachyons)
    BY <1>10, MassesKeepEwsb DEF ImposeSusy
  <2>3. QED BY <1>10, <2>1, <2>2, <1>9 DEF ImposeSusy
<1>11. CASE TestConvergence
  BY <1>11 DEF TestConvergence, Again, model
<1>12. CASE ImposeLowAgain
  BY <1>12, <1>6 DEF ImposeLowAgain
<1>13. CASE SolveEwsbAtPoleScale
  BY <1>13, <1>9 DEF SolveEwsbAtPoleScale
<1>14. CASE CalculateSpectrum
  <2>1. PICK tree \in BOOLEAN, tachyons \in Tachyons,
             pole \in SUBSET {"poleTachyon", "poleMass"} :
          problems' = DRbarMasses(problems, tree, tachyons) \cup pole
    BY <1>14 DEF CalculateSpectrum, SetProblems
  <2>2. problems' \cap EwsbProblems = problems \cap EwsbProblems
    BY <2>1, MassesKeepEwsb DEF EwsbProblems
  <2>3. QED BY <1>14, <2>2 DEF CalculateSpectrum, ghosts
<1>15. CASE RunToOutputScale
  BY <1>15 DEF RunToOutputScale, ghosts
<1>16. CASE BreakDown
  BY <1>16 DEF BreakDown, Throw
<1>17. CASE Translate
  BY <1>17 DEF Translate, ghosts
<1>18. CASE Report
  BY <1>18 DEF Report, ghosts, model
<1>19. QED
  BY <1>0, <1>1, <1>2, <1>3, <1>4, <1>5, <1>7, <1>8, <1>10, <1>11, <1>12, <1>13, <1>14,
     <1>15, <1>16, <1>17, <1>18
  DEF Next, RunStep, Solve

\* For models whose tree-level equations fix the soft Higgs masses, the EWSB
\* problems a run reports are the verdict of its last EWSB solution.
THEOREM EwsbVerdictInvariant ==
  ASSUME CustomTreeSolver
  PROVE  Spec => []EwsbVerdict
<1>1. Init => EwsbState
  BY DEF Init, EwsbState
<1>2. TypeOK /\ EwsbState /\ [Next]_vars => EwsbState'
  BY EwsbStep
<1>3. EwsbState => EwsbVerdict
  BY DEF EwsbState, EwsbVerdict
<1>4. QED BY <1>1, <1>2, <1>3, TypeCorrect, PTL DEF Spec
(***************************************************************************)
(* The spectrum handed out.                                                *)
(***************************************************************************)

\* The flag by which the EWSB solver of the loop order in use reports failure.
FailureFlag == IF settings.ewsbLoops = 0 THEN "ewsbTreeLevel" ELSE "ewsb"

\* The tree-level spectrum that follows an EWSB solution keeps its failure,
\* unless a temporary tree-level solution comes after one at tree level.
LEMMA MassesKeepFailure ==
  ASSUME CustomTreeSolver \/ 0 \notin EwsbLoops, settings \in Settings,
         NEW p, NEW tree \in BOOLEAN, NEW tachyons \in Tachyons, FailureFlag \in p
  PROVE  FailureFlag \in DRbarMasses(p, tree, tachyons)
<1>1. settings.ewsbLoops \in EwsbLoops
  BY DEF Settings
<1>2. CASE CustomTreeSolver
  BY <1>2 DEF DRbarMasses
<1>3. CASE settings.ewsbLoops # 0
  BY <1>3 DEF FailureFlag, DRbarMasses, IgnoringFailures, TreeLevelSolve, Flagged
<1> QED BY <1>1, <1>2, <1>3

\* Behind the solver run() knows whether the model breaks the symmetry, has
\* computed the masses unless there is a problem, and where it left the model.
SpectrumState ==
  /\ pc \in {"spectrum", "output"} \/ (pc = "report" /\ ~threw) =>
       ewsb \/ FailureFlag \in problems
  /\ pc = "output" \/ (pc = "report" /\ ~threw) =>
       masses = "computed" \/ HaveProblem(problems)
  /\ pc \in {"spectrum", "output"} => scaleAt = "pole"
  /\ (pc = "report" \/ pc = "done") /\ ~threw =>
       scaleAt = IF settings.output THEN "output" ELSE "pole"
  /\ pc = "done" /\ ~threw =>
       (masses = "computed" /\ ewsb) \/ HaveProblem(reported)
  /\ pc = "catch" => threw

LEMMA SpectrumStep ==
  ASSUME CustomTreeSolver \/ 0 \notin EwsbLoops, TypeOK, SpectrumState, [Next]_vars
  PROVE  SpectrumState'
<1> USE DEF SpectrumState, FailureFlag
<1>0. CASE UNCHANGED vars
  BY <1>0 DEF vars, model, result, ghosts, HaveProblem
<1>1. ASSUME NEW s \in Settings, Run(s) PROVE SpectrumState'
  BY <1>1 DEF Run
<1>2. CASE QedQcdTo
  BY <1>2 DEF QedQcdTo, Throw
<1>3. CASE SetUp
  BY <1>3 DEF SetUp
<1>4. CASE Guess
  BY <1>4 DEF Guess, Again
<1>5. CASE BeginIteration \/ ImposeLow \/ ImposeHigh \/ ImposeSusy
  BY <1>5 DEF BeginIteration, ImposeLow, ImposeHigh, ImposeSusy
<1>6. CASE TestConvergence
  BY <1>6 DEF TestConvergence, Again
<1>7. CASE ImposeLowAgain
  BY <1>7 DEF ImposeLowAgain
<1>8. CASE SolveEwsbAtPoleScale
  <2>1. PICK solved, tree \in BOOLEAN, tachyons \in Tachyons :
          /\ problems' = EwsbSolve(problems, settings.ewsbLoops, solved, tree, tachyons)
          /\ ewsb' = solved
    BY <1>8 DEF SolveEwsbAtPoleScale, SolveEwsb, SetProblems
  <2>2. ~solved => FailureFlag \in problems'
    BY <2>1 DEF EwsbSolve, TreeLevelSolve, IterativeSolve, Flagged
  <2> QED BY <1>8, <2>1, <2>2 DEF SolveEwsbAtPoleScale
<1>9. CASE CalculateSpectrum
  <2>1. PICK tree \in BOOLEAN, tachyons \in Tachyons,
             pole \in SUBSET {"poleTachyon", "poleMass"} :
          /\ problems' = DRbarMasses(problems, tree, tachyons) \cup pole
          /\ masses' = IF KeepsSpectrum(problems') THEN "computed" ELSE "cleared"
    BY <1>9 DEF CalculateSpectrum, SetProblems
  <2>2. masses' = "computed" \/ HaveProblem(problems')
    BY <2>1 DEF KeepsSpectrum
  <2>3. FailureFlag \in problems => FailureFlag \in problems'
    BY <2>1, MassesKeepFailure DEF TypeOK, StateTypes
  <2> QED BY <1>9, <2>2, <2>3 DEF CalculateSpectrum, ghosts
<1>10. CASE RunToOutputScale
  BY <1>10 DEF RunToOutputScale, ghosts, HaveProblem
<1>11. CASE BreakDown
  BY <1>11 DEF BreakDown, Throw
<1>12. CASE Translate
  BY <1>12 DEF Translate, ghosts
<1>13. CASE Report
  BY <1>13 DEF Report, ghosts, model, HaveProblem
<1> QED
  BY <1>0, <1>1, <1>2, <1>3, <1>4, <1>5, <1>6, <1>7, <1>8, <1>9, <1>10, <1>11, <1>12, <1>13
  DEF Next, RunStep, Solve

LEMMA SpectrumStateInvariant ==
  ASSUME CustomTreeSolver \/ 0 \notin EwsbLoops
  PROVE  Spec => []SpectrumState
<1>1. Init => SpectrumState
  BY DEF Init, SpectrumState
<1>2. TypeOK /\ SpectrumState /\ [Next]_vars => SpectrumState'
  BY SpectrumStep
<1> QED BY <1>1, <1>2, TypeCorrect, PTL DEF Spec

\* A run that reports no problem hands out the masses of a model that breaks
\* the electroweak symmetry, at the scale asked for.  This needs a tree-level
\* solution that later tree-level spectra keep, or loop orders above zero.
THEOREM CleanMeansSpectrumInvariant ==
  ASSUME CustomTreeSolver \/ 0 \notin EwsbLoops, "NoConvergence" \notin QedQcdErrors
  PROVE  Spec => []CleanMeansSpectrum
<1>1. RunState /\ SpectrumState => CleanMeansSpectrum
  BY DEF RunState, SpectrumState, CleanMeansSpectrum, Clean, ReportsProblem
<1> QED BY <1>1, RunStateInvariant, SpectrumStateInvariant, PTL

(***************************************************************************)
(* The iteration that reported problems are from.                          *)
(***************************************************************************)

\* What QedQcd::to() throws before the model is cleared.
LeftByQedQcd == threw /\ exception = "NonPerturbativeRunningQedQcd"

\* From the set-up on, the problems of the model were raised since the last
\* iteration began.
RaisedState ==
  /\ pc \in Solving => problems \subseteq raised
  /\ pc \in {"catch", "report"} /\ ~LeftByQedQcd => problems \subseteq raised
  /\ pc = "done" /\ ~LeftByQedQcd => reported \subseteq raised
  /\ pc = "catch" => threw

\* What a step adds to the problems it counts as raised.
LEMMA SetProblemsRaised ==
  ASSUME NEW p, SetProblems(p), problems \subseteq raised
  PROVE  problems' \subseteq raised'
BY DEF SetProblems

LEMMA RaisedStep ==
  ASSUME "NoConvergence" \notin QedQcdErrors, RaisedState, [Next]_vars
  PROVE  RaisedState'
<1> USE DEF RaisedState, Solving, LeftByQedQcd
<1>0. CASE UNCHANGED vars
  BY <1>0 DEF vars, model, result, ghosts
<1>1. ASSUME NEW s \in Settings, Run(s) PROVE RaisedState'
  BY <1>1 DEF Run
<1>2. CASE QedQcdTo
  BY <1>2, GeneratorAssumption DEF QedQcdTo, Throw
<1>3. CASE SetUp
  BY <1>3 DEF SetUp, ClearModel
<1>4. CASE Guess
  <2>1. problems' \subseteq raised'
    BY <1>4, SetProblemsRaised DEF Guess
  <2> QED BY <1>4, <2>1 DEF Guess, Again
<1>5. CASE BeginIteration
  BY <1>5 DEF BeginIteration, ClearProblems
<1>6. CASE ImposeLow \/ ImposeHigh \/ ImposeLowAgain
  <2>1. problems' \subseteq raised'
    BY <1>6, SetProblemsRaised DEF ImposeLow, ImposeHigh, ImposeLowAgain, LowConstraint
  <2> QED BY <1>6, <2>1 DEF ImposeLow, ImposeHigh, ImposeLowAgain
<1>7. CASE ImposeSusy \/ SolveEwsbAtPoleScale
  <2>1. problems' \subseteq raised'
    BY <1>7, SetProblemsRaised DEF ImposeSusy, SolveEwsbAtPoleScale, SolveEwsb
  <2> QED BY <1>7, <2>1 DEF ImposeSusy, SolveEwsbAtPoleScale
<1>8. CASE TestConvergence
  BY <1>8 DEF TestConvergence, Again, model
<1>9. CASE CalculateSpectrum
  <2>1. problems' \subseteq raised'
    BY <1>9, SetProblemsRaised DEF CalculateSpectrum
  <2> QED BY <1>9, <2>1 DEF CalculateSpectrum
<1>10. CASE RunToOutputScale
  BY <1>10 DEF RunToOutputScale
<1>11. CASE BreakDown
  <2>1. problems \subseteq raised
    BY <1>11 DEF BreakDown
  <2>2. problems' \subseteq raised'
    BY <1>11, <2>1, SetProblemsRaised DEF BreakDown
  <2> QED BY <1>11, <2>2 DEF BreakDown, Throw
<1>12. CASE Translate
  <2>1. problems \subseteq raised => problems' \subseteq raised'
    BY <1>12, SetProblemsRaised DEF Translate
  <2> QED BY <1>12, <2>1 DEF Translate, ghosts
<1>13. CASE Report
  BY <1>13 DEF Report, ghosts, model
<1> QED
  BY <1>0, <1>1, <1>2, <1>3, <1>4, <1>5, <1>6, <1>7, <1>8, <1>9, <1>10, <1>11, <1>12, <1>13
  DEF Next, RunStep, Solve

\* Whatever a run reports was raised in its last iteration or after it, unless
\* QedQcd::to() ended the run before the model was cleared.
THEOREM ReportsLastIterationInvariant ==
  ASSUME "NoConvergence" \notin QedQcdErrors
  PROVE  Spec => []ReportsLastIteration
<1>1. Init => RaisedState
  BY DEF Init, RaisedState, Solving
<1>2. RaisedState /\ [Next]_vars => RaisedState'
  BY RaisedStep
<1>3. RaisedState => ReportsLastIteration
  BY DEF RaisedState, LeftByQedQcd, ReportsLastIteration
<1> QED BY <1>1, <1>2, <1>3, PTL DEF Spec
==============================================================================

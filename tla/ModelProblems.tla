---------------------------- MODULE ModelProblems ----------------------------
(***************************************************************************)
(* The problems a model reports (class Problems) as a set of kinds, and    *)
(* what the operations of a model do with them: the tree-level spectrum,   *)
(* the EWSB solver, the pole masses and the translation of an exception.   *)
(* Which particle or parameter is concerned, and the text of an exception, *)
(* is left out.                                                            *)
(***************************************************************************)
CONSTANT
  CustomTreeSolver  \* calculate_DRbar_masses() solves the tree-level EWSB
                    \* equations by solve_ewsb_tree_level_custom(), for the
                    \* soft Higgs masses, instead of solve_ewsb_tree_level()

ASSUME ProblemsAssumption == CustomTreeSolver \in BOOLEAN

EwsbProblems == {"ewsb", "ewsbTreeLevel"}
Problems == EwsbProblems \cup
  {"runningTachyon", "poleTachyon", "nonPerturbative", "nonPerturbativePar",
   "sinThetaW", "poleMass", "thrown"}

HaveProblem(problems) == problems # {}

\* flag_X() and unflag_X()
Flagged(problems, kind, on) == IF on THEN problems \cup {kind} ELSE problems \ {kind}

-----------------------------------------------------------------------------
(* Electroweak symmetry breaking.  solved: the equations have a solution.  *)

\* solve_tree_level(), when the equations have an analytic solution
TreeLevelSolve(problems, solved) == Flagged(problems, "ewsbTreeLevel", ~solved)

\* The RAII guard restores the tree-level flag from problems.no_ewsb().
IgnoringFailures(problems, solved) ==
  Flagged(TreeLevelSolve(problems \ {"ewsbTreeLevel"}, solved),
          "ewsbTreeLevel", "ewsb" \in problems)

\* Running tachyons are only ever flagged here, never unflagged.
DRbarMasses(problems, solved, tachyons) ==
  (IF CustomTreeSolver THEN problems ELSE IgnoringFailures(problems, solved))
    \cup tachyons

\* Mutant: a solution found does not take an earlier report back.
IterativeSolveFlagging(problems, solved, tree, tachyons) ==
  DRbarMasses(problems, tree, tachyons) \cup (IF solved THEN {} ELSE {"ewsb"})

\* set_ewsb_solution() and set_best_ewsb_solution() recalculate the tree-level
\* spectrum before the flag changes.
IterativeSolve(problems, solved, tree, tachyons) ==
  Flagged(DRbarMasses(problems, tree, tachyons), "ewsb", ~solved)

\* Mutant: the solver returns its status and flags nothing.
EwsbStatusOnly(problems, loops, solved, tree, tachyons) ==
  IF loops = 0 THEN problems ELSE DRbarMasses(problems, tree, tachyons)

EwsbSolve(problems, loops, solved, tree, tachyons) ==
  IF loops = 0 THEN TreeLevelSolve(problems, solved)
  ELSE IterativeSolve(problems, solved, tree, tachyons)

-----------------------------------------------------------------------------
(* An exception that leaves the calculation.                               *)

\* NoSinThetaWConvergenceError is caught where it is thrown.
Exceptions == {"NoConvergence", "NonPerturbativeRunning",
               "NonPerturbativeRunningQedQcd", "Error"}

ProblemsOf(exception) ==
  CASE exception = "NoConvergence" -> {}
    [] exception = "NonPerturbativeRunning" -> {"nonPerturbative", "nonPerturbativePar"}
    [] exception = "NonPerturbativeRunningQedQcd" -> {"nonPerturbative", "thrown"}
    [] exception = "Error" -> {"thrown"}
==============================================================================

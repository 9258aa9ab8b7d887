------------------------------ MODULE EwsbSolver ------------------------------
(***************************************************************************)
(* The EWSB solver of a model: it tries several numeric solvers, fixed-    *)
(* point iterations and root finders, one after the other from the same    *)
(* guess, until one succeeds.  If none does, the parameters with the       *)
(* smallest tadpoles are set and the problem "no EWSB" is flagged.         *)
(*                                                                         *)
(* Data.  The EWSB output parameters are a point of a grid whose distance  *)
(* stands for the relative or absolute difference.  The equations of the   *)
(* model are the functions step and total, chosen freely at the beginning; *)
(* what changes them between two calls, a running to another scale, is     *)
(* left out.  The tree-level equations have an analytic solution.          *)
(***************************************************************************)
EXTENDS Integers, Sequences, ModelProblems

CONSTANTS
  Points,      \* values of the EWSB output parameters
  NoPoint,     \* ewsb_step() throws EEWSBStepFailed
  Totals, NaN, \* sums of absolute tadpoles; not a number
  Tachyonic,   \* the points with a running tachyon
  Chains,      \* lists of numeric solvers a model may be generated with
  Loops,       \* loop orders of the EWSB equations
  MaxIts,      \* values of number_of_iterations
  Precision,   \* the precision goal on the grid
  Goal,        \* the precision goal for tadpoles
  MaxCalls     \* bound: calls of solve()

SolverKinds == {"relative", "absolute", "tadpole", "root"}

ASSUME EwsbAssumption ==
  /\ Points \subseteq Int /\ NoPoint \notin Points /\ Tachyonic \subseteq Points
  /\ Totals \subseteq Nat /\ NaN \notin Totals
  /\ Chains \subseteq Seq(SolverKinds) \ {<< >>}
  /\ Loops \subseteq Nat /\ MaxIts \subseteq Nat
  /\ Precision \in Nat /\ Goal \in Nat /\ MaxCalls \in Nat

VARIABLES
  step,        \* ewsb_step(): the next point, or an exception
  total,       \* Total(Abs(Re(tadpole_equations())))
  chain,       \* solvers[] of solve_iteratively()
  maxIt,       \* number_of_iterations
  pc,          \* where solve() is
  params,      \* EWSB output parameters of model_to_solve
  problems,    \* its problems
  guess,       \* x_init
  iter, xn, x, \* the numeric solver: iterations, previous and present point
  solutions,   \* get_solution() of the solvers that have been tried
  best,        \* min_element(): position of the best solution so far
  compared,    \* min_element(): number of solutions looked at
  status,      \* "none", "success" or "fail"
  loops,       \* the loop order of the call
  before,      \* ghost: problems when solve() was called
  calls

generated == <<step, total, chain, maxIt>>
model == <<params, problems>>
numeric == <<iter, xn, x>>
choice == <<best, compared>>
call == <<guess, loops, before, calls>>
vars == <<generated, model, numeric, solutions, choice, call, pc, status>>

\* Tadpoles that are not a number leave no finite step.
Init ==
  /\ step \in [Points -> Points \cup {NoPoint}]
  /\ total \in [Points -> Totals \cup {NaN}]
  /\ \A p \in Points : total[p] = NaN => step[p] = NoPoint
  /\ chain \in Chains /\ maxIt \in MaxIts
  /\ pc = "idle" /\ params \in Points /\ problems = {}
  /\ guess = params /\ iter = 0 /\ xn = params /\ x = params
  /\ solutions = << >> /\ best = 1 /\ compared = 0
  /\ status = "none" /\ loops = 0 /\ before = {} /\ calls = 0

-----------------------------------------------------------------------------
(* solve()                                                                 *)

\* solve_tree_level(): a solution that is not finite is not set.
SolveTreeLevel ==
  /\ pc = "idle" /\ calls < MaxCalls /\ calls' = calls + 1
  /\ 0 \in Loops /\ loops' = 0 /\ before' = problems
  /\ \/ /\ params' \in Points /\ status' = "success"
        /\ problems' = TreeLevelSolve(problems, TRUE)
     \/ /\ UNCHANGED params /\ status' = "fail"
        /\ problems' = TreeLevelSolve(problems, FALSE)
  /\ solutions' = << >> /\ pc' = "done"
  /\ UNCHANGED <<generated, numeric, choice, guess>>

\* solve_iteratively(): the guess is taken from the model once.
SolveIteratively(l) ==
  /\ pc = "idle" /\ calls < MaxCalls /\ calls' = calls + 1
  /\ l # 0 /\ loops' = l /\ before' = problems
  /\ guess' = params
  /\ solutions' = << >> /\ status' = "none" /\ pc' = "start"
  /\ UNCHANGED <<generated, model, numeric, choice>>

Solver == chain[Len(solutions) + 1]

\* find_fixed_point() and find_root() begin at the guess.
StartSolver ==
  /\ pc = "start" /\ pc' = "iterate"
  /\ iter' = 0 /\ xn' = guess /\ x' = guess
  /\ UNCHANGED <<generated, model, solutions, choice, call, status>>

\* Mutant: a solver that failed is started again.
EndSolverAgain(p, ok) ==
  \/ /\ ok /\ pc' = "set" /\ status' = "success"
     /\ solutions' = Append(solutions, p) /\ UNCHANGED choice
  \/ ~ok /\ pc' = "start" /\ UNCHANGED <<solutions, status, choice>>

\* The next solver is tried, unless this one succeeded or was the last.
EndSolver(p, ok) ==
  /\ solutions' = Append(solutions, p)
  /\ \/ ok /\ pc' = "set" /\ status' = "success" /\ UNCHANGED choice
     \/ /\ ~ok /\ Len(solutions) + 1 < Len(chain)
        /\ pc' = "start" /\ UNCHANGED <<status, choice>>
     \/ /\ ~ok /\ Len(solutions) + 1 = Len(chain)
        /\ pc' = "best" /\ status' = "fail" /\ best' = 1 /\ compared' = 1

\* Mutant: one iteration too many.
ContinueOnceMore(p, ok, n) ==
  IF ok \/ n > maxIt THEN EndSolver(p, ok)
  ELSE UNCHANGED <<pc, status, solutions, choice>>

\* Mutant: a solver that ran out of iterations has not failed.
ContinueUnlessStopped(p, ok, n) ==
  IF ok \/ n >= maxIt THEN EndSolver(p, TRUE)
  ELSE UNCHANGED <<pc, status, solutions, choice>>

\* while (status == GSL_CONTINUE && iter < max_iterations), after n iterations
Continue(p, ok, n) ==
  IF ok \/ n >= maxIt THEN EndSolver(p, ok)
  ELSE UNCHANGED <<pc, status, solutions, choice>>

Distance(a, b) == IF a < b THEN b - a ELSE a - b

\* The convergence testers; NaN is below no goal.
TadpolesVanish(p) == total[p] # NaN /\ total[p] < Goal

Converged(kind, p, last) ==
  \/ kind = "relative" /\ Distance(p, last) <= Precision
  \/ kind = "absolute" /\ Distance(p, last) < Precision
  \/ /\ kind = "tadpole" /\ Distance(p, last) <= Precision
     /\ p = last \/ TadpolesVanish(p)

\* Mutant: the trial works on the model itself instead of on a copy.
TrialFlags(p) == problems' = problems \cup (IF p \in Tachyonic THEN {"runningTachyon"} ELSE {})

\* The tree-level spectrum of a trial is calculated for a copy of the model.
Trial(p) == UNCHANGED problems

\* One step of the fixed-point iteration; if it throws, the point stays.
IterateFixedPoint ==
  /\ pc = "iterate" /\ Solver # "root"
  /\ iter' = iter + 1 /\ xn' = x
  /\ Trial(x)
  /\ \/ step[x] = NoPoint /\ UNCHANGED x /\ EndSolver(x, FALSE)
     \/ /\ step[x] # NoPoint /\ x' = step[x]
        /\ Continue(step[x], Converged(Solver, step[x], x), iter + 1)
  /\ UNCHANGED <<generated, params, call>>

\* One step of a root finder of GSL: it is stuck, or finds a point where the
\* tadpoles are numbers.
IterateRoot ==
  /\ pc = "iterate" /\ Solver = "root"
  /\ iter' = iter + 1 /\ UNCHANGED xn
  /\ \E p \in Points :
       /\ x' = p /\ Trial(p)
       /\ \/ EndSolver(p, FALSE)
          \/ total[p] # NaN /\ Continue(p, TadpolesVanish(p), iter + 1)
  /\ UNCHANGED <<generated, params, call>>

\* set_ewsb_solution(): the parameters, then the tree-level spectrum.
SetParameters(p) ==
  /\ params' = p
  /\ \E tree \in BOOLEAN :
       problems' = DRbarMasses(problems, tree, {"runningTachyon" : q \in {p} \cap Tachyonic})

SetSolution ==
  /\ pc = "set" /\ pc' = "verdict"
  /\ SetParameters(solutions[Len(solutions)])
  /\ UNCHANGED <<generated, numeric, solutions, choice, call, status>>

\* Mutant: the comparison the other way round.
Worse(a, b) == total[a] # NaN /\ total[b] # NaN /\ total[a] > total[b]

\* The comparison of min_element(); false for what is not a number.
Better(a, b) == total[a] # NaN /\ total[b] # NaN /\ total[a] < total[b]

CompareSolution ==
  /\ pc = "best" /\ compared < Len(solutions)
  /\ compared' = compared + 1
  /\ best' = IF Better(solutions[compared + 1], solutions[best]) THEN compared + 1 ELSE best
  /\ UNCHANGED <<generated, model, numeric, solutions, call, pc, status>>

SetBestSolution ==
  /\ pc = "best" /\ compared = Len(solutions) /\ pc' = "verdict"
  /\ SetParameters(solutions[best])
  /\ UNCHANGED <<generated, numeric, solutions, choice, call, status>>

\* Mutant: a success leaves the flag of an earlier failure.
VerdictOfFailure ==
  /\ pc = "verdict" /\ pc' = "done"
  /\ problems' = IF status = "fail" THEN problems \cup {"ewsb"} ELSE problems
  /\ UNCHANGED <<generated, params, numeric, solutions, choice, call, status>>

\* flag_no_ewsb() or unflag_no_ewsb()
Verdict ==
  /\ pc = "verdict" /\ pc' = "done"
  /\ problems' = Flagged(problems, "ewsb", status = "fail")
  /\ UNCHANGED <<generated, params, numeric, solutions, choice, call, status>>

Return ==
  /\ pc = "done" /\ pc' = "idle"
  /\ UNCHANGED <<generated, model, numeric, solutions, choice, call, status>>

SolveStep ==
  \/ StartSolver \/ IterateFixedPoint \/ IterateRoot \/ SetSolution
  \/ CompareSolution \/ SetBestSolution \/ Verdict \/ Return

Next == SolveTreeLevel \/ (\E l \in Loops : SolveIteratively(l)) \/ SolveStep

\* solve() is executed step by step; nobody has to call it.
Spec == Init /\ [][Next]_vars /\ WF_vars(SolveStep)

-----------------------------------------------------------------------------
\* Types; the iterations stay within their maximum, which is one at least.
TypeOK ==
  /\ step \in [Points -> Points \cup {NoPoint}] /\ total \in [Points -> Totals \cup {NaN}]
  /\ chain \in Chains /\ maxIt \in MaxIts
  /\ pc \in {"idle", "start", "iterate", "set", "best", "verdict", "done"}
  /\ {params, guess, xn, x} \subseteq Points /\ solutions \in Seq(Points)
  /\ problems \subseteq Problems /\ before \subseteq Problems
  /\ iter \in Nat /\ (iter <= maxIt \/ iter <= 1)
  /\ best \in Nat /\ compared \in Nat
  /\ status \in {"none", "success", "fail"}
  /\ loops \in Loops \cup {0} /\ calls \in 0..MaxCalls

Returned == pc = "done" /\ loops # 0

\* A call that succeeds leaves the parameters where the first solver of the
\* chain that succeeded stopped: a root finder where the tadpoles vanish, a
\* fixed-point iteration after a step that its tester accepts.
SuccessSolves ==
  Returned /\ status = "success" =>
    /\ params = x /\ solutions[Len(solutions)] = x
    /\ LET kind == chain[Len(solutions)] IN
         IF kind = "root" THEN TadpolesVanish(params)
         ELSE params = step[xn] /\ Converged(kind, params, xn)

\* Trial points leave no trace: a tachyon that the model has after the call and
\* had not before is one of the point that is set, not of a point tried.
TrialsLeaveNoTrace ==
  Returned /\ "runningTachyon" \in problems \ before => params \in Tachyonic

\* What the spectrum generator takes solve() for: a failure is flagged, a
\* success takes an earlier flag back, at the loop order of the call.
SolvesAsPromised ==
  pc = "done" =>
    \E tree \in BOOLEAN, tachyons \in SUBSET {"runningTachyon"} :
      problems = EwsbSolve(before, loops, status = "success", tree, tachyons)

\* "set EWSB output parameters from the solver which minimizes the tadpole
\* equations": when every solver fails, no other solution has smaller tadpoles
\* than the one that is set, unless the first one's are not a number.
BestOfNumbers ==
  Returned /\ status = "fail" /\ total[solutions[1]] # NaN =>
    /\ total[params] # NaN
    /\ \A i \in DOMAIN solutions :
         total[solutions[i]] # NaN => total[params] <= total[solutions[i]]

\* ... and without exception: a solution with tadpoles is better than one
\* whose tadpoles are not a number.
BestOfAll ==
  Returned /\ status = "fail" =>
    \A i \in DOMAIN solutions :
      total[solutions[i]] # NaN =>
        total[params] # NaN /\ total[params] <= total[solutions[i]]

\* solve() returns.
SolveReturns == pc = "start" ~> pc = "done"
==============================================================================

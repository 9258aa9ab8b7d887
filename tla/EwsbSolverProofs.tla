-------------------------- MODULE EwsbSolverProofs --------------------------
(***************************************************************************)
(* What holds of the EWSB solver for every grid, every equations and every *)
(* chain of numeric solvers.                                               *)
(***************************************************************************)
EXTENDS EwsbSolver, TLAPS

\* Where solve() is, the lists it walks along have an element to look at.
Shape ==
  /\ TypeOK
  /\ pc \in {"start", "iterate"} => Len(solutions) < Len(chain)
  /\ pc = "iterate" => iter = 0 \/ iter < maxIt
  /\ pc \in {"set", "best"} => Len(solutions) >= 1
  /\ pc = "best" => best \in 1..compared /\ compared \in 1..Len(solutions)

TachyonsAt(p) == {"runningTachyon" : q \in {p} \cap Tachyonic}

\* The problems are those before the call until the parameters are set, and
\* then those of the tree-level spectrum at these parameters.
Untouched ==
  /\ pc \notin {"idle", "done"} => loops # 0
  /\ pc \in {"start", "iterate", "set", "best"} => problems = before
  /\ pc = "verdict" =>
       \E tree \in BOOLEAN : problems = DRbarMasses(before, tree, TachyonsAt(params))
  /\ pc = "done" =>
       \/ loops = 0 /\ problems = TreeLevelSolve(before, status = "success")
       \/ /\ loops # 0
          /\ \E tree \in BOOLEAN :
               problems = IterativeSolve(before, status = "success", tree, TachyonsAt(params))

\* The point where a solver of this kind stops when it succeeds.
SolvedBy(kind, p) ==
  IF kind = "root" THEN TadpolesVanish(p) ELSE p = step[xn] /\ Converged(kind, p, xn)

\* The status belongs to the last solution.
Solved ==
  /\ pc = "set" => status = "success"
  /\ pc = "best" => status = "fail"
  /\ pc = "verdict" => status \in {"success", "fail"}
  /\ pc = "set" \/ ((pc = "verdict" \/ Returned) /\ status = "success") =>
       /\ solutions[Len(solutions)] = x
       /\ SolvedBy(chain[Len(solutions)], x)
  /\ (pc = "verdict" \/ Returned) /\ status = "success" => params = x

\* p has the smallest tadpoles of the first n solutions that have any, unless
\* the first of them has none.
BestOfFirst(p, n) ==
  total[solutions[1]] # NaN =>
    /\ total[p] # NaN
    /\ \A i \in 1..n : total[solutions[i]] # NaN => total[p] <= total[solutions[i]]

BestSoFar ==
  /\ pc = "best" => BestOfFirst(solutions[best], compared)
  /\ (pc = "verdict" \/ Returned) /\ status = "fail" =>
       BestOfFirst(params, Len(solutions))

IInv == Shape /\ Untouched /\ Solved /\ BestSoFar

-----------------------------------------------------------------------------
(* Helpers.                                                                *)

\* The kinds of problems the tree-level spectrum and the solver flag.
LEMMA ProblemTypes ==
  ASSUME NEW P \in SUBSET Problems, NEW solved \in BOOLEAN, NEW tree \in BOOLEAN,
         NEW T \in SUBSET {"runningTachyon"}
  PROVE  /\ TreeLevelSolve(P, solved) \in SUBSET Problems
         /\ DRbarMasses(P, tree, T) \in SUBSET Problems
         /\ Flagged(P, "ewsb", solved) \in SUBSET Problems
<1>1. /\ {"ewsb", "ewsbTreeLevel", "runningTachyon"} \subseteq Problems
  BY DEF Problems, EwsbProblems
<1> QED BY <1>1 DEF TreeLevelSolve, DRbarMasses, IgnoringFailures, Flagged

\* A chain is a list of at least one numeric solver.
LEMMA ChainType ==
  ASSUME TypeOK
  PROVE  chain \in Seq(SolverKinds) /\ Len(chain) \in Nat /\ Len(chain) >= 1
<1>1. chain \in Seq(SolverKinds) /\ chain # << >>
  BY EwsbAssumption DEF TypeOK
<1> QED BY <1>1

\* Setting the parameters: a point of the grid, and no problems of other kinds.
LEMMA SetParametersType ==
  ASSUME TypeOK, NEW p \in Points, SetParameters(p)
  PROVE  /\ params' \in Points /\ params' = p
         /\ problems' \in SUBSET Problems
         /\ \E tree \in BOOLEAN : problems' = DRbarMasses(problems, tree, TachyonsAt(p))
<1>1. PICK tree \in BOOLEAN : problems' = DRbarMasses(problems, tree, TachyonsAt(p))
  BY DEF SetParameters, TachyonsAt
<1>2. TachyonsAt(p) \in SUBSET {"runningTachyon"}
  BY DEF TachyonsAt
<1>3. problems \in SUBSET Problems
  BY DEF TypeOK
<1>4. problems' \in SUBSET Problems
  BY <1>1, <1>2, <1>3, ProblemTypes
<1> QED BY <1>1, <1>4 DEF SetParameters

\* A step of the numeric solver: where it is then, and that it ends with
\* success only at a solution.
LEMMA Iteration ==
  ASSUME Shape, IterateFixedPoint \/ IterateRoot
  PROVE  \E p \in Points, ok \in BOOLEAN :
           /\ pc = "iterate" /\ x' = p /\ xn' \in Points /\ iter' = iter + 1
           /\ UNCHANGED <<generated, params, problems, call>>
           /\ Continue(p, ok, iter + 1) \/ EndSolver(p, FALSE)
           /\ ok => IF Solver = "root" THEN TadpolesVanish(p)
                    ELSE p = step[x] /\ xn' = x /\ Converged(Solver, p, x)
<1>1. /\ x \in Points /\ xn \in Points
      /\ step \in [Points -> Points \cup {NoPoint}]
  BY DEF Shape, TypeOK
<1>2. CASE IterateFixedPoint
  <2>1. /\ pc = "iterate" /\ Solver # "root" /\ xn' = x /\ iter' = iter + 1
        /\ UNCHANGED <<generated, params, problems, call>>
    BY <1>2 DEF IterateFixedPoint, Trial
  <2>2. CASE step[x] = NoPoint /\ UNCHANGED x /\ EndSolver(x, FALSE)
    BY <1>1, <2>1, <2>2
  <2>3. CASE /\ step[x] # NoPoint /\ x' = step[x]
             /\ Continue(step[x], Converged(Solver, step[x], x), iter + 1)
    <3>1. step[x] \in Points
      BY <1>1, <2>3
    <3>2. Converged(Solver, step[x], x) \in BOOLEAN
      BY DEF Converged
    <3> QED BY <1>1, <2>1, <2>3, <3>1, <3>2
  <2> QED BY <1>2, <2>2, <2>3 DEF IterateFixedPoint
<1>3. CASE IterateRoot
  <2>1. /\ pc = "iterate" /\ Solver = "root" /\ xn' = xn /\ iter' = iter + 1
    BY <1>3 DEF IterateRoot
  <2>2. PICK p \in Points :
          /\ x' = p /\ Trial(p)
          /\ \/ EndSolver(p, FALSE)
             \/ total[p] # NaN /\ Continue(p, TadpolesVanish(p), iter + 1)
          /\ UNCHANGED <<generated, params, call>>
    BY <1>3 DEF IterateRoot
  <2>3. TadpolesVanish(p) \in BOOLEAN
    BY DEF TadpolesVanish
  <2>4. UNCHANGED <<generated, params, problems, call>>
    BY <2>2 DEF Trial
  <2>5. Continue(p, TadpolesVanish(p), iter + 1) \/ EndSolver(p, FALSE)
    BY <2>2
  <2>6. xn' \in Points
    BY <1>1, <2>1
  <2> WITNESS p \in Points, TadpolesVanish(p) \in BOOLEAN
  <2> QED BY <2>1, <2>2, <2>4, <2>5, <2>6
<1> QED BY <1>2, <1>3

-----------------------------------------------------------------------------
(* The shape.                                                              *)

\* Where a numeric solver goes on or ends.
LEMMA ContinueShape ==
  ASSUME Shape, pc = "iterate", NEW p \in Points, NEW ok \in BOOLEAN,
         Continue(p, ok, iter + 1) \/ EndSolver(p, FALSE),
         UNCHANGED <<generated, call>>, iter' = iter + 1
  PROVE  /\ solutions' \in Seq(Points)
         /\ pc' \in {"start", "iterate", "set", "best"}
         /\ status' \in {"none", "success", "fail"}
         /\ best' \in Nat /\ compared' \in Nat
         /\ pc' \in {"start", "iterate"} => Len(solutions') < Len(chain')
         /\ pc' = "iterate" => iter' < maxIt'
         /\ pc' \in {"set", "best"} => Len(solutions') >= 1
         /\ pc' = "best" => best' \in 1..compared' /\ compared' \in 1..Len(solutions')
<1>1. /\ solutions \in Seq(Points) /\ Len(solutions) \in Nat
      /\ Len(solutions) < Len(chain) /\ Len(chain) \in Nat
      /\ iter \in Nat /\ maxIt \in Nat /\ best \in Nat /\ compared \in Nat
      /\ status \in {"none", "success", "fail"}
  BY ChainType, EwsbAssumption DEF Shape, TypeOK
<1>2. chain' = chain /\ maxIt' = maxIt
  BY DEF generated
<1>3. /\ Append(solutions, p) \in Seq(Points)
      /\ Len(Append(solutions, p)) = Len(solutions) + 1
  BY <1>1
<1>4. ASSUME NEW b \in BOOLEAN, EndSolver(p, b)
      PROVE  /\ solutions' \in Seq(Points) /\ Len(solutions') = Len(solutions) + 1
             /\ \/ pc' = "set" /\ status' = "success" /\ best' = best /\ compared' = compared
                \/ /\ pc' = "start" /\ Len(solutions) + 1 < Len(chain)
                   /\ status' = status /\ best' = best /\ compared' = compared
                \/ pc' = "best" /\ status' = "fail" /\ best' = 1 /\ compared' = 1
  BY <1>4, <1>3 DEF EndSolver, choice
<1>5. CASE \E b \in BOOLEAN : EndSolver(p, b)
  <2>1. PICK b \in BOOLEAN : EndSolver(p, b)
    BY <1>5
  <2>2. /\ solutions' \in Seq(Points) /\ Len(solutions') = Len(solutions) + 1
        /\ \/ pc' = "set" /\ status' = "success" /\ best' = best /\ compared' = compared
           \/ /\ pc' = "start" /\ Len(solutions) + 1 < Len(chain)
              /\ status' = status /\ best' = best /\ compared' = compared
           \/ pc' = "best" /\ status' = "fail" /\ best' = 1 /\ compared' = 1
    BY <1>4, <2>1
  <2>3. CASE pc' = "set"
    BY <1>1, <1>2, <2>2, <2>3
  <2>4. CASE pc' = "start"
    BY <1>1, <1>2, <2>2, <2>4
  <2>5. CASE pc' = "best"
    BY <1>1, <1>2, <2>2, <2>5
  <2> QED BY <2>2, <2>3, <2>4, <2>5
<1>6. CASE ~(\E b \in BOOLEAN : EndSolver(p, b))
  <2>1. ~EndSolver(p, ok) /\ ~EndSolver(p, FALSE)
    BY <1>6
  <2>2. ~(iter + 1 >= maxIt) /\ UNCHANGED <<pc, status, solutions, choice>>
    BY <2>1 DEF Continue
  <2>3. iter + 1 < maxIt
    BY <1>1, <2>2
  <2> QED BY <1>1, <1>2, <2>2, <2>3 DEF choice, Shape
<1> QED BY <1>5, <1>6

LEMMA InitShape == Init => Shape
<1> SUFFICES ASSUME Init PROVE Shape
  OBVIOUS
<1>1. {} \subseteq Problems /\ << >> \in Seq(Points) /\ MaxIts \subseteq Nat /\ MaxCalls \in Nat
  BY EwsbAssumption
<1>2. TypeOK
  BY <1>1 DEF Init, TypeOK
<1> QED BY <1>2 DEF Init, Shape

LEMMA ShapeStep == Shape /\ [Next]_vars => Shape'
<1> SUFFICES ASSUME Shape, [Next]_vars PROVE Shape'
  OBVIOUS
<1> USE EwsbAssumption DEF Shape
<1>1. CASE SolveTreeLevel
  <2>1. problems' \in SUBSET Problems
    <3>1. PICK solved \in BOOLEAN : problems' = TreeLevelSolve(problems, solved)
      BY <1>1 DEF SolveTreeLevel
    <3>2. problems \in SUBSET Problems /\ {} \in SUBSET {"runningTachyon"}
      BY DEF TypeOK
    <3>3. TreeLevelSolve(problems, solved) \in SUBSET Problems
      BY <3>2, ProblemTypes, Zenon
    <3> QED BY <3>1, <3>3
  <2>2. params' \in Points /\ status' \in {"success", "fail"} /\ pc' = "done"
    BY <1>1 DEF SolveTreeLevel, TypeOK
  <2>3. calls' \in 0..MaxCalls /\ loops' = 0 /\ before' \in SUBSET Problems
    BY <1>1 DEF SolveTreeLevel, TypeOK
  <2>4. UNCHANGED <<generated, numeric, choice, guess>> /\ solutions' = << >>
    BY <1>1 DEF SolveTreeLevel
  <2>5. TypeOK'
    BY <2>1, <2>2, <2>3, <2>4 DEF TypeOK, generated, numeric, choice
  <2> QED BY <2>2, <2>5
<1>2. ASSUME NEW l \in Loops, SolveIteratively(l) PROVE Shape'
  <2>1. TypeOK'
    BY <1>2 DEF SolveIteratively, TypeOK, generated, model, numeric, choice
  <2>2. Len(solutions') < Len(chain')
    BY <1>2, ChainType DEF SolveIteratively, generated
  <2> QED BY <1>2, <2>1, <2>2 DEF SolveIteratively
<1>3. CASE StartSolver
  <2>1. TypeOK'
    BY <1>3 DEF StartSolver, TypeOK, generated, model, choice, call
  <2> QED BY <1>3, <2>1 DEF StartSolver, generated
<1>4. CASE IterateFixedPoint \/ IterateRoot
  <2>1. PICK p \in Points, ok \in BOOLEAN :
          /\ pc = "iterate" /\ x' = p /\ xn' \in Points /\ iter' = iter + 1
          /\ UNCHANGED <<generated, params, problems, call>>
          /\ Continue(p, ok, iter + 1) \/ EndSolver(p, FALSE)
    BY <1>4, Iteration
  <2>2. /\ solutions' \in Seq(Points)
        /\ pc' \in {"start", "iterate", "set", "best"}
        /\ status' \in {"none", "success", "fail"}
        /\ best' \in Nat /\ compared' \in Nat
        /\ pc' \in {"start", "iterate"} => Len(solutions') < Len(chain')
        /\ pc' = "iterate" => iter' < maxIt'
        /\ pc' \in {"set", "best"} => Len(solutions') >= 1
        /\ pc' = "best" => best' \in 1..compared' /\ compared' \in 1..Len(solutions')
    BY <2>1, ContinueShape
  <2>3. iter' \in Nat /\ (iter' <= maxIt' \/ iter' <= 1)
    BY <2>1 DEF TypeOK, generated
  <2>4. TypeOK'
    BY <2>1, <2>2, <2>3 DEF TypeOK, generated, call
  <2> QED BY <2>2, <2>4
<1>5. CASE SetSolution
  <2>1. solutions[Len(solutions)] \in Points
    BY <1>5 DEF SetSolution, TypeOK
  <2>2. params' \in Points /\ problems' \in SUBSET Problems
    BY <1>5, <2>1, SetParametersType DEF SetSolution
  <2>3. TypeOK'
    BY <1>5, <2>2 DEF SetSolution, TypeOK, generated, numeric, choice, call
  <2> QED BY <1>5, <2>3 DEF SetSolution
<1>6. CASE CompareSolution
  <2>1. /\ compared' = compared + 1 /\ best' \in {best, compared + 1}
        /\ compared < Len(solutions)
    BY <1>6 DEF CompareSolution
  <2>2. TypeOK'
    BY <1>6, <2>1 DEF CompareSolution, TypeOK, generated, model, numeric, call
  <2>3. best' \in 1..compared' /\ compared' \in 1..Len(solutions')
    BY <1>6, <2>1 DEF CompareSolution, TypeOK
  <2> QED BY <1>6, <2>2, <2>3 DEF CompareSolution
<1>7. CASE SetBestSolution
  <2>1. solutions[best] \in Points
    BY <1>7 DEF SetBestSolution, TypeOK
  <2>2. params' \in Points /\ problems' \in SUBSET Problems
    BY <1>7, <2>1, SetParametersType DEF SetBestSolution
  <2>3. TypeOK'
    BY <1>7, <2>2 DEF SetBestSolution, TypeOK, generated, numeric, choice, call
  <2> QED BY <1>7, <2>3 DEF SetBestSolution
<1>8. CASE Verdict
  <2>1. problems' \in SUBSET Problems
    BY <1>8, ProblemTypes DEF Verdict, TypeOK
  <2>2. TypeOK'
    BY <1>8, <2>1 DEF Verdict, TypeOK, generated, numeric, choice, call
  <2> QED BY <1>8, <2>2 DEF Verdict
<1>9. CASE Return
  <2>1. TypeOK'
    BY <1>9 DEF Return, TypeOK, generated, model, numeric, choice, call
  <2> QED BY <1>9, <2>1 DEF Return
<1>10. CASE UNCHANGED vars
  BY <1>10 DEF vars, TypeOK, generated, model, numeric, choice, call
<1> QED BY <1>1, <1>2, <1>3, <1>4, <1>5, <1>6, <1>7, <1>8, <1>9, <1>10
        DEF Next, SolveStep

-----------------------------------------------------------------------------
(* The problems.                                                           *)

LEMMA UntouchedStep == Shape /\ Untouched /\ Solved /\ [Next]_vars => Untouched'
<1> SUFFICES ASSUME Shape, Untouched, Solved, [Next]_vars PROVE Untouched'
  OBVIOUS
<1>1. CASE SolveTreeLevel
  <2>1. pc' = "done" /\ loops' = 0 /\ before' = problems
    BY <1>1 DEF SolveTreeLevel
  <2>2. problems' = TreeLevelSolve(before', status' = "success")
    BY <1>1 DEF SolveTreeLevel, TreeLevelSolve, Flagged
  <2> QED BY <2>1, <2>2 DEF Untouched
<1>2. ASSUME NEW l \in Loops, SolveIteratively(l) PROVE Untouched'
  BY <1>2 DEF SolveIteratively, model, Untouched
<1>3. CASE StartSolver
  BY <1>3 DEF StartSolver, model, call, Untouched
<1>4. CASE IterateFixedPoint \/ IterateRoot
  <2>1. PICK p \in Points, ok \in BOOLEAN :
          /\ pc = "iterate" /\ x' = p /\ xn' \in Points /\ iter' = iter + 1
          /\ UNCHANGED <<generated, params, problems, call>>
          /\ Continue(p, ok, iter + 1) \/ EndSolver(p, FALSE)
    BY <1>4, Iteration
  <2>2. pc' \in {"start", "iterate", "set", "best"}
    BY <2>1, ContinueShape
  <2> QED BY <2>1, <2>2 DEF Untouched, call
<1>5. CASE SetSolution
  <2>1. solutions[Len(solutions)] \in Points
    BY <1>5 DEF SetSolution, Shape, TypeOK
  <2>2. /\ params' = solutions[Len(solutions)]
        /\ \E tree \in BOOLEAN : problems' = DRbarMasses(problems, tree, TachyonsAt(params'))
    BY <1>5, <2>1, SetParametersType DEF SetSolution, Shape
  <2>3. problems = before /\ before' = before /\ loops' # 0 /\ pc' = "verdict"
    BY <1>5 DEF SetSolution, call, Untouched
  <2> QED BY <2>2, <2>3 DEF Untouched
<1>6. CASE CompareSolution
  BY <1>6 DEF CompareSolution, model, call, Untouched
<1>7. CASE SetBestSolution
  <2>1. solutions[best] \in Points
    BY <1>7 DEF SetBestSolution, Shape, TypeOK
  <2>2. /\ params' = solutions[best]
        /\ \E tree \in BOOLEAN : problems' = DRbarMasses(problems, tree, TachyonsAt(params'))
    BY <1>7, <2>1, SetParametersType DEF SetBestSolution, Shape
  <2>3. problems = before /\ before' = before /\ loops' # 0 /\ pc' = "verdict"
    BY <1>7 DEF SetBestSolution, call, Untouched
  <2> QED BY <2>2, <2>3 DEF Untouched
<1>8. CASE Verdict
  <2>1. /\ pc' = "done" /\ loops' = loops /\ loops # 0
        /\ before' = before /\ params' = params /\ status' = status
    BY <1>8 DEF Verdict, call, Untouched
  <2>2. PICK tree \in BOOLEAN : problems = DRbarMasses(before, tree, TachyonsAt(params))
    BY <1>8 DEF Verdict, Untouched
  <2>3. problems' = Flagged(problems, "ewsb", status = "fail")
    BY <1>8 DEF Verdict
  <2>4. (status = "fail") = ~(status = "success")
    BY <1>8 DEF Verdict, Solved
  <2> QED BY <2>1, <2>2, <2>3, <2>4 DEF Untouched, IterativeSolve
<1>9. CASE Return
  BY <1>9 DEF Return, Untouched
<1>10. CASE UNCHANGED vars
  BY <1>10 DEF vars, model, call, Untouched
<1> QED BY <1>1, <1>2, <1>3, <1>4, <1>5, <1>6, <1>7, <1>8, <1>9, <1>10
        DEF Next, SolveStep

-----------------------------------------------------------------------------
(* The status.                                                             *)

LEMMA SolvedStep == Shape /\ Solved /\ [Next]_vars => Solved'
<1> SUFFICES ASSUME Shape, Solved, [Next]_vars PROVE Solved'
  OBVIOUS
<1> DEFINE Last == solutions[Len(solutions)] = x /\ SolvedBy(chain[Len(solutions)], x)
<1>0. ASSUME UNCHANGED <<generated, xn, x, solutions>>
      PROVE  Last' = Last
  BY <1>0 DEF generated, SolvedBy, TadpolesVanish, Converged
<1>1. CASE SolveTreeLevel
  BY <1>1 DEF SolveTreeLevel, Solved, Returned
<1>2. ASSUME NEW l \in Loops, SolveIteratively(l) PROVE Solved'
  BY <1>2 DEF SolveIteratively, Solved, Returned
<1>3. CASE StartSolver
  BY <1>3 DEF StartSolver, Solved, Returned
<1>4. CASE IterateFixedPoint \/ IterateRoot
  <2>1. PICK p \in Points, ok \in BOOLEAN :
          /\ pc = "iterate" /\ x' = p /\ xn' \in Points /\ iter' = iter + 1
          /\ UNCHANGED <<generated, params, problems, call>>
          /\ Continue(p, ok, iter + 1) \/ EndSolver(p, FALSE)
          /\ ok => IF Solver = "root" THEN TadpolesVanish(p)
                   ELSE p = step[x] /\ xn' = x /\ Converged(Solver, p, x)
    BY <1>4, Iteration
  <2>2. pc' \in {"start", "iterate", "set", "best"}
    BY <2>1, ContinueShape
  <2>3. pc' = "best" => status' = "fail"
    BY <2>1 DEF Continue, EndSolver
  <2>4. ASSUME pc' = "set" PROVE ok /\ EndSolver(p, ok) /\ status' = "success"
    BY <2>1, <2>4 DEF Continue, EndSolver
  <2>5. ASSUME pc' = "set" PROVE Last'
    <3>1. solutions \in Seq(Points) /\ Len(solutions) \in Nat
      BY DEF Shape, TypeOK
    <3>2. solutions' = Append(solutions, p)
      BY <2>4, <2>5 DEF EndSolver
    <3>3. Len(solutions') = Len(solutions) + 1 /\ solutions'[Len(solutions')] = p
      BY <3>1, <3>2
    <3>4. chain'[Len(solutions')] = Solver /\ step' = step /\ total' = total
      BY <2>1, <3>3 DEF Solver, generated
    <3>5. IF Solver = "root" THEN TadpolesVanish(p)
          ELSE p = step[x] /\ xn' = x /\ Converged(Solver, p, x)
      BY <2>1, <2>4, <2>5
    <3>6. SolvedBy(chain[Len(solutions)], x)'
      BY <2>1, <3>3, <3>4, <3>5 DEF SolvedBy, TadpolesVanish, Converged
    <3> QED BY <2>1, <3>3, <3>6
  <2> QED BY <2>2, <2>3, <2>4, <2>5 DEF Solved, Returned
<1>5. CASE SetSolution
  <2>1. /\ pc = "set" /\ pc' = "verdict" /\ UNCHANGED <<generated, xn, x, solutions, status>>
        /\ params' = solutions[Len(solutions)]
    BY <1>5 DEF SetSolution, SetParameters, numeric
  <2> QED BY <2>1, <1>0 DEF Solved, Returned
<1>6. CASE CompareSolution
  BY <1>6 DEF CompareSolution, Solved, Returned
<1>7. CASE SetBestSolution
  BY <1>7 DEF SetBestSolution, Solved, Returned
<1>8. CASE Verdict
  <2>1. /\ pc = "verdict" /\ pc' = "done"
        /\ UNCHANGED <<generated, xn, x, solutions, status, params, loops>>
    BY <1>8 DEF Verdict, numeric, call
  <2> QED BY <2>1, <1>0 DEF Solved, Returned
<1>9. CASE Return
  BY <1>9 DEF Return, Solved, Returned
<1>10. CASE UNCHANGED vars
  <2>1. UNCHANGED <<generated, xn, x, solutions, status, params, loops, pc>>
    BY <1>10 DEF vars, model, numeric, call
  <2> QED BY <2>1, <1>0 DEF Solved, Returned
<1> QED BY <1>1, <1>2, <1>3, <1>4, <1>5, <1>6, <1>7, <1>8, <1>9, <1>10
        DEF Next, SolveStep

-----------------------------------------------------------------------------
(* The best solution.                                                      *)

LEMMA BestSoFarStep == Shape /\ Solved /\ BestSoFar /\ [Next]_vars => BestSoFar'
<1> SUFFICES ASSUME Shape, Solved, BestSoFar, [Next]_vars PROVE BestSoFar'
  OBVIOUS
<1>a. /\ solutions \in Seq(Points) /\ Len(solutions) \in Nat
      /\ total \in [Points -> Totals \cup {NaN}] /\ Totals \subseteq Nat
  BY EwsbAssumption DEF Shape, TypeOK
<1>1. CASE SolveTreeLevel
  BY <1>1 DEF SolveTreeLevel, BestSoFar, Returned
<1>2. ASSUME NEW l \in Loops, SolveIteratively(l) PROVE BestSoFar'
  BY <1>2 DEF SolveIteratively, BestSoFar, Returned
<1>3. CASE StartSolver
  BY <1>3 DEF StartSolver, BestSoFar, Returned
<1>4. CASE IterateFixedPoint \/ IterateRoot
  <2>1. PICK p \in Points, ok \in BOOLEAN :
          /\ pc = "iterate" /\ iter' = iter + 1
          /\ UNCHANGED <<generated, params, problems, call>>
          /\ Continue(p, ok, iter + 1) \/ EndSolver(p, FALSE)
    BY <1>4, Iteration
  <2>2. pc' \in {"start", "iterate", "set", "best"}
    BY <2>1, ContinueShape
  <2>3. pc' = "best" => best' = 1 /\ compared' = 1 /\ solutions' = Append(solutions, p)
    BY <2>1 DEF Continue, EndSolver
  <2>4. ASSUME pc' = "best" PROVE BestOfFirst(solutions[best], compared)'
    <3>1. Len(solutions') >= 1 /\ solutions' \in Seq(Points)
      BY <1>a, <2>3, <2>4
    <3>2. solutions'[1] \in Points /\ total'[solutions'[1]] \in Totals \cup {NaN}
      BY <1>a, <2>1, <3>1 DEF generated
    <3>3. total'[solutions'[1]] # NaN => total'[solutions'[1]] \in Nat
      BY <1>a, <3>2
    <3>4. \A i \in 1..1 : i = 1
      OBVIOUS
    <3> QED BY <2>3, <2>4, <3>3, <3>4 DEF BestOfFirst
  <2> QED BY <2>2, <2>4 DEF BestSoFar, Returned
<1>5. CASE SetSolution
  <2>1. pc' = "verdict" /\ status' = "success"
    BY <1>5 DEF SetSolution, Solved
  <2> QED BY <2>1 DEF BestSoFar
<1>6. CASE CompareSolution
  <2>1. /\ pc = "best" /\ pc' = "best" /\ compared' = compared + 1
        /\ compared < Len(solutions)
        /\ best' = IF Better(solutions[compared + 1], solutions[best]) THEN compared + 1 ELSE best
        /\ UNCHANGED <<total, solutions>>
    BY <1>6 DEF CompareSolution, generated
  <2>2. /\ best \in DOMAIN solutions /\ compared \in Nat /\ compared >= 1
        /\ compared + 1 \in DOMAIN solutions /\ 1 \in DOMAIN solutions
    BY <1>a, <2>1 DEF Shape
  <2>3. \A i \in DOMAIN solutions :
          total[solutions[i]] # NaN => total[solutions[i]] \in Nat
    <3>1. \A i \in DOMAIN solutions : solutions[i] \in Points
      BY <1>a
    <3>2. \A p \in Points : total[p] \in Totals \cup {NaN}
      BY <1>a
    <3> QED BY <1>a, <3>1, <3>2
  <2>4. BestOfFirst(solutions[best], compared)
    BY <2>1 DEF BestSoFar
  <2>5. BestOfFirst(solutions[best'], compared + 1)
    <3> SUFFICES ASSUME total[solutions[1]] # NaN
                 PROVE  /\ total[solutions[best']] # NaN
                        /\ \A i \in 1..(compared + 1) : total[solutions[i]] # NaN =>
                             total[solutions[best']] <= total[solutions[i]]
      BY DEF BestOfFirst
    <3>1. /\ total[solutions[best]] # NaN
          /\ \A i \in 1..compared : total[solutions[i]] # NaN =>
               total[solutions[best]] <= total[solutions[i]]
      BY <2>4 DEF BestOfFirst
    <3>2. \A i \in 1..(compared + 1) : i \in 1..compared \/ i = compared + 1
      BY <2>2
    <3>3. \A i \in 1..compared : i \in DOMAIN solutions
      BY <1>a, <2>1, <2>2
    <3>4. CASE Better(solutions[compared + 1], solutions[best])
      BY <2>1, <2>2, <2>3, <3>1, <3>2, <3>3, <3>4 DEF Better
    <3>5. CASE ~Better(solutions[compared + 1], solutions[best])
      BY <2>1, <2>2, <2>3, <3>1, <3>2, <3>3, <3>5 DEF Better
    <3> QED BY <3>4, <3>5
  <2>6. BestOfFirst(solutions[best], compared)'
    BY <2>1, <2>5 DEF BestOfFirst
  <2> QED BY <2>1, <2>6 DEF BestSoFar, Returned
<1>7. CASE SetBestSolution
  <2>1. /\ pc = "best" /\ pc' = "verdict" /\ compared = Len(solutions)
        /\ params' = solutions[best] /\ UNCHANGED <<total, solutions>>
    BY <1>7 DEF SetBestSolution, SetParameters, generated
  <2>2. BestOfFirst(solutions[best], Len(solutions))
    BY <2>1 DEF BestSoFar
  <2>3. BestOfFirst(params, Len(solutions))'
    BY <2>1, <2>2 DEF BestOfFirst
  <2> QED BY <2>1, <2>3 DEF BestSoFar, Returned
<1>8. CASE Verdict
  <2>1. /\ pc = "verdict" /\ pc' = "done"
        /\ UNCHANGED <<total, solutions, params, status>>
    BY <1>8 DEF Verdict, generated
  <2>2. BestOfFirst(params, Len(solutions))' = BestOfFirst(params, Len(solutions))
    BY <2>1 DEF BestOfFirst
  <2> QED BY <2>1, <2>2 DEF BestSoFar, Returned
<1>9. CASE Return
  BY <1>9 DEF Return, BestSoFar, Returned
<1>10. CASE UNCHANGED vars
  <2>1. UNCHANGED <<total, solutions, params, status, pc, loops, best, compared>>
    BY <1>10 DEF vars, generated, model, choice, call
  <2> QED BY <2>1 DEF BestSoFar, BestOfFirst, Returned
<1> QED BY <1>1, <1>2, <1>3, <1>4, <1>5, <1>6, <1>7, <1>8, <1>9, <1>10
        DEF Next, SolveStep

-----------------------------------------------------------------------------
(* Theorems.                                                               *)

LEMMA InitInvariant == Init => IInv
BY InitShape DEF Init, IInv, Untouched, Solved, BestSoFar, Returned

LEMMA StepInvariant == IInv /\ [Next]_vars => IInv'
BY ShapeStep, UntouchedStep, SolvedStep, BestSoFarStep DEF IInv

LEMMA Invariance == Spec => []IInv
<1>1. Init => IInv
  BY InitInvariant
<1>2. IInv /\ [Next]_vars => IInv'
  BY StepInvariant
<1> QED BY <1>1, <1>2, PTL DEF Spec

\* Type correctness: solve() never looks beyond the list of numeric solvers or
\* of their solutions, and no solver makes more iterations than it may.
THEOREM TypeCorrect == Spec => []TypeOK
<1>1. IInv => TypeOK
  BY DEF IInv, Shape
<1> QED BY <1>1, Invariance, PTL

\* A successful solve() leaves the model at a point its tester accepts.
THEOREM SuccessSolvesInvariant == Spec => []SuccessSolves
<1>1. IInv => SuccessSolves
  <2> SUFFICES ASSUME IInv, Returned, status = "success"
               PROVE  /\ params = x /\ solutions[Len(solutions)] = x
                      /\ SolvedBy(chain[Len(solutions)], params)
    BY DEF SuccessSolves, SolvedBy
  <2> QED BY DEF IInv, Solved
<1> QED BY <1>1, Invariance, PTL

\* The points tried on the way leave no tachyon behind.
THEOREM TrialsLeaveNoTraceInvariant == Spec => []TrialsLeaveNoTrace
<1>1. IInv => TrialsLeaveNoTrace
  <2> SUFFICES ASSUME IInv, Returned, "runningTachyon" \in problems \ before
               PROVE  params \in Tachyonic
    BY DEF TrialsLeaveNoTrace
  <2>1. PICK tree \in BOOLEAN :
          problems = IterativeSolve(before, status = "success", tree, TachyonsAt(params))
    BY DEF IInv, Untouched, Returned
  <2>2. "runningTachyon" \in TachyonsAt(params)
    BY <2>1 DEF IterativeSolve, DRbarMasses, IgnoringFailures, TreeLevelSolve, Flagged
  <2> QED BY <2>2 DEF TachyonsAt
<1> QED BY <1>1, Invariance, PTL

\* The solver does to the problems of the model what the spectrum generator is
\* modelled to expect of it, EwsbSolve of ModelProblems.
THEOREM SolvesAsPromisedInvariant == Spec => []SolvesAsPromised
<1>1. IInv => SolvesAsPromised
  <2> SUFFICES ASSUME IInv, pc = "done"
               PROVE  \E tree \in BOOLEAN, tachyons \in SUBSET {"runningTachyon"} :
                        problems = EwsbSolve(before, loops, status = "success", tree, tachyons)
    BY DEF SolvesAsPromised
  <2>1. CASE loops = 0 /\ problems = TreeLevelSolve(before, status = "success")
    BY <2>1 DEF EwsbSolve
  <2>2. CASE /\ loops # 0
             /\ \E tree \in BOOLEAN :
                  problems = IterativeSolve(before, status = "success", tree, TachyonsAt(params))
    <3>1. TachyonsAt(params) \in SUBSET {"runningTachyon"}
      BY DEF TachyonsAt
    <3> QED BY <2>2, <3>1 DEF EwsbSolve
  <2> QED BY <2>1, <2>2 DEF IInv, Untouched
<1> QED BY <1>1, Invariance, PTL

\* The best solution is set, as far as the first one has tadpoles at all.
THEOREM BestOfNumbersInvariant == Spec => []BestOfNumbers
<1>1. IInv => BestOfNumbers
  <2> SUFFICES ASSUME IInv, Returned, status = "fail", total[solutions[1]] # NaN
               PROVE  /\ total[params] # NaN
                      /\ \A i \in DOMAIN solutions :
                           total[solutions[i]] # NaN => total[params] <= total[solutions[i]]
    BY DEF BestOfNumbers
  <2>1. BestOfFirst(params, Len(solutions))
    BY DEF IInv, BestSoFar
  <2>2. DOMAIN solutions = 1..Len(solutions)
    BY DEF IInv, Shape, TypeOK
  <2> QED BY <2>1, <2>2 DEF BestOfFirst
<1> QED BY <1>1, Invariance, PTL
=============================================================================

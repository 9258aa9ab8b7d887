# FlexibleSUSY in TLA+

FlexibleSUSY generates, from a particle physics model, a C++ program that
calculates the masses of its particles.  The numbers are floating-point work;
what decides whether they can be trusted is control: which boundary condition is
imposed when, when an iteration has converged, which problem is flagged and
which flag is taken back, what becomes of an exception, who runs which task.
The modules of this directory model that control, from the C++ library (`src/src`),
the templates the generated code is made of (`src/templates`) and the
Mathematica functions that write the rest (`src/meta`).  Paths below are
relative to `src/` of the repository.

Contents: [1 The system](#1-the-system), [2 The modules](#2-the-modules),
[3 The runs](#3-the-runs), [4 The theorems](#4-the-theorems),
[5 Findings](#5-findings), [6 What is not modelled](#6-what-is-not-modelled),
[7 Plan](#7-plan).

## 1 The system

### How the parts work together

A program `run_<Model>.x` reads an SLHA file and, for each enabled boundary value
problem (BVP) solver in turn, builds a *spectrum generator*.  The generator
converts the low-energy input (`QedQcd::to`), builds constraints, an initial
guesser and a convergence tester, hands them to a *solver* (`RGFlow`), and
calls `solve()`.  The solver runs the model along its renormalization group
equations from condition to condition; conditions change the model and may solve
the *EWSB equations*, which calculate a tree-level spectrum on the way.  Every
part may flag *problems* in the model, the solver clears them in each iteration,
and everything may throw.  Afterwards the generator calculates pole masses (with
a *thread pool*, if threads are enabled), translates exceptions to problems,
and the program writes files and an exit code.  Mathematica uses the same
generators through the *library link*, which keeps one point and its spectrum
per handle.  `QedQcd` and the models of the solver all run with
`Beta_function::run_to()` and its adaptive integrator.

### Inventory

| Part | State | Operations | What is hard | What makes it correct |
|---|---|---|---|---|
| Two-scale solver, `src/two_scale_solver.cpp` | sliders, tester, guesser, running precision, iteration, scale | `add`, `set_*`, `solve`, `run_to`, `get_model`, `reset` | any order of client calls; exceptions anywhere in `solve()`; one solver and one tester for several calls | each iteration imposes every condition once, in order, at its scale, with the precision of the iteration; convergence means two equal iterations of this call |
| Convergence testers, `src/convergence_tester_drbar.hpp`, `src/composite_convergence_tester.cpp` | copy of the last iteration, counter | `accuracy_goal_reached`, `restart`, `max_iterations` | the first call has nothing to compare; several testers must stay in step | true only if nothing moved |
| Semi-analytic solver, `src/semi_analytic_solver.cpp` | inner and outer sliders and testers | as above, with an inner two-scale solver | two nested iterations share models, conditions and precision; one of two failures is survived | inner solution anew and complete before outer conditions; converged only if both are |
| EWSB solver, `templates/two_scale_ewsb_solver.cpp.in`, `src/fixed_point_iterator.hpp`, `src/root_finder.hpp` | chain of numeric solvers, trial point, solutions | `solve` | retries from one guess; trial points with tachyons; not-a-number | the point set is a solution, or the best failure; flags are the verdict |
| Model problems, `src/problems.cpp`, `meta/EWSB.m` | sets of flags | `flag_*`, `unflag_*`, temporary solutions | a flag is set in one place and taken back in another | the flags that stay are those of the present state |
| Spectrum generator, `templates/two_scale_high_scale_spectrum_generator.cpp.in`, `templates/spectrum_generator_interface.hpp.in` | settings, model, solver problems, precision, scales | `run` | failure at any step; reuse for several points; zero iterations | no problem reported means converged, EWSB, spectrum of the right scale |
| Program, `templates/run.cpp.in`, `meta/FlexibleSUSY.m` | exit code, SLHA blocks, database rows | `run`, `run_solver` | fall-through over solvers after failures | output, database and exit code belong to one solver |
| Thread pool, `src/thread_pool.hpp` | queue, mutex, condition variable, stop flag | `run_task`, `run_packaged_task`, destructor | interleavings, lost wake-ups, throwing tasks | each task once and in order, destructor waits, nobody sleeps for ever |
| RG running, `src/betafunction.cpp`, `src/basic_rk_integrator.hpp` | parameters, scale, step size, steps taken | `run_to` | Landau poles, step-size underflow, too many steps; the model itself is moved at each evaluation | reaches exactly the scale or throws on the way |
| Low-energy data, `src/lowe.cpp` | couplings and masses, their inputs at other scales | `to` | an iteration with its own bound around runnings that fail; imposing one input disturbs another | a call that returns has met every input, wherever it started |
| Library link, `templates/librarylink.cpp.in` | handles to inputs and spectra | open, set, calculate spectrum and observables, get problems, close | handles given out again, replaced inputs, fall-through over solvers | a handle names one point; what it hands out is of its present inputs |
| Lattice solver, `src/lattice_solver.cpp` | the model on a lattice of scales | `solve` | relaxation | as the two-scale solver |
| SLHA, database, settings, command line | text and arrays | read and write | formatting | - |
| Loop functions, linear algebra, weak mixing angle | none | formulas, one fixed-point iteration | floating point | numerical |
| Code generator, build system, model files, examples, vendored GM2Calc and fflite | - | - | - | - |

`PROJECT.json` lists every part with its status, and under `hazards` each place
where the code can go wrong in a way a test would hardly reach.

## 2 The modules

```
TwoScaleSolver --INSTANCE--> ConvergenceTester        TaskPool
   ^        ^                                            ^ refinement
   |        +-- TwoScaleSolverProofs                  ThreadPool <-- ThreadPoolProofs
   |                   ^
SemiAnalyticSolver <---+-- SemiAnalyticSolverProofs   Running
                                                         ^ refinement
ModelProblems <-- EwsbSolver <-- EwsbSolverProofs     BetaFunction
   ^                                                     ^
SpectrumGenerator <-- SpectrumGeneratorProofs         LowEnergyData <-- LowEnergyDataProofs
   ^                   ^
SpectrumProgram <------+-- SpectrumProgramProofs      LibraryLink <-- LibraryLinkProofs
```

Arrows are EXTENDS unless labelled.  The modules `MC...` instantiate those above
for TLC.  No module declares a RECURSIVE operator.  Definitions that begin with
the comment "Mutant" or "A bug" are variants of the definition after them; a run
with the variant in its place violates the property it is paired with in
`PROJECT.json`.

### ConvergenceTester and TwoScaleSolver

*Code.* `RGFlow<Two_scale>` and its testers.  `sliders`, `testers`, `precision`,
`iteration`, `scale` are the members of the class; `model[m]` is what a slider
can change of a model: scale, running precision, whether it has a problem, and
the trajectory of its parameters.  The client calls are actions that are enabled
while `pc = "idle"`.

*solve().* Its body is cut at every call that may throw: `Solve` (checks and
initial guess), `BeginIteration` (loop head, running precision, clearing of
problems), `RunFirst` and `RunSecond` (RG running of the one or two models of a
slider), `Impose` (the condition), `TestAccuracy`, `EndSolve`.  The initial guesser sets
and runs every model of the client as it likes (`InitialGuess`).  An alternative
of each leaves `solve()` with `result = "thrown"` and the models as they are at
that point; a condition that throws may have moved its scale already
(`Impose`), and the testers that a composite asked before one that throws have
counted the iteration (`ThrownTesters`).  The generated match functions take the
first model as a constant (`templates/standard_model_matching.cpp.in:644`), so only
the second one gets problems.

*add() and get_model().* `set_models()` gives a matching condition the models of
its slider, for good; as in the generators, and unlike the trivial condition of a
test, none is given to two sliders (`Unmatched`).  `run_to()` takes the model of
the lowest slider that is not below the scale.  Sliders at the same scale are
left in any order by `std::sort()` (`src/two_scale_solver.cpp:277`), so any of
them may be found (`SlidersAt`).

*Data.* Scales are points of a logarithmic grid, so the relative difference of
the code is a difference; 0 is the scale of a model that never ran.  Running
parameters are one trajectory `t` with the value `t + scale`: running keeps the
trajectory and moves the value, a condition changes the trajectory.  That is the
least that tells apart "same parameters at another scale" from "same solution",
on which the comparison at a fixed scale (`CompareAt`, the scale getter) rests.

*History.* `ghost` records what no member keeps: the positions imposed in this
iteration, the models flagged in it, the end states of the iterations.

### SemiAnalyticSolver

EXTENDS TwoScaleSolver: the variables of that module are the inner solver, a
local variable of the outer `solve()`, and its `SolveStep` is a step of
`InnerStep`.  What the outer class adds begins with `o` or is called inner or
outer.  `Prepare` is `prepare_inner_iteration()`, `InnerReturns` the `try`/`catch`
around the inner `solve()`, `Gone` the end of the local solver.  The inner and
the outer testers are different objects; they compare the same parameters.
The `catch` is for a NoConvergenceError, which only the solvers and `QedQcd::to()`
throw (`src/two_scale_solver.cpp:101`, `src/semi_analytic_solver.cpp:150`,
`src/lattice_solver.cpp:263`, `src/lowe.cpp:406`); no condition calls one of them, so an
exception of a condition is always another one and leaves the outer `solve()`.
In `get_model()`, `std::merge()` puts the inner ones first among sliders at the
same scale; within each kind any order is possible (`OModelsAt`).

### ModelProblems

Pure operators: what the tree-level spectrum (`DRbarMasses`), the EWSB solver
(`TreeLevelSolve`, `IterativeSolve`, `EwsbSolve`), the guard around temporary
solutions (`IgnoringFailures`, generated by `meta/EWSB.m`) and the
`catch` clauses (`ProblemsOf`) do with the flags of a model.  Problems are kinds;
which particle is concerned is left out.  `CustomTreeSolver` says which of two
generated forms of `calculate_DRbar_masses()` the model has.

### EwsbSolver

*Code.* `solve()` of the EWSB solver of a generated model.  `chain` is the array
`solvers[]`, `StartSolver`, `IterateFixedPoint`, `IterateRoot` and `EndSolver` are
the loops of `find_fixed_point()` and `find_root()` inside the loop over the
chain; `SetSolution`, `CompareSolution`, `SetBestSolution` are
`set_ewsb_solution()` and `set_best_ewsb_solution()`, `Verdict` the final flag.

*Data.* The EWSB parameters are points of a grid, the equations two functions on
it, chosen in the initial state: `step` (the next point, or `EEWSBStepFailed`)
and `total` (sum of absolute tadpoles, or not a number).  The iterations of
GSL inside a root finder are external: any point, or stuck.  The property
`SolvesAsPromised` connects this module to the operator `EwsbSolve`, with which
the spectrum generator is modelled.

### SpectrumGenerator and SpectrumProgram

*Code.* `run()` of `spectrum_generator_interface` and `run_except()` of the
generator with a high, a SUSY and a low scale.  One action per boundary
condition and per step after the solver.  The solver is TwoScaleSolver with this
tower, at the grain of conditions: `BeginIteration` clears problems,
`TestConvergence` needs an earlier iteration, `Again` is the loop condition with
NoConvergenceError.  `BreakDown` is an exception out of any of these steps; the
failing step may have set or cleared any of its own flags (`FlagsAt`), and a
running that fails leaves the model between two scales.

`masses` distinguishes a cleared, a partly and a completely calculated spectrum.
`settings` change between runs of one generator.  `raised`, `converged`, `ewsb`
and `threw` are history.

`SpectrumProgram` runs a new generator per case of the generated `switch`: the
fall-through (`Break`, `AfterCase`) is written by `meta/FlexibleSUSY.m`.

**MaxIterations.** `max_iterations()` of a tester is the setting if that is
positive, and otherwise `(int)(-log10(precision) * 10)`: 0 for a precision
between about 0.79 and 1.26, negative above, 1 from about 0.63 to 0.79.  A
setting between 0 and 1 is cast to 0.  0 makes `solve()` return at once, a
negative number makes it guess and give up.  These are values a user can set, and
the runs use them.

### TaskPool and ThreadPool

`ThreadPool` models each thread with a program counter and splits the critical
sections, so that a notification, which is sent without the mutex, can fall
between a worker's test of the predicate and its sleep.  `Doze` and `Sleep` are
the two halves of the predicate loop of `condition_variable::wait`,
`SpuriousWake` is allowed `MaxSpurious` times.  `hardware_concurrency()` may be 0:
any of the `Workers` may be absent from the start, and without threads
(`Inline`) a task runs in the caller.  Packaged tasks pass exceptions to
their future, plain ones end the program.  The owner that meets such an exception
leaves the pool's scope with it, or catches it and hands in more tasks (`Unwind`).
`TaskPool` is what the class promises,
without threads; the refinement mapping is at the end of `ThreadPool`.

### Running, BetaFunction and LowEnergyData

*Code.* `BetaFunction` is `Beta_function::run_to()` down to the loops of
`integrateOdes()` and `odeStepper()`: `BeginStep` shortens a step that would pass
the end, `Reject` shrinks one whose error is too large, `Accept` and `Arrive` take
it, `NotFinite`, `TooManySteps` and a step below the resolution or below `hmin`
throw.  The right-hand side writes scale and parameters into the model, so a
running that throws leaves them where the last evaluation was (`Throw`).
`Running` says what callers rely on, without steps, and `ImplementsRunning` that
the integrator does it.

`LowEnergyData` is `QedQcd::to()` on top of it.  `todo` is the statement it is at;
each input is run to (`StartRunning`, `RunningOn`) and imposed (`SetAlpha`, `SetMb`,
`SetMc`, `SetLight`), then `TestConvergence` compares two rounds.  `RunningFailed` is
the `catch` of `runto_safe()`, `EndTo` the NoConvergenceError.

*Data.* Scales are points of a logarithmic grid, and a step of size 0 is one
below the resolution of floating-point numbers.  The sizes of steps keep the
code's limits: a rejected step shrinks to between a tenth and nine tenths, the
next one is between 0.9 and 5 times the last.  On the grid x + (to - x) is `to`; with
floating-point numbers it may be a unit in the last place short, which costs one
more round of the loop.  A trajectory is known by the distance of
each parameter from its input, in units of the precision goal.

*Assumed of the physics* (`Imposed`): setting couplings moves the masses, and
setting masses moves the couplings, by at most half of the distance removed, that
is, the couplings are weak.  This is no statement of the code, and
`ConvergedMeetsInputs` and its theorem are conditional on it.  Parameters at different scales differ (`Same`), unless
no loop runs.  Without the first the iteration need not converge to anything;
the run shows what the *control* of `to()` makes of it.

### LibraryLink

*Code.* One action per `extern "C"` function that changes or reads a point;
Mathematica calls one at a time.  `handles` is the global map, `Insert` keeps what
`std::map::insert()` keeps, `Assigned` is the assignment of a new `Model_data`, which
drops the spectrum.  `CalculateSpectrum` falls through the cases of the enabled
solvers (`Break`, written by `meta/FlexibleSUSY.m`), leaves the spectrum of the last
one behind and answers `$Failed` or the spectrum.  `flags` are the problems of the
model, which `ToSLHA` asks and a failed observable adds to; `problems` is the report
the generator copied before.

*Data.* A spectrum is what it was calculated from and its problems; the generator
is the set of problems it may end with.  `given` and the list of outcomes in
`reply` are history.

## 3 The runs

All runs use breadth-first search to the end of the state space, except those
that find a violation.  `CHECK_DEADLOCK FALSE` stands where a program that has
returned, or a client that makes no further call, really stops; `low_energy` and
`library_link`, whose clients can always call again, check deadlock.

| Run | Module, bounds | States |
|---|---|---|
| `two_scale_calls` | one model, one slider, scales 0-2, two trajectories, 2, 0 or -1 iterations, two calls of `solve()` in any order with the other calls; or two models, four sliders (low scale, matching up, high scale, matching down; both matchings at one scale), scales 0-3, 2 iterations, one call | 1 020 000 |
| `two_scale_scale` | one model; violation | - |
| `semi_tower` | two models, one inner constraint, one outer matching, 0 or 2 inner and 2 outer iterations, two calls of `solve()` | 475 000 |
| `ewsb_chain` | three points, chains of three and of two solvers, 0 or 2 iterations, two calls | 1 830 000 |
| `ewsb_best` | the same, one chain, one call; violation | - |
| `program_all` | two solvers, -1, 0, 1 or 2 iterations, EWSB at tree or loop level; or two runs of one generator, 0 or 2 iterations | 1 810 000 |
| `spectrum_lost`, `spectrum_temporary` | one run; violations | - |
| `pool` | no, one or two workers, four tasks (each kind, throwing or not), one spurious wake-up | 98 000 |
| `low_energy` | scales 0-6, distances 0-2, three steps of the integrator per running, 0, 1 or 3 iterations, 0 or 3 loops, any number of calls | 184 000 |
| `library_link` | two handles, two points, two solvers, four sets of problems, any number of calls | 105 000 |
| `library_problems` | the same; violation | - |

What each one shows:

* **two_scale_calls**: any order of set-up calls, `solve()`, `run_to()`, `restart()`
  and `reset()`.  The problems after an iteration are those of this iteration
  (`ProblemsOfThisIteration`); conditions are imposed once, in order
  (`ConditionsInOrder`), on models at their scale (`ImposedAtScale`); the testers of
  both models see every iteration (`TestersInStep`); convergence with a fresh
  tester means two equal iterations of this call (`ConvergedOnTwoIterations`), and
  giving up means that all iterations were done and each had moved a tested model
  (`GivesUpUnconverged`), so that a goal reached in the last one is not thrown away.
  *Bounds*: the second `solve()` is the first one that can meet a used tester, a
  used precision and left-over problems; the third would meet nothing new.  Two
  iterations are the least that can converge; the tower is that of
  `test/test_two_scale_solver.cpp:133`, the effective field theory generators' six
  (`templates/standard_model_two_scale_high_scale_spectrum_generator.cpp.in:180`) less
  two of the three conditions on the full model, so that its four sliders visit each
  model three times.
  `MCTwoScaleSolver` keeps the two clients apart by the tester they set.
* **semi_tower**: outer conditions follow a complete inner solution
  (`OuterAfterInner`), found anew (`InnerAnew`), at the right scale and precision
  (`OuterImposedAtScale`); problems are those of this outer iteration
  (`ProblemsOfOuterIteration`); converged means both (`BothConverged`); both nested
  loops end (`OSolveEnds`).  The
  matching's second model belongs to the outer tower only, so the two places
  that clear problems are told apart.  *Bounds*: two outer iterations are the least
  that can converge and the least in which an inner solution follows another; after
  an exception the client restarts the outer tester before it calls `solve()` again
  (`TestersReady`), as the second call meets a used tester after a failure to
  converge anyway.
* **ewsb_chain**: every choice of equations on three points, two of them
  within the precision goal of each other and one with a tachyon.  A success is a
  point the tester accepts (`SuccessSolves`), trial points leave no flags
  (`TrialsLeaveNoTrace`), the flags are what the generator's model assumes
  (`SolvesAsPromised`), a failure sets the best solution (`BestOfNumbers`), and
  `solve()` returns (`SolveReturns`).
  *Bounds*: three solvers give the choice of the best two comparisons; a second
  call meets the flags and the parameters of the first.
* **program_all**: for all settings, a clean report means convergence
  (`CleanMeansConverged`) and a spectrum with EWSB at
  the scale asked for (`CleanMeansSpectrum`), an exception is reported
  (`ExceptionReported`), EWSB flags are those of the last solution
  (`EwsbVerdict`); solvers are tried in order until one succeeds
  (`FirstSuccessEnds`), and file, database row and exit code are of the same
  solver (`OutputOfLastSolver`).  A client that keeps one generator for two runs
  with different settings gets nothing of the first for a result of the second,
  even if the second makes no iteration (`ReportsLastIteration`).
  *Bounds*: two solvers have a first, a last and
  a fall-through between them; a second run meets everything a first one leaves.
* **pool**: no task is lost and no wake-up (`EachTaskOnce`,
  `StopReachesSleepers`), the destructor waits
  (`DestructorWaits`), and the pool implements `TaskPool`, liveness included: every
  task ends.  *Bounds*: two workers race for the mutex, the queue and the
  notification; with four tasks the queue is longer than the workers are many; a
  pool without threads makes the same promise.
* **low_energy**: the steps of the integrator fail, shrink and grow as they like.
  No evaluation leaves the range of the running (`BetweenScales`), one that returns
  is at exactly the scale asked for with the parameters moved along their
  trajectory (`ImplementsRunning`), so that `extractPoleMb()` never meets its
  SetupError (`PoleMassAtItsScale`).  A call that returns has met every input,
  also when it starts on the wreck of a call that threw
  (`ConvergedMeetsInputs`, if the physics is as assumed in section 2), and every call ends (`ToEnds`), though `hmin` has the
  wrong sign for half of the runnings.
  *Bounds*: from the inputs' lowest scale to 6 a running can need more than three
  steps, so that every exit of the integrator happens, in both directions; with
  the inputs at 1, 2, 3 and 5 the rounds run both ways; a vanishing mb makes a
  running that is refused.  Distance 2 is removed in two rounds, so that one
  iteration is too few and three are enough.  `Strays` bounds where a failed
  running leaves the parameters: couplings, masses or all of them off, which are
  the ways the rounds that follow treat differently.
* **library_link**: open, set, calculate, ask and close in any order.  A handle
  names what its owner gave last, although handles are given out again
  (`HandleNamesPoint`); spectra, observables and SLHA output are of the present
  inputs (`SpectrumOfInputs`); with solver 0 a failure means that every enabled
  solver was tried and failed (`FailedMeansAllFailed`).  *Bounds*: two handles make
  all full, one free, and a handle below an open one; two points can be mistaken
  for each other; the problems are of the model, of the solver, and of the kind
  that finding 5 is about.

### Fairness

* Solvers, EWSB solver, generator and program are sequential: `solve()` or
  `run()`, once entered, executes its statements one after the other.  The weak
  fairness of `SolveStep`, `OSolveStep`, `RunStep`, `PStep` says no more.  It is
  about the disjunction, so no particular outcome (convergence, success) is
  forced: liveness rests on the bounds of the loops in the code.  Each boundary
  condition, running and formula is one step, so it is assumed to return or
  throw.  Nothing is assumed of the client's calls.
* `QedQcd::to()` is sequential too: weak fairness of `ToStep` says that its
  statements, and the steps of the integrator they run, follow each other.  That
  it ends rests on the code: the bound of the iterations, the number of steps,
  and a step that can only be rejected until x + h is x.
* The thread pool has weak fairness of the owner's steps inside a call and of
  each worker: the operating system schedules every thread that can run, and
  tasks end.  The mutex is taken by any thread; no fairness among those who want it
  is needed, as a worker with nothing to do sleeps.

## 4 The theorems

The proofs hold for all values of the constants that satisfy the assumptions
`SolverAssumption`, `GeneratorAssumption`, `ProblemsAssumption`, `ProgramAssumption`,
`EwsbAssumption`,
`PoolAssumption`, `RunningAssumption`, `LowEnergyAssumption`,
`LibraryLinkAssumption`, `FailedAssumption`: types, disjointness, finite sets where a maximum is taken or
threads are joined, one model value apart from the others.  TLC evaluates them
in every run.

* **TwoScaleSolverProofs** proves every property of `two_scale_calls`, for
  every tower, composite tester and order of calls, from one inductive invariant in
  two parts (`SolverInv`).  `Bookkeeping` has the types, `ConditionsInOrder` and
  `IterationsCounted`: the slider index is in the tower because the type is right and
  the conditions so far are in order, and the counter is within the maximum because
  `maxIt` is that of the testers (lemma `FiniteMax`).  `Observations` relates the
  models and testers to the present iteration: the properties `ImposedAtScale` and
  `ProblemsOfThisIteration`, strengthened by what holds between the two runnings of a
  matching (`FirstModelRun`), and `TestersFollow`: a tester that was fresh has counted
  every iteration and holds the end of the last one.  With the lemma
  `AgreeOnLastTwo`, that a goal which is reached means equal ends, this gives
  `TestersInStep` and `ConvergedOnTwoIterations`.  `GivesUpUnconverged` needs the
  converse for every iteration before the last: `NeverAgreed` says that while the goal
  is not reached, no two successive iterations of this call agreed, for a tester that
  does not reach its goal has seen a model move (`TestersDisagree`).
* **SemiAnalyticSolverProofs** proves every safety property of `semi_tower`, the
  action property `BothConverged` included, for every pair of towers.  It reuses the lemmas
  above: while the outer solver is in its inner stage, the variables of
  TwoScaleSolver satisfy `SolverInv` (`InnerStage`), because `Prepare` makes a new
  inner solver with a restarted tester; `OuterStage` is the outer counterpart of
  `Observations`, with the outcome of the last inner solution, which
  `BothConverged` needs.
* **SpectrumGeneratorProofs** proves every safety property of one generator, in any
  number of runs: `TypeOK`, `ExceptionReported`, `CleanMeansConverged`,
  `CleanMeansSpectrum`, `ReportsLastIteration` and `EwsbVerdict`.  All but the first
  and the last assume `"NoConvergence" \notin QedQcdErrors`: the exception of finding 2
  is excluded.  `EwsbVerdict` assumes `CustomTreeSolver`: the code of finding 3 is
  excluded; `CleanMeansSpectrum` assumes `CustomTreeSolver` or loop orders above
  zero, since the same code can erase a failure at tree level.  The
  invariant `RunState` says where in `run()` an exception is under way, that the
  solver's vector of problems exists when it is needed, and that scales and precision
  are those of this run; `EwsbState` and `SpectrumState` relate the flags to the last
  EWSB solution, the masses and the scale of the model from the pole scale on;
  `RaisedState` says that from the set-up on every problem of the model was raised
  since the last iteration began.
* **SpectrumProgramProofs** proves `FirstSuccessEnds` and `OutputOfLastSolver` of
  `PSpec` for every list of enabled solvers and all settings, and carries the theorems
  about one generator over to each solver of the program (`EverySolverReports`,
  `EverySolverHandsOutItsOwn`).  In `ProgramInv`, `CasesInOrder` says that every case
  before the present one returned an error and that the index counts them for solver
  type 0, and `NoOutputOfFailures` that these have left neither spectrum blocks nor
  rows unless output is forced.  A row of a program that exits with 0 belongs to a
  converged solution, which is `RunState`: hence the assumption on `QedQcd::to()` in
  all but `FirstSuccessEnds`.
* **EwsbSolverProofs** proves all five safety properties of `ewsb_chain` for every
  grid, every equations and every chain.  The invariant `IInv` has four parts:
  `Shape` (the indices of `set` and `best` exist), `Untouched` (the problems are
  those before the call until parameters are set), `Solved` (the status belongs to
  the last solution), `BestSoFar` (the loop invariant of `min_element`).
  `SolvesAsPromisedInvariant` is what lets the generator's model use one
  operator for the whole solver.
* **ThreadPoolProofs** proves `TypeOK`, `EachTaskOnce`, `StopReachesSleepers` and
  `DestructorWaits` for any number of threads and tasks.  `PoolInv` adds to them
  that a worker about to sleep still holds the mutex and has seen `stop` false
  (so the destructor cannot set it in between), and where the owner can be.
  It also proves the safety part of `ImplementsTaskPool`: every step of the threads is
  a step of `TaskPool` or none, under the mapping the run uses.
* **LowEnergyDataProofs** proves `RkTypes`, `BetweenScales`, `PoleMassAtItsScale` and
  `ImplementsRunning` (the whole refinement, `Running` has no fairness) of `QSpec`, for
  every grid, every number of steps and loops and every set of trajectories.
  `RkInv` strengthens `BetweenScales` by `OnTheWay`: between steps the integration is
  short of its end, a step that was shortened stays between the ends, and a rejected one
  only gets shorter (`ShorterStays`).  `ToInv` adds that a running under way leads to
  the scale of the statement `to()` is at, which gives the pole mass its scale.
  `ConvergedMeetsInputs` needs what a round does to the distances (`RoundFrom`): how far
  each parameter can be from its input, statement by statement, in terms of the
  distances the round began with.  A round that ends where it began has a distance of
  the couplings that is at most three quarters of itself (`SpillsLess`), hence none;
  imposing the couplings once more then moves nothing (`ImposedAgain`).
* **LibraryLinkProofs** proves `HandleNamesPoint`, `SpectrumOfInputs` and
  `FailedMeansAllFailed` for any number of handles, inputs, solvers and outcomes.
  That the handle found is new and fits its type is a pigeonhole argument
  (`OneIsFree`) and the well-foundedness of the numbers (`Smallest`); the invariant
  `Inv` adds to the properties that every `Model_data` has its fields (`Shapes`), on
  which assignments to one of them rest.

Every safety property of the passing runs, the action properties and both refinements
(that of the thread pool without its fairness) are so proved for all constants.  Only
model-checked is liveness (`OSolveEnds`, `SolveReturns`, `ProgramEnds`, `ToEnds`, the
liveness part of `ImplementsTaskPool`): it needs ENABLED and fairness, which are out of
the provers' reach.  The strengthened invariants `SolverInv`, `SemiInv`, `ProgramInv` and
`RoundState` hold on the instances of the runs, too; there they were checked by TLC
before they were proved.

## 5 Findings

1. `two_scale_scale`: `rel_scale_difference()` is signed, so
   `Convergence_tester_DRbar` takes any fall of the scale for a small difference and
   accepts two iterations at different scales.
2. `spectrum_lost`: a NoConvergenceError of `QedQcd::to()` is thrown before the vector
   of solver problems is filled, so `flag_no_convergence()` flags nothing, and
   the point is reported without a problem.
3. `spectrum_temporary`: the guard around the temporary tree-level EWSB solution saves
   `no_ewsb()` but restores the tree-level flag from it: a solution that is
   meant to flag nothing changes that flag.
4. `ewsb_best`: `set_best_ewsb_solution()` never leaves the first solver's solution if
   its tadpoles are not a number, although it is documented to set the
   solution with the smallest tadpoles.
5. `library_problems`: the list of `GetProblems` leaves out the failed tree-level
   EWSB, for which `CalculateSpectrum` fails: Mathematica is told of a failure
   with no problem.

Each run shows a behaviour of the code as it is, against a sentence of its
documentation quoted in `PROJECT.json`.

## 6 What is not modelled

* *Numbers*: beta functions, loop functions, self-energies, diagonalization.  Each is
  one step with a free outcome among those the control distinguishes.
* *Beta functions of zero loops* in the generator: running does nothing then
  (`BetaFunction` has that case); the model of the
  generator assumes one loop at least, so that running from scale 0 throws.
* *EWSB equations without analytic tree-level solution*: they are solved by the
  iteration itself, inside the calculation of the tree-level spectrum.
* *Which* particle or parameter a problem names, warnings, and all text.
* Between two calls, `EwsbSolver` keeps the equations; a program runs the model to
  another scale in between.
* The Boost integrator (`src/rkf_integrator.cpp`), an alternative to the one
  modelled, with its step control inside a library.
* `ToSLHA` of the library link writes a spectrum by the flags of the model alone, and
  may write one that `CalculateSpectrum` refused; the module has it, but no document
  says what is right, so there is no property.
* *Which* model `get_model()` and `run_to()` of a solver take at a scale that several
  sliders share.  The code leaves it to the library, as its sort is unstable;
  `test/test_two_scale_solver.cpp:149` (`test_run_to_with_two_models`) expects the one
  added first, and gets it as long as the library sorts short sequences by insertion.
  No generator calls these functions.  The modules allow any, so no property says
  which.
* Failure to create a thread, several clients of one thread pool.
* The parts marked not_modelled in `PROJECT.json`: pure input, output and formulas,
  code that is generated into other modules' components, build system and
  vendored programs; and those of the plan.  More than half of the
  implementation's lines (63 000 of 117 000) are two-loop threshold formulas
  printed by a computer algebra system (`model_specific/MSSM_thresholds`): they have no
  state and no control, and their values are floating-point numbers.

## 7 Plan

Done, in this order: A two-scale solver, B its semi-analytic use, C thread pool with
abstract specification and refinement proof, D spectrum generator and program,
E EWSB solver, F running and `QedQcd::to()` with abstract specification and refinement
proof, G library link.  The order follows what the others rest on.

To be written:

* H The generators with other towers, with the matching in the generator and pole-mass
  tasks given to the thread pool.
* I EWSB equations without analytic solution, the semi-analytic variant.
* J The other front ends (`templates/scan.cpp.in`, `templates/run_cmd_line.cpp.in`), which
  differ from the program in what they do with the result.
* K The iteration of the weak mixing angle.
* L The lattice solver, if its control turns out to be separable.

Abstract specifications worth stating: a BVP solver that converges, gives up or
throws, implemented by both solvers; the generator's use of the solver as an
implementation of the same.

Runs are few on purpose: a new component gets one passing run, merged with an
existing one where the questions are alike.

Theorems to come: those of the components above, as they are modelled; and that the
two solvers implement the abstract BVP solver, for which `SolverInv` and `SemiInv` have
what is needed.

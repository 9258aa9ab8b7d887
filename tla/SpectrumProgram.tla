--------------------------- MODULE SpectrumProgram ---------------------------
(***************************************************************************)
(* The program run_<Model>.x: it reads an SLHA file, runs the spectrum     *)
(* generator of the solver asked for, or those of all enabled solvers in   *)
(* turn until one reports no problem, and writes an SLHA file and a row of *)
(* a database.  Every solver gets a new generator and the same SLHA data.  *)
(***************************************************************************)
EXTENDS SpectrumGenerator, Sequences

CONSTANTS
  Enabled,      \* the keys of the enabled solvers, in the order of the cases
  SolverTypes   \* values of the setting solver

ASSUME ProgramAssumption ==
  /\ Enabled \in Seq(Nat \ {0}) /\ Enabled # << >>
  /\ \A i, j \in DOMAIN Enabled : Enabled[i] = Enabled[j] => i = j
  /\ SolverTypes \subseteq Nat
  /\ MaxRuns # 0

VARIABLES
  stage,       \* "start", "next" (enter a case), "solver" or "exit"
  solverType,  \* the setting solver; 0: all enabled solvers
  readable,    \* slha_io.fill() finds what it needs
  index,       \* the case that is executed, 0: none
  exitCode,
  blocks,      \* slha_io: the solver of SPINFO, whether that lists a problem,
               \* and the solver of the spectrum blocks; 0: none
  file,        \* the SLHA file: blocks when it was written
  rows,        \* the solvers that wrote to the database
  codes        \* ghost: what run_solver() returned, per case executed

output == <<blocks, file, rows>>
programVars == <<stage, solverType, readable, index, exitCode, output, codes>>

NoBlocks == [spinfo |-> 0, problem |-> FALSE, spectrum |-> 0]

PInit ==
  /\ Init
  /\ stage = "start" /\ solverType \in SolverTypes /\ readable \in BOOLEAN
  /\ index = 0 /\ exitCode = 0
  /\ blocks = NoBlocks /\ file = NoBlocks /\ rows = << >>
  /\ codes = << >>

\* case 0 is on top of the first solver's case; an unknown type has none.
CaseOf(type) ==
  IF type = 0 THEN 1
  ELSE IF \E i \in DOMAIN Enabled : Enabled[i] = type
  THEN CHOOSE i \in DOMAIN Enabled : Enabled[i] = type
  ELSE 0

Start ==
  /\ stage = "start"
  /\ index' = CaseOf(solverType)
  /\ IF CaseOf(solverType) = 0
     THEN stage' = "exit" /\ exitCode' = -1
     ELSE stage' = "next" /\ UNCHANGED exitCode
  /\ UNCHANGED <<vars, solverType, readable, output, codes>>

\* Mutant: the next case is never entered.
BreakAlways(code) == TRUE

\* if (!exit_code || solver_type != 0) break;
Break(code) == code = 0 \/ solverType # 0

\* After the last case the default does nothing for solver type 0.
AfterCase(code) ==
  /\ exitCode' = code /\ codes' = Append(codes, code)
  /\ IF Break(code) \/ index = Len(Enabled)
     THEN stage' = "exit" /\ UNCHANGED index
     ELSE stage' = "next" /\ index' = index + 1
  /\ UNCHANGED <<solverType, readable>>

InputFails ==
  /\ stage = "next" /\ ~readable
  /\ AfterCase(1)
  /\ UNCHANGED <<vars, output>>

\* spectrum_generator.set_settings() and run() on a new generator
NewGenerator(s) ==
  /\ pc' = "qedqcd" /\ settings' = s /\ runs' = 1
  /\ problems' = {} /\ scaleAt' = "zero" /\ masses' = "cleared"
  /\ solverProblems' = "none" /\ reported' = {} /\ scales' = FALSE /\ accuracy' = "infinite"
  /\ exception' = "Error" /\ iteration' = 0
  /\ raised' = {} /\ converged' = FALSE /\ ewsb' = FALSE /\ threw' = FALSE

\* The settings are those of the input file, the same for every solver.
RunGenerator ==
  /\ stage = "next" /\ readable /\ stage' = "solver"
  /\ \E s \in Settings : (codes # << >> => s = settings) /\ NewGenerator(s)
  /\ UNCHANGED <<solverType, readable, index, exitCode, output, codes>>

GeneratorStep ==
  /\ stage = "solver" /\ RunStep
  /\ UNCHANGED programVars

\* Mutant: the spectrum is shown whenever the model itself has no problem.
ShowModelResult == ~HaveProblem(reported) \/ settings.force

ShowResult == ~ReportsProblem \/ settings.force

WriteResult ==
  /\ stage = "solver" /\ pc = "done"
  /\ blocks' = [spinfo |-> index, problem |-> ReportsProblem,
                spectrum |-> IF ShowResult THEN index ELSE blocks.spectrum]
  /\ file' = blocks'
  /\ rows' = IF ShowResult THEN Append(rows, index) ELSE rows
  /\ AfterCase(IF ReportsProblem THEN 1 ELSE 0)
  /\ UNCHANGED vars

PStep == Start \/ InputFails \/ RunGenerator \/ GeneratorStep \/ WriteResult

PSpec == PInit /\ [][PStep]_<<vars, programVars>> /\ WF_<<vars, programVars>>(PStep)

-----------------------------------------------------------------------------
Executed == Len(codes)

\* The solvers are tried in the order of their cases until one reports no
\* problem, only solver type 0 tries more than one, and the exit code is that
\* of the last one tried.
FirstSuccessEnds ==
  stage = "exit" /\ codes # << >> =>
    /\ exitCode = codes[Executed]
    /\ \A i \in 1..Executed - 1 : codes[i] # 0
    /\ solverType # 0 => Executed = 1
    /\ solverType = 0 /\ exitCode # 0 => Executed = Len(Enabled)

\* The SLHA file tells of the solver whose exit code the program returns: its
\* problems are the ones listed, and the spectrum blocks, if there are any, are
\* its own.  They are there if it reported no problem or output was forced.
FileIsOfLastSolver ==
  /\ file.spinfo = index
  /\ file.problem <=> exitCode # 0
  /\ file.spectrum = IF exitCode = 0 \/ settings.force THEN index ELSE 0

\* Without forced output the database gets at most one row, that of a solver
\* which solved the boundary value problem, and a program that exits with 0
\* has added it.
RowIsOfLastSolver ==
  ~settings.force =>
    IF exitCode = 0 THEN rows = <<index>> /\ converged ELSE rows = << >>

\* All output is that of the solver whose exit code the program returns, not
\* that of a solver which failed before: the file and the database agree.
OutputOfLastSolver ==
  stage = "exit" /\ readable /\ codes # << >> =>
    FileIsOfLastSolver /\ RowIsOfLastSolver

\* A program that is started ends.
ProgramEnds == stage = "start" ~> stage = "exit"
==============================================================================

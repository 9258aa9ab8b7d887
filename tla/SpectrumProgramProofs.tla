------------------------ MODULE SpectrumProgramProofs ------------------------
(***************************************************************************)
(* What run_<Model>.x returns and writes, for any list of enabled solvers  *)
(* and any settings.  ProgramInv is inductive: what the generator of the   *)
(* present solver knows of itself, what the cases before have returned,    *)
(* and what they left in the SLHA data and the database.                   *)
(***************************************************************************)
EXTENDS SpectrumProgram, SpectrumGeneratorProofs

Types ==
  /\ stage \in {"start", "next", "solver", "exit"}
  /\ solverType \in Nat /\ index \in Nat /\ codes \in Seq(Int)

\* A case is entered only if every case before it returned an error, and a
\* second one only when all enabled solvers are asked for.
CasesInOrder ==
  /\ stage = "start" => codes = << >>
  /\ stage \in {"next", "solver"} =>
       /\ index \in DOMAIN Enabled
       /\ \A i \in DOMAIN codes : codes[i] # 0
       /\ IF solverType = 0 THEN index = Executed + 1 ELSE codes = << >>

\* Solvers that failed have left no spectrum unless they were forced to.
\* Before the first case the settings are not read.
NoOutputOfFailures ==
  stage # "exit" /\ (codes # << >> => ~settings.force) =>
    blocks.spectrum = 0 /\ rows = << >>

GeneratorInv == TypeOK /\ RunState

\* What the program knows of its cases, of its output and of its generator.
CaseState == Types /\ CasesInOrder /\ FirstSuccessEnds

OutputState == NoOutputOfFailures /\ OutputOfLastSolver

ProgramInv == GeneratorInv /\ CaseState /\ OutputState

(***************************************************************************)
(* The generators of the program.                                          *)
(***************************************************************************)

LEMMA NewGeneratorInv ==
  ASSUME NEW s \in Settings, NewGenerator(s)
  PROVE  GeneratorInv'
<1>1. StateTypes'
  BY GeneratorAssumption, ProgramAssumption
     DEF NewGenerator, StateTypes, Labels, Problems, AtScale, Exceptions
<1>2. FlagTypes'
  BY Zenon DEF NewGenerator, FlagTypes
<1>3. RunState'
  BY DEF NewGenerator, RunState, Solving
<1> QED BY <1>1, <1>2, <1>3 DEF GeneratorInv, TypeOK

LEMMA GeneratorInvSame ==
  ASSUME GeneratorInv, UNCHANGED vars
  PROVE  GeneratorInv'
<1>1. StateTypes'
  BY DEF GeneratorInv, TypeOK, StateTypes, vars, model, result, ghosts
<1>2. FlagTypes'
  BY Zenon DEF GeneratorInv, TypeOK, FlagTypes, vars, result, ghosts
<1>3. RunState'
  BY DEF GeneratorInv, RunState, Converged, ReportsProblem, HaveProblem, vars, model, result, ghosts
<1> QED BY <1>1, <1>2, <1>3 DEF GeneratorInv, TypeOK

\* Whatever the program does, the generator it uses is in a state of a run.
LEMMA GeneratorInvStep ==
  ASSUME "NoConvergence" \notin QedQcdErrors, GeneratorInv, [PStep]_<<vars, programVars>>
  PROVE  GeneratorInv'
<1>1. ASSUME UNCHANGED vars PROVE GeneratorInv'
  BY <1>1, GeneratorInvSame
<1>2. CASE Start \/ InputFails \/ WriteResult
  BY <1>2, <1>1 DEF Start, InputFails, WriteResult
<1>3. CASE RunGenerator
  BY <1>3, NewGeneratorInv DEF RunGenerator
<1>4. CASE GeneratorStep
  BY <1>4, TypeStep, RunStateStep DEF GeneratorStep, Next, GeneratorInv
<1> QED
  BY <1>1, <1>2, <1>3, <1>4 DEF PStep

(***************************************************************************)
(* The cases of the program.                                               *)
(***************************************************************************)

\* The case an existing solver type is at.
LEMMA CaseOfType ==
  ASSUME NEW type \in Nat, CaseOf(type) # 0
  PROVE  /\ CaseOf(type) \in DOMAIN Enabled
         /\ type = 0 => CaseOf(type) = 1
<1>1. 1 \in DOMAIN Enabled
  BY ProgramAssumption
<1> QED
  BY <1>1 DEF CaseOf

LEMMA AfterCaseStep ==
  ASSUME CaseState, stage \in {"next", "solver"}, NEW code \in Int, AfterCase(code)
  PROVE  CaseState'
<1>1. /\ Enabled \in Seq(Nat) /\ Len(Enabled) \in Nat
      /\ index \in 1..Len(Enabled) /\ solverType \in Nat
      /\ codes \in Seq(Int) /\ Len(codes) \in Nat
  BY ProgramAssumption DEF CaseState, Types, CasesInOrder
<1>2. /\ codes' \in Seq(Int) /\ Len(codes') = Len(codes) + 1 /\ codes' # << >>
      /\ \A i \in 1..Len(codes) : codes'[i] = codes[i]
      /\ codes'[Len(codes')] = code
  <2>1. codes' = Append(codes, code)
    BY DEF AfterCase
  <2>2. codes' \in Seq(Int) /\ Len(codes') = Len(codes) + 1
    BY <1>1, <2>1
  <2>3. codes' # << >>
    <3>1. Len(<< >>) = 0
      OBVIOUS
    <3>2. Len(codes') # 0
      BY <1>1, <2>2
    <3> QED BY <3>1, <3>2
  <2> QED BY <1>1, <2>1, <2>2, <2>3
<1>3. \A i \in 1..Len(codes) : codes[i] # 0
  BY <1>1 DEF CaseState, CasesInOrder
<1>4. /\ solverType = 0 => index = Len(codes) + 1
      /\ solverType # 0 => codes = << >>
  BY DEF CaseState, CasesInOrder, Executed
<1>5. UNCHANGED solverType /\ exitCode' = code
  BY DEF AfterCase
<1>6. CASE Break(code) \/ index = Len(Enabled)
  <2>1. stage' = "exit" /\ index' = index
    BY <1>6 DEF AfterCase
  <2>2. Types'
    BY <1>1, <1>2, <1>5, <2>1 DEF Types
  <2>3. CasesInOrder'
    BY <2>1 DEF CasesInOrder
  <2>4. \A i \in 1..Len(codes') - 1 : codes'[i] # 0
    <3>1. 1..Len(codes') - 1 = 1..Len(codes)
      BY <1>1, <1>2
    <3> QED BY <1>2, <1>3, <3>1
  <2>5. solverType # 0 => Len(codes') = 1
    BY <1>2, <1>4
  <2>6. solverType = 0 /\ code # 0 => Len(codes') = Len(Enabled)
    BY <1>2, <1>4, <1>6 DEF Break
  <2> QED
    BY <1>2, <1>5, <2>2, <2>3, <2>4, <2>5, <2>6 DEF CaseState, FirstSuccessEnds, Executed
<1>7. CASE code # 0 /\ solverType = 0 /\ index # Len(Enabled)
  <2>1. stage' = "next" /\ index' = index + 1
    BY <1>7 DEF AfterCase, Break
  <2>2. Types'
    BY <1>1, <1>2, <1>5, <2>1 DEF Types
  <2>3. \A i \in DOMAIN codes' : codes'[i] # 0
    <3>1. DOMAIN codes' = 1..Len(codes') /\ Len(codes') = Len(codes) + 1 /\ Len(codes) \in Nat
      BY <1>1, <1>2
    <3>2. \A i \in 1..Len(codes') : i \in 1..Len(codes) \/ i = Len(codes')
      BY <3>1
    <3>3. \A i \in 1..Len(codes) : codes'[i] # 0
      BY <1>2, <1>3
    <3>4. codes'[Len(codes')] # 0
      BY <1>2, <1>7
    <3> QED BY <3>1, <3>2, <3>3, <3>4
  <2>4. index' \in DOMAIN Enabled /\ index' = Len(codes') + 1
    BY <1>1, <1>2, <1>4, <1>7, <2>1
  <2>5. CasesInOrder'
    BY <1>5, <1>7, <2>1, <2>3, <2>4 DEF CasesInOrder, Executed
  <2> QED
    BY <2>1, <2>2, <2>5 DEF CaseState, FirstSuccessEnds
<1> QED
  BY <1>6, <1>7 DEF Break

LEMMA CaseStep ==
  ASSUME CaseState, [PStep]_<<vars, programVars>>
  PROVE  CaseState'
<1>1. CASE UNCHANGED programVars
  BY <1>1 DEF programVars, CaseState, Types, CasesInOrder, FirstSuccessEnds, Executed
<1>2. CASE Start
  <2>1. /\ stage = "start" /\ index' = CaseOf(solverType) /\ codes = << >>
        /\ UNCHANGED <<solverType, codes>> /\ solverType \in Nat /\ codes \in Seq(Int)
    BY <1>2 DEF Start, CaseState, Types, CasesInOrder
  <2>2. CASE CaseOf(solverType) = 0
    BY <1>2, <2>1, <2>2 DEF Start, CaseState, Types, CasesInOrder, FirstSuccessEnds
  <2>3. CASE CaseOf(solverType) # 0
    <3>1. stage' = "next"
      BY <1>2, <2>3 DEF Start
    <3>2. index' \in DOMAIN Enabled /\ (solverType = 0 => index' = 1) /\ index' \in Nat
      BY <2>1, <2>3, CaseOfType, ProgramAssumption
    <3> QED
      BY <2>1, <3>1, <3>2 DEF CaseState, Types, CasesInOrder, FirstSuccessEnds, Executed
  <2> QED BY <2>2, <2>3
<1>3. CASE InputFails
  BY <1>3, AfterCaseStep DEF InputFails
<1>4. CASE RunGenerator
  BY <1>4 DEF RunGenerator, CaseState, Types, CasesInOrder, FirstSuccessEnds, Executed
<1>5. CASE WriteResult
  BY <1>5, AfterCaseStep DEF WriteResult
<1> QED
  BY <1>1, <1>2, <1>3, <1>4, <1>5 DEF PStep, GeneratorStep

LEMMA CaseInit == PInit => CaseState
BY ProgramAssumption DEF PInit, CaseState, Types, CasesInOrder, FirstSuccessEnds

\* The solvers of all cases before the last one failed, no more than one is
\* tried unless all are asked for, and the last one gives the exit code: for
\* any list of enabled solvers.
THEOREM FirstSuccessEndsInvariant == PSpec => []FirstSuccessEnds
<1>1. CaseState /\ [PStep]_<<vars, programVars>> => CaseState'
  BY CaseStep
<1>2. CaseState => FirstSuccessEnds
  BY DEF CaseState
<1> QED BY <1>1, <1>2, CaseInit, PTL DEF PSpec

(***************************************************************************)
(* The output.                                                             *)
(***************************************************************************)

\* An executed case ends the program or leads to another.
LEMMA AfterCaseStage ==
  ASSUME NEW code, AfterCase(code)
  PROVE  (stage' = "exit" /\ index' = index) \/ (stage' = "next" /\ code # 0)
BY DEF AfterCase, Break

LEMMA WriteResultStep ==
  ASSUME GeneratorInv, CaseState, OutputState, WriteResult
  PROVE  OutputState'
<1>1. /\ stage = "solver" /\ pc = "done" /\ UNCHANGED <<settings, converged>>
      /\ AfterCase(IF ReportsProblem THEN 1 ELSE 0)
  BY DEF WriteResult, vars, ghosts
<1>2. ReportsProblem \in BOOLEAN
  BY DEF ReportsProblem, HaveProblem
<1>3. (codes # << >> => ~settings.force) => blocks.spectrum = 0 /\ rows = << >>
  BY <1>1 DEF OutputState, NoOutputOfFailures
<1>4. exitCode' = IF ReportsProblem THEN 1 ELSE 0
  BY <1>1 DEF AfterCase
<1>5. /\ file'.spinfo = index
      /\ file'.problem = ReportsProblem
      /\ file'.spectrum = blocks'.spectrum
      /\ blocks'.spectrum = IF ShowResult THEN index ELSE blocks.spectrum
  BY DEF WriteResult
<1>6. rows' = IF ShowResult THEN Append(rows, index) ELSE rows
  BY DEF WriteResult
<1>7. ~ReportsProblem => converged
  BY <1>1 DEF GeneratorInv, RunState, Converged
<1>8. ASSUME stage' = "exit" PROVE OutputOfLastSolver'
  <2>1. index' = index
    BY <1>1, <1>8, AfterCaseStage
  <2>2. FileIsOfLastSolver'
    <3>1. CASE ReportsProblem
      BY <1>1, <1>3, <1>4, <1>5, <2>1, <3>1 DEF FileIsOfLastSolver, ShowResult
    <3>2. CASE ~ReportsProblem
      BY <1>1, <1>2, <1>4, <1>5, <2>1, <3>2 DEF FileIsOfLastSolver, ShowResult
    <3> QED BY <3>1, <3>2
  <2>3. RowIsOfLastSolver'
    <3>1. CASE ReportsProblem
      BY <1>1, <1>3, <1>4, <1>6, <2>1, <3>1 DEF RowIsOfLastSolver, ShowResult
    <3>2. CASE ~ReportsProblem
      <4>1. exitCode' = 0 /\ index' = index /\ rows' = Append(rows, index)
        BY <1>4, <1>6, <2>1, <3>2 DEF ShowResult
      <4>2. converged'
        BY <1>1, <1>7, <3>2, Zenon
      <4>3. ~settings.force => rows' = <<index'>>
        <5>1. Append(<< >>, index) = <<index>>
          BY DEF CaseState, Types
        <5> QED BY <1>3, <4>1, <5>1, Zenon
      <4> QED BY <1>1, <4>1, <4>2, <4>3 DEF RowIsOfLastSolver
    <3> QED BY <3>1, <3>2
  <2> QED BY <2>2, <2>3 DEF OutputOfLastSolver
<1>9. stage' # "exit" => ReportsProblem
  BY <1>1, AfterCaseStage
<1>10. NoOutputOfFailures'
  <2> SUFFICES ASSUME stage' # "exit", ~settings.force
               PROVE  blocks'.spectrum = 0 /\ rows' = << >>
    <3>1. codes' # << >>
      BY <1>1 DEF AfterCase, CaseState, Types
    <3> QED BY <1>1, <3>1 DEF NoOutputOfFailures
  <2> QED BY <1>3, <1>5, <1>6, <1>9 DEF ShowResult
<1> QED
  BY <1>8, <1>10 DEF OutputState, OutputOfLastSolver

LEMMA OutputStep ==
  ASSUME GeneratorInv, CaseState, OutputState, [PStep]_<<vars, programVars>>
  PROVE  OutputState'
<1> USE DEF OutputState, NoOutputOfFailures
<1>1. ASSUME UNCHANGED programVars, UNCHANGED <<settings, converged>> PROVE OutputState'
  BY <1>1
  DEF programVars, output, OutputOfLastSolver, FileIsOfLastSolver, RowIsOfLastSolver
<1>2. ASSUME GeneratorStep PROVE OutputState'
  <2>1. UNCHANGED programVars /\ stage = "solver" /\ UNCHANGED settings
    BY <1>2 DEF GeneratorStep, RunStep, QedQcdTo, Throw, SetUp, Solve, Guess, BeginIteration,
       ImposeLow, ImposeHigh, ImposeSusy, TestConvergence, ImposeLowAgain,
       SolveEwsbAtPoleScale, CalculateSpectrum, RunToOutputScale, BreakDown, Translate, Report
  <2> QED BY <2>1 DEF programVars, output, OutputOfLastSolver
<1>3. ASSUME Start PROVE OutputState'
  BY <1>3 DEF Start, vars, output, CaseState, CasesInOrder, OutputOfLastSolver
<1>4. ASSUME InputFails PROVE OutputState'
  <2>1. UNCHANGED <<readable, settings, blocks, rows>> /\ ~readable /\ stage = "next"
    BY <1>4 DEF InputFails, AfterCase, vars, output
  <2>2. codes' # << >>
    BY <1>4 DEF InputFails, AfterCase, CaseState, Types
  <2> QED
    BY <2>1, <2>2 DEF OutputOfLastSolver
<1>5. ASSUME RunGenerator PROVE OutputState'
  <2>1. UNCHANGED <<codes, blocks, rows>> /\ stage = "next" /\ stage' = "solver"
    BY <1>5 DEF RunGenerator, output
  <2>2. codes # << >> => settings' = settings
    BY <1>5 DEF RunGenerator, NewGenerator
  <2> QED
    BY <2>1, <2>2 DEF OutputOfLastSolver
<1>6. ASSUME WriteResult PROVE OutputState'
  BY <1>6, WriteResultStep
<1> QED
  BY <1>1, <1>2, <1>3, <1>4, <1>5, <1>6 DEF PStep, vars, ghosts

\* The SLHA file and the database are those of the solver whose exit code the
\* program returns: nothing a solver that failed has left is among them,
\* unless output is forced.  The file is written even when the solver failed.
\* QedQcd::to() may throw whatever flags a problem of the model.
THEOREM OutputOfLastSolverInvariant ==
  ASSUME "NoConvergence" \notin QedQcdErrors
  PROVE  PSpec => []OutputOfLastSolver
<1>1. PInit => ProgramInv
  <2>1. PInit => GeneratorInv
    BY TypeInit, RunStateInit DEF PInit, GeneratorInv
  <2>2. PInit => OutputState
    BY DEF PInit, NoBlocks, OutputState, NoOutputOfFailures, OutputOfLastSolver
  <2> QED BY <2>1, <2>2, CaseInit DEF ProgramInv
<1>2. ProgramInv /\ [PStep]_<<vars, programVars>> => ProgramInv'
  BY GeneratorInvStep, CaseStep, OutputStep DEF ProgramInv
<1>3. ProgramInv => OutputOfLastSolver
  BY DEF ProgramInv, OutputState
<1> QED BY <1>1, <1>2, <1>3, PTL DEF PSpec

\* Each solver's verdict is that of its own run: whatever the solvers before
\* it did, one that reports no problem has converged, and every exception met
\* is reported to run_solver().
THEOREM EverySolverReports ==
  ASSUME "NoConvergence" \notin QedQcdErrors
  PROVE  PSpec => [](TypeOK /\ CleanMeansConverged /\ ExceptionReported)
<1>1. PInit => GeneratorInv
  BY TypeInit, RunStateInit DEF PInit, GeneratorInv
<1>2. GeneratorInv /\ [PStep]_<<vars, programVars>> => GeneratorInv'
  BY GeneratorInvStep
<1>3. GeneratorInv => TypeOK /\ CleanMeansConverged /\ ExceptionReported
  BY DEF GeneratorInv, RunState, CleanMeansConverged, Clean, Converged, ExceptionReported
<1> QED BY <1>1, <1>2, <1>3, PTL DEF PSpec

\* ... and the spectrum it hands out and the problems it reports are of its own
\* last iteration, under the assumptions of the theorems about one generator.
THEOREM EverySolverHandsOutItsOwn ==
  ASSUME CustomTreeSolver \/ 0 \notin EwsbLoops, "NoConvergence" \notin QedQcdErrors
  PROVE  PSpec => [](CleanMeansSpectrum /\ ReportsLastIteration)
<1> DEFINE Inv == GeneratorInv /\ SpectrumState /\ RaisedState
<1>1. PInit => Inv
  <2> SUFFICES ASSUME PInit PROVE Inv
    OBVIOUS
  <2>1. GeneratorInv
    BY TypeInit, RunStateInit DEF PInit, GeneratorInv
  <2>2. SpectrumState /\ RaisedState
    BY DEF PInit, Init, SpectrumState, RaisedState, Solving
  <2> QED BY <2>1, <2>2
<1>2. Inv /\ [PStep]_<<vars, programVars>> => Inv'
  <2> SUFFICES ASSUME Inv, [PStep]_<<vars, programVars>> PROVE Inv'
    OBVIOUS
  <2>1. GeneratorInv'
    BY GeneratorInvStep
  <2>2. CASE [Next]_vars
    BY <2>1, <2>2, SpectrumStep, RaisedStep DEF GeneratorInv
  <2>3. CASE RunGenerator
    <3>1. pc' = "qedqcd"
      BY <2>3 DEF RunGenerator, NewGenerator
    <3> QED BY <2>1, <3>1 DEF SpectrumState, RaisedState, Solving
  <2>4. [Next]_vars \/ RunGenerator
    BY DEF PStep, Start, InputFails, GeneratorStep, WriteResult, Next
  <2> QED BY <2>2, <2>3, <2>4
<1>3. Inv => CleanMeansSpectrum /\ ReportsLastIteration
  BY DEF GeneratorInv, RunState, SpectrumState, RaisedState, LeftByQedQcd, CleanMeansSpectrum,
         Clean, ReportsProblem, ReportsLastIteration
<1> HIDE DEF Inv
<1> QED BY <1>1, <1>2, <1>3, PTL DEF PSpec
==============================================================================

---------------------- MODULE SemiAnalyticSolverProofs ----------------------
(***************************************************************************)
(* Theorems about SemiAnalyticSolver, for every pair of towers and testers *)
(* and all data.  While solve() runs its inner solver, that solver is in   *)
(* the states of TwoScaleSolver, so that the lemmas about one step of it   *)
(* are those of TwoScaleSolverProofs.                                      *)
(***************************************************************************)
EXTENDS SemiAnalyticSolver, TwoScaleSolverProofs

InnerOutcomes == {"converged", "noConvergence", "returned"}

OGhostType == [imposed : Seq(Nat), flagged : SUBSET Models, fresh : BOOLEAN,
               ends : Seq([Models -> SnapshotType]), inner : InnerOutcomes \cup {"none", "thrown"}]

-----------------------------------------------------------------------------
(* The inductive invariant.                                                *)

\* Types of the variables of the outer solver.
OuterConfigTypes ==
  /\ inner \in Seq(SliderType) /\ outer \in Seq(SliderType)
  /\ DOMAIN outerTesters \subseteq Models
  /\ \A m \in DOMAIN outerTesters : outerTesters[m] \in TesterType
  /\ hasInner \in BOOLEAN /\ hasOuter \in BOOLEAN
  /\ oGuesser \in BOOLEAN /\ oCalc \in BOOLEAN

OuterControlTypes ==
  /\ oPrecision \in Precisions /\ oIteration \in Nat /\ oScale \in Scales
  /\ oPc \in {"idle", "iterate", "inner", "run1", "run2", "impose", "test"}
  /\ oCur \in Nat
  /\ oReached \in BOOLEAN /\ noConvInner \in BOOLEAN
  /\ oGhost \in OGhostType

OuterTypes == OuterConfigTypes /\ OuterControlTypes

\* The inner solver lives only within solve().
Lifetime ==
  /\ oPc # "inner" => pc = "idle"
  /\ oPc = "idle" => sliders = << >> /\ result = "none"

\* The state of the models an inner solution starts from.
InnerBegins ==
  /\ pc = "idle" /\ ghost = NoGhost
  /\ \A m \in DOMAIN testers : testers[m].count = 0

\* The inner solver: set up with the inner tower, started once, with a fresh
\* tester; it returns with one of four outcomes.
InnerRuns ==
  oPc = "inner" =>
    /\ sliders = inner /\ hasTester /\ ~hasGuesser
    /\ result \in InnerOutcomes \cup {"none", "running", "thrown"}
    /\ result = "none" => InnerBegins
    /\ pc # "idle" <=> result = "running"
    /\ result = "running" => ghost.fresh
    /\ result = "converged" => AgreeOnLastTwo(testers, ghost.ends)

\* The problems of the models are those the inner solution has raised so far.
InnerProblems ==
  oPc = "inner" =>
    /\ oGhost.flagged = {}
    /\ ghost.flagged \subseteq ModelsOf(inner)
    /\ result # "thrown" => \A m \in ModelsOf(Tower) : model[m].problem <=> m \in ghost.flagged

\* The outer sliders.
AfterInner == InOuterSlider \/ oPc = "test"

OuterSliders ==
  /\ oPc = "inner" => oGhost.imposed = << >>
  /\ InOuterSlider => oCur \in DOMAIN outer /\ oGhost.imposed = [i \in 1..(oCur - 1) |-> i]
  /\ oPc = "test" => oGhost.imposed = [i \in DOMAIN outer |-> i]

\* How the inner solution of the iteration ended is remembered.
InnerRemembered ==
  /\ AfterInner \/ (oPc = "iterate" /\ oIteration > 0) =>
       /\ oGhost.inner \in InnerOutcomes
       /\ noConvInner <=> oGhost.inner = "noConvergence"
  /\ oPc = "iterate" /\ oReached => oIteration > 0

\* Between the two runnings of a matching, the first model stands at its scale.
OuterFirstModelRun ==
  oPc = "run2" => model[outer[oCur].m1].scale = condScale[outer[oCur].cond]

\* The outer testers follow the outer iterations.
OuterTestersFollow ==
  oPc # "idle" =>
    /\ DOMAIN outerTesters # {}
    /\ Len(oGhost.ends) = oIteration
    /\ oGhost.fresh => FollowEnds(outerTesters, oGhost.ends)
    /\ oGhost.fresh /\ oReached /\ oPc = "iterate" => AgreeOnLastTwo(outerTesters, oGhost.ends)

InnerStage == SolverInv /\ Lifetime /\ InnerRuns /\ InnerProblems

OuterStage ==
  /\ OuterSliders /\ InnerRemembered /\ OuterFirstModelRun /\ OuterImposedAtScale
  /\ ProblemsOfOuterIteration /\ OuterTestersFollow

SemiInv == OuterTypes /\ InnerStage /\ OuterStage

-----------------------------------------------------------------------------
(* The models of the towers.                                               *)

LEMMA ModelsOfBoth ==
  ASSUME inner \in Seq(SliderType), outer \in Seq(SliderType)
  PROVE  /\ ModelsOf(inner) \subseteq ModelsOf(Tower)
         /\ \A i \in DOMAIN outer : SliderModels(outer[i]) \subseteq ModelsOf(Tower)
         /\ ModelsOf(Tower) \subseteq Models
<1>1. /\ Tower \in Seq(SliderType) /\ Len(Tower) = Len(inner) + Len(outer)
      /\ Len(inner) \in Nat /\ Len(outer) \in Nat
      /\ \A i \in 1..Len(inner) : Tower[i] = inner[i]
      /\ \A i \in 1..Len(outer) : Tower[Len(inner) + i] = outer[i]
      /\ \A i \in DOMAIN Tower : Tower[i] \in SliderType
  BY DEF Tower
<1>2. DOMAIN Tower = 1..Len(Tower) /\ DOMAIN inner = 1..Len(inner) /\ DOMAIN outer = 1..Len(outer)
  BY <1>1
<1>3. ASSUME NEW i \in DOMAIN inner
      PROVE  \E j \in DOMAIN Tower : Tower[j] = inner[i]
  <2>1. i \in DOMAIN Tower /\ Tower[i] = inner[i]
    BY <1>1, <1>2
  <2> QED BY <2>1
<1>4. ASSUME NEW i \in DOMAIN outer
      PROVE  \E j \in DOMAIN Tower : Tower[j] = outer[i]
  <2>1. Len(inner) + i \in DOMAIN Tower /\ Tower[Len(inner) + i] = outer[i]
    BY <1>1, <1>2
  <2> QED BY <2>1
<1> HIDE DEF Tower
<1>5. \A i \in DOMAIN Tower : SliderModels(Tower[i]) \subseteq Models
  BY <1>1 DEF SliderModels, SliderType
<1> QED
  BY <1>3, <1>4, <1>5 DEF ModelsOf

LEMMA ModelsOfInner ==
  ASSUME sliders \in Seq(SliderType), sliders = inner
  PROVE  ModelsOf(inner) = TowerModels
<1>1. \A i \in DOMAIN sliders : SliderModels(sliders[i]) \subseteq Models
  BY DEF SliderModels, SliderType
<1> QED BY <1>1 DEF ModelsOf, TowerModels, InTower

-----------------------------------------------------------------------------
(* One step of the inner solver.                                           *)

\* A step of solve() keeps the set-up; it goes on, throws or returns.
LEMMA SolveStepOutcome ==
  ASSUME SolverInv, SolveStep
  PROVE  /\ UNCHANGED <<sliders, hasTester, hasGuesser, hasCalc>> /\ pc # "idle"
         /\ \/ pc' # "idle" /\ result' = result /\ ghost'.fresh = ghost.fresh
            \/ pc' = "idle" /\ result' = "thrown"
            \/ /\ pc = "iterate" /\ pc' = "idle" /\ UNCHANGED <<testers, ghost>>
               /\ result' \in {"converged", "noConvergence"}
               /\ result' = "converged" => reached
<1>1. ghost \in GhostType
  BY DEF SolverInv, Bookkeeping, TypeOK, DataTypes
<1>2. CASE BeginIteration
  BY <1>1, <1>2 DEF BeginIteration, config, GhostType
<1>3. ASSUME NEW m, NEW next, RunModel(m, next), next # "idle", pc # "idle"
      PROVE  /\ UNCHANGED config
             /\ \/ pc' # "idle" /\ result' = result /\ ghost' = ghost
                \/ pc' = "idle" /\ result' = "thrown"
  BY <1>3 DEF RunModel, Leave, config
<1>4. CASE RunFirst
  BY <1>3, <1>4 DEF RunFirst, config
<1>5. CASE RunSecond
  BY <1>3, <1>5 DEF RunSecond, config
<1>6. CASE Impose
  <2>1. PICK p \in BOOLEAN, s \in {sliders[cur]} :
          \/ /\ ghost' = [ghost EXCEPT !.imposed = Append(@, cur),
                           !.flagged = IF p THEN @ \cup {s.m2} ELSE @]
             /\ pc' = AfterSlider(cur) /\ UNCHANGED config /\ result' = result
          \/ Leave
    BY <1>6 DEF Impose
  <2> QED BY <1>1, <1>6, <2>1 DEF Impose, AfterSlider, Leave, config, GhostType
<1>7. CASE TestAccuracy
  BY <1>1, <1>7 DEF TestAccuracy, Leave, config, GhostType
<1>8. CASE EndSolve
  BY <1>8 DEF EndSolve, config
<1> QED BY <1>2, <1>4, <1>5, <1>6, <1>7, <1>8 DEF SolveStep

\* The problems of a set of models with the tower in it stay those that were
\* raised: solve() raises and clears problems in its tower only.
LEMMA SolveStepProblems ==
  ASSUME SolverInv, SolveStep, NEW S \in SUBSET Models, TowerModels \subseteq S,
         ghost.flagged \subseteq TowerModels,
         \A m \in S : model[m].problem <=> m \in ghost.flagged
  PROVE  /\ ghost'.flagged \subseteq TowerModels
         /\ result' # "thrown" => \A m \in S : model'[m].problem <=> m \in ghost'.flagged
<1>1. TypeOK /\ ghost \in GhostType /\ model \in [Models -> ModelType]
  BY DEF SolverInv, Bookkeeping, TypeOK, DataTypes
<1>2. CASE BeginIteration
  <2>1. ghost'.flagged = {}
    BY <1>1, <1>2 DEF BeginIteration, GhostType
  <2>2. \A m \in S : model'[m] = IF m \in TowerModels THEN [model[m] EXCEPT !.problem = FALSE]
                                ELSE model[m]
    BY <1>2 DEF BeginIteration, ClearProblems, TowerModels
  <2>3. \A m \in S : ~model'[m].problem
    BY <1>1, <2>2 DEF ModelType
  <2> QED BY <2>1, <2>3
<1>3. ASSUME InSlider, NEW m \in Models, NEW next, RunModel(m, next)
      PROVE  ghost' = ghost /\ \A k \in Models : model'[k].problem = model[k].problem
  <2> DEFINE s == sliders[cur]
  <2>1. s \in SliderType /\ condScale[s.cond] \in Scales
    BY <1>1, <1>3
    DEF SolverInv, Bookkeeping, TowerWhileSolving, TypeOK, ConfigTypes, DataTypes, SliderType
  <2>2. PICK q \in Scales : model' = [Precise(s) EXCEPT ![m].scale = q]
    BY <1>3, <2>1 DEF RunModel
  <2>3. ghost' = ghost
    BY <1>3 DEF RunModel, Leave
  <2> HIDE DEF s
  <2>4. /\ Precise(s) \in [Models -> ModelType]
        /\ \A k \in Models : Precise(s)[k].problem = model[k].problem
    BY <1>1, <2>1, PreciseType DEF Precise, ModelType
  <2>5. model' = RunAt(Precise(s), m, q)
    BY <2>2 DEF RunAt
  <2> QED BY <2>2, <2>3, <2>4, <2>5, RunModels
<1>4. ASSUME InSlider
      PROVE  sliders[cur].m1 \in Models /\ sliders[cur].m2 \in TowerModels
  BY <1>1, <1>4
  DEF SolverInv, Bookkeeping, TowerWhileSolving, TypeOK, ConfigTypes, SliderType, TowerModels,
      InTower, SliderModels
<1>5. CASE RunFirst
  BY <1>3, <1>4, <1>5 DEF RunFirst, InSlider
<1>6. CASE RunSecond
  BY <1>3, <1>4, <1>6 DEF RunSecond, InSlider, TowerModels
<1>7. CASE Impose
  <2> DEFINE s == sliders[cur]
  <2>1. s.m2 \in TowerModels /\ s.m2 \in Models
    BY <1>4, <1>7 DEF Impose, InSlider, TowerModels
  <2>2. PICK t \in Trajectories, p \in BOOLEAN :
          /\ model' = [model EXCEPT ![s.m2].traj = t, ![s.m2].problem = @ \/ p]
          /\ \/ ghost' = [ghost EXCEPT !.imposed = Append(@, cur),
                            !.flagged = IF p THEN @ \cup {s.m2} ELSE @]
             \/ Leave
    BY <1>7 DEF Impose
  <2> HIDE DEF s
  <2>3. CASE Leave
    BY <2>3 DEF Leave
  <2>4. CASE ~Leave
    <3>1. ghost'.flagged = IF p THEN ghost.flagged \cup {s.m2} ELSE ghost.flagged
      BY <1>1, <2>2, <2>4 DEF GhostType
    <3>2. \A k \in Models : model'[k].problem <=> model[k].problem \/ (k = s.m2 /\ p)
      BY <1>1, <2>1, <2>2, ImposedModels
    <3> QED BY <2>1, <3>1, <3>2
  <2> QED BY <2>3, <2>4
<1>8. CASE TestAccuracy
  BY <1>1, <1>8 DEF TestAccuracy, Leave, GhostType
<1>9. CASE EndSolve
  BY <1>9 DEF EndSolve
<1> QED BY <1>2, <1>5, <1>6, <1>7, <1>8, <1>9 DEF SolveStep
-----------------------------------------------------------------------------
(* Outside the stages.                                                     *)

\* Outside solve() only the types are claimed of the inner solver ...
LEMMA InnerIdle ==
  ASSUME TypeOK', pc' = "idle"
  PROVE  SolverInv'
BY IdleBookkeeping, IdleObservations DEF SolverInv

\* ... and of the outer one.
LEMMA OuterIdle ==
  ASSUME oPc' = "idle"
  PROVE  OuterStage' /\ InnerRuns' /\ InnerProblems'
BY DEF OuterStage, OuterSliders, InnerRemembered, OuterFirstModelRun, OuterImposedAtScale,
       ProblemsOfOuterIteration, OuterTestersFollow, InnerRuns, InnerProblems, InOuterSlider,
       AfterInner

LEMMA SemiIdle ==
  ASSUME OuterTypes', TypeOK', pc' = "idle", oPc' = "idle", sliders' = << >>, result' = "none"
  PROVE  SemiInv'
BY InnerIdle, OuterIdle DEF SemiInv, InnerStage, Lifetime

\* Out of the inner stage nothing is claimed of the inner solver but its end.
LEMMA InnerDone ==
  ASSUME TypeOK', pc' = "idle", oPc' \notin {"idle", "inner"}
  PROVE  InnerStage'
BY InnerIdle DEF InnerStage, Lifetime, InnerRuns, InnerProblems

\* The inner solver of one solve() is no more.
LEMMA GoneType ==
  ASSUME TypeOK, Gone, UNCHANGED testers,
         model' \in [Models -> ModelType], condScale' \in [Conditions -> Scales \ {0}]
  PROVE  TypeOK' /\ pc' = "idle" /\ sliders' = << >> /\ result' = "none"
<1>1. /\ hasTester' \in BOOLEAN /\ hasGuesser' \in BOOLEAN /\ hasCalc' \in BOOLEAN
      /\ reached' \in BOOLEAN
  BY DEF Gone
<1>2. sliders' = << >> /\ pc' = "idle" /\ result' = "none" /\ ghost' \in GhostType
  BY DEF Gone, NoGhost, GhostType
<1>3. ConfigTypes'
  BY <1>1, <1>2 DEF TypeOK, ConfigTypes
<1>4. ControlTypes'
  BY <1>1, <1>2, SolverAssumption DEF Gone, ControlTypes, Precisions
<1>5. DataTypes'
  BY <1>2 DEF DataTypes
<1> QED BY <1>2, <1>3, <1>4, <1>5 DEF TypeOK

\* An exception leaves the outer solver in its types and outside solve().
LEMMA OLeaveInv ==
  ASSUME SemiInv, OLeave, oGhost' \in OGhostType,
         model' \in [Models -> ModelType], condScale' \in [Conditions -> Scales \ {0}],
         DOMAIN outerTesters' \subseteq Models,
         \A m \in DOMAIN outerTesters' : outerTesters'[m] \in TesterType
  PROVE  SemiInv'
<1>1. TypeOK /\ OuterTypes
  BY DEF SemiInv, InnerStage, SolverInv, Bookkeeping
<1>2. TypeOK' /\ pc' = "idle" /\ sliders' = << >> /\ result' = "none" /\ oPc' = "idle"
  BY <1>1, GoneType DEF OLeave
<1>3. OuterTypes'
  BY <1>1, <1>2 DEF OLeave, OuterTypes, OuterConfigTypes, OuterControlTypes, oConfig, oLocals
<1> QED BY <1>2, <1>3, SemiIdle

LEMMA InitSemi == OInit => SemiInv
<1> SUFFICES ASSUME OInit PROVE SemiInv
  OBVIOUS
<1>1. SolverInv /\ Init
  BY InitSolver DEF OInit
<1>2. /\ hasInner \in BOOLEAN /\ hasOuter \in BOOLEAN /\ oGuesser \in BOOLEAN /\ oCalc \in BOOLEAN
      /\ oReached \in BOOLEAN /\ noConvInner \in BOOLEAN
  BY DEF OInit
<1>3. oGhost \in OGhostType
  BY DEF OInit, NoOuterGhost, OGhostType, InnerOutcomes
<1>4. OuterTypes
  BY <1>2, <1>3, SolverAssumption
  DEF OInit, OuterTypes, OuterConfigTypes, OuterControlTypes, Precisions
<1>5. OuterStage /\ InnerRuns /\ InnerProblems /\ Lifetime
  BY <1>1
  DEF OInit, Init, OuterStage, OuterSliders, InnerRemembered, OuterFirstModelRun,
      OuterImposedAtScale, ProblemsOfOuterIteration, OuterTestersFollow, InnerRuns, InnerProblems,
      InOuterSlider, AfterInner, Lifetime
<1> QED BY <1>1, <1>4, <1>5 DEF SemiInv, InnerStage

-----------------------------------------------------------------------------
(* The client's calls.                                                     *)

LEMMA UnchangedType == ASSUME TypeOK, UNCHANGED vars PROVE TypeOK'
BY DEF TypeOK, ConfigTypes, ControlTypes, DataTypes, vars, config, locals

\* New testers, whatever their maxima.
LEMMA NewTestersType ==
  ASSUME NEW ms \in SUBSET Models, NEW max \in [ms -> MaxIts]
  PROVE  \A m \in DOMAIN max : m \in Models /\ Tester!NewTester(max[m]) \in TesterType
BY SolverAssumption DEF Tester!NewTester, Tester!Blank, TesterType, SnapshotType

LEMMA OClientInv ==
  ASSUME SemiInv, OClient, ~OSolve
  PROVE  SemiInv'
<1>1. /\ TypeOK /\ OuterTypes /\ OuterConfigTypes /\ OuterControlTypes
      /\ oPc = "idle" /\ pc = "idle" /\ sliders = << >> /\ result = "none"
  BY DEF SemiInv, InnerStage, SolverInv, Bookkeeping, Lifetime, OuterTypes, OClient, AddInner,
         AddOuter, SetInnerTester, SetOuterTester, RestartOuterTester, OSetGuesserAndPrecision,
         OReset, ORunTo, OSolveNothing, OSolve, OIdle
<1>2. ASSUME UNCHANGED vars, OuterConfigTypes', OuterControlTypes', oPc' = oPc
      PROVE  SemiInv'
  <2>1. TypeOK' /\ pc' = "idle" /\ sliders' = << >> /\ result' = "none"
    BY <1>1, <1>2, UnchangedType DEF vars, config
  <2> QED BY <1>1, <1>2, <2>1, SemiIdle DEF OuterTypes
<1>3. ASSUME NEW s \in Sliders, AddInner(s) \/ AddOuter(s)
      PROVE  SemiInv'
  <2>1. s \in SliderType
    BY DEF Sliders
  <2>2. inner' \in Seq(SliderType) /\ outer' \in Seq(SliderType)
    <3>1. inner \in Seq(SliderType) /\ outer \in Seq(SliderType)
      BY <1>1 DEF OuterConfigTypes
    <3>2. /\ inner' = inner \/ inner' = Append(inner, s)
          /\ outer' = outer \/ outer' = Append(outer, s)
      BY <1>3 DEF AddInner, AddOuter
    <3>3. Append(inner, s) \in Seq(SliderType) /\ Append(outer, s) \in Seq(SliderType)
      BY <2>1, <3>1
    <3> QED BY <3>1, <3>2, <3>3
  <2>3. OuterConfigTypes' /\ OuterControlTypes'
    BY <1>1, <1>3, <2>2 DEF AddInner, AddOuter, OuterConfigTypes, OuterControlTypes, oLocals
  <2> QED BY <1>2, <1>3, <2>3 DEF AddInner, AddOuter
<1>4. ASSUME NEW ms \in SUBSET Models, NEW max \in [ms -> MaxIts], SetInnerTester(max)
      PROVE  SemiInv'
  <2>1. DOMAIN testers' \subseteq Models /\ \A m \in DOMAIN testers' : testers'[m] \in TesterType
    BY <1>4, NewTestersType DEF SetInnerTester
  <2>2. ConfigTypes' /\ ControlTypes' /\ DataTypes'
    BY <1>1, <1>4, <2>1
    DEF SetInnerTester, innerSolver, TypeOK, ConfigTypes, ControlTypes, DataTypes, locals
  <2>3. hasInner' \in BOOLEAN
    BY <1>4 DEF SetInnerTester
  <2>4. OuterTypes'
    BY <1>1, <1>4, <2>3
    DEF SetInnerTester, OuterTypes, OuterConfigTypes, OuterControlTypes, oLocals
  <2> QED BY <1>1, <1>4, <2>2, <2>4, SemiIdle DEF SetInnerTester, innerSolver, TypeOK
<1>5. ASSUME NEW ms \in SUBSET Models, NEW max \in [ms -> MaxIts], SetOuterTester(max)
      PROVE  SemiInv'
  <2>1. /\ DOMAIN outerTesters' \subseteq Models
        /\ \A m \in DOMAIN outerTesters' : outerTesters'[m] \in TesterType
    BY <1>5, NewTestersType DEF SetOuterTester
  <2>2. hasOuter' \in BOOLEAN
    BY <1>5 DEF SetOuterTester
  <2>3. OuterConfigTypes' /\ OuterControlTypes'
    BY <1>1, <1>5, <2>1, <2>2 DEF SetOuterTester, OuterConfigTypes, OuterControlTypes, oLocals
  <2> QED BY <1>2, <1>5, <2>3 DEF SetOuterTester
<1>6. CASE RestartOuterTester
  <2>1. /\ DOMAIN outerTesters' \subseteq Models
        /\ \A m \in DOMAIN outerTesters' : outerTesters'[m] \in TesterType
    BY <1>1, <1>6, CompositeRestartedType DEF RestartOuterTester, OuterConfigTypes
  <2>2. OuterConfigTypes' /\ OuterControlTypes'
    BY <1>1, <1>6, <2>1 DEF RestartOuterTester, OuterConfigTypes, OuterControlTypes, oLocals
  <2> QED BY <1>2, <1>6, <2>2 DEF RestartOuterTester
<1>7. ASSUME NEW g \in BOOLEAN, NEW p \in BOOLEAN, OSetGuesserAndPrecision(g, p)
      PROVE  SemiInv'
  <2>1. oGuesser' \in BOOLEAN /\ oCalc' \in BOOLEAN
    BY <1>7 DEF OSetGuesserAndPrecision
  <2>2. OuterConfigTypes' /\ OuterControlTypes'
    BY <1>1, <1>7, <2>1
    DEF OSetGuesserAndPrecision, OuterConfigTypes, OuterControlTypes, oLocals
  <2> QED BY <1>2, <1>7, <2>2 DEF OSetGuesserAndPrecision
<1>8. CASE OReset
  <2>1. /\ hasInner' \in BOOLEAN /\ hasOuter' \in BOOLEAN
        /\ oGuesser' \in BOOLEAN /\ oCalc' \in BOOLEAN
    BY <1>8 DEF OReset
  <2>2. OuterTypes'
    BY <1>1, <1>8, <2>1, SolverAssumption
    DEF OReset, OuterTypes, OuterConfigTypes, OuterControlTypes, oLocals, Precisions
  <2>3. ConfigTypes' /\ ControlTypes' /\ DataTypes'
    BY <1>1, <1>8
    DEF OReset, innerSolver, TypeOK, ConfigTypes, ControlTypes, DataTypes, locals
  <2> QED BY <1>1, <1>8, <2>2, <2>3, SemiIdle DEF OReset, innerSolver, TypeOK
<1>9. ASSUME NEW s \in Scales \ {0}, ORunTo(s)
      PROVE  SemiInv'
  <2>1. model' \in [Models -> ModelType]
    <3>1. model \in [Models -> ModelType]
      BY <1>1 DEF TypeOK, DataTypes
    <3>2. \/ model' = model
          \/ \E t \in Scales : \E m \in OModelsAt(s) : model' = [model EXCEPT ![m].scale = t]
      BY <1>9 DEF ORunTo
    <3> QED BY <3>1, <3>2 DEF ModelType
  <2>2. ConfigTypes' /\ ControlTypes' /\ DataTypes'
    BY <1>1, <1>9, <2>1
    DEF ORunTo, innerSolver, TypeOK, ConfigTypes, ControlTypes, DataTypes, locals
  <2>3. OuterTypes'
    BY <1>1, <1>9
    DEF ORunTo, OuterTypes, OuterConfigTypes, OuterControlTypes, oConfig, oLocals
  <2> QED BY <1>1, <1>9, <2>2, <2>3, SemiIdle DEF ORunTo, innerSolver, TypeOK
<1>10. CASE OSolveNothing
  <2>1. oGhost' \in OGhostType
    BY <1>10 DEF OSolveNothing, NoOuterGhost, OGhostType, InnerOutcomes
  <2>2. OuterConfigTypes' /\ OuterControlTypes'
    BY <1>1, <1>10, <2>1
    DEF OSolveNothing, OuterConfigTypes, OuterControlTypes, oConfig, oLocals
  <2> QED BY <1>2, <1>10, <2>2 DEF OSolveNothing
<1> QED
  BY <1>3, <1>4, <1>5, <1>6, <1>7, <1>8, <1>9, <1>10 DEF OClient
-----------------------------------------------------------------------------
(* solve(), up to the end of the inner solution.                           *)

LEMMA GuessType ==
  ASSUME TypeOK, NEW has, InitialGuess(has)
  PROVE  model' \in [Models -> ModelType]
<1>1. model \in [Models -> ModelType]
  BY DEF TypeOK, DataTypes
<1>2. CASE UNCHANGED model
  BY <1>1, <1>2
<1>3. ASSUME NEW g \in [Models -> Guess], model' = Guessed(g)
      PROVE  model' \in [Models -> ModelType]
  <2>1. \A m \in Models : /\ g[m].scale \in Scales /\ g[m].traj \in Trajectories
                          /\ (model[m].problem \/ g[m].problem) \in BOOLEAN
                          /\ model[m].precision \in Precisions
    BY <1>1 DEF ModelType, Guess
  <2> QED BY <1>3, <2>1 DEF Guessed, ModelType
<1> QED BY <1>2, <1>3 DEF InitialGuess

LEMMA OSolveInv ==
  ASSUME SemiInv, OSolve
  PROVE  SemiInv'
<1>1. /\ TypeOK /\ OuterTypes
      /\ oPc = "idle" /\ pc = "idle" /\ sliders = << >> /\ result = "none"
  BY DEF SemiInv, InnerStage, SolverInv, Bookkeeping, Lifetime, OSolve, OIdle
<1>2. /\ UNCHANGED innerSolver /\ UNCHANGED <<testers, condScale, oConfig>>
      /\ InitialGuess(oGuesser)
      /\ Tester!CompositeMaxIterations(outerTesters) # 0
  BY DEF OSolve
<1>3. TypeOK' /\ pc' = "idle"
  <2>1. model' \in [Models -> ModelType]
    BY <1>1, <1>2, GuessType
  <2>2. ConfigTypes' /\ ControlTypes' /\ DataTypes'
    BY <1>1, <1>2, <2>1
    DEF innerSolver, TypeOK, ConfigTypes, ControlTypes, DataTypes, locals
  <2> QED BY <1>1, <1>2, <2>2 DEF TypeOK, innerSolver
<1> DEFINE b == \A m \in DOMAIN outerTesters : outerTesters[m].count = 0
<1>4. /\ oGhost' \in OGhostType
      /\ oGhost'.ends = << >> /\ (oGhost'.fresh => b)
  <2>1. oGhost' = [NoOuterGhost EXCEPT !.fresh = b]
    BY DEF OSolve
  <2>2. b \in BOOLEAN
    OBVIOUS
  <2> HIDE DEF b
  <2>3. oGhost' = [imposed |-> << >>, flagged |-> {}, ends |-> << >>,
                   fresh |-> b, inner |-> "none"]
    BY <2>1 DEF NoOuterGhost
  <2>4. oGhost' \in OGhostType
    BY <2>2, <2>3 DEF OGhostType
  <2> QED BY <2>3, <2>4
<1>5. CASE oPc' = "idle"
  <2>1. UNCHANGED <<oIteration, oLocals, oPrecision, oScale>>
    BY <1>5 DEF OSolve
  <2>2. OuterTypes'
    BY <1>1, <1>2, <1>4, <1>5, <2>1
    DEF OuterTypes, OuterConfigTypes, OuterControlTypes, oConfig, oLocals
  <2> QED BY <1>1, <1>2, <1>3, <1>5, <2>2, SemiIdle DEF innerSolver
<1>6. CASE oPc' # "idle"
  <2>1. /\ oPc' = "iterate" /\ oIteration' = 0 /\ oReached' = FALSE /\ noConvInner' = FALSE
        /\ oCur' = 0 /\ UNCHANGED <<oPrecision, oScale>>
    BY <1>6 DEF OSolve, OIdle
  <2>2. oReached' \in BOOLEAN /\ noConvInner' \in BOOLEAN
    BY <2>1
  <2>3. OuterTypes'
    BY <1>1, <1>2, <1>4, <2>1, <2>2
    DEF OuterTypes, OuterConfigTypes, OuterControlTypes, oConfig
  <2>4. DOMAIN outerTesters # {} /\ (oGhost'.fresh => FollowEnds(outerTesters, << >>))
    <3>1. DOMAIN outerTesters # {}
      BY <1>2 DEF Tester!CompositeMaxIterations
    <3>2. oGhost'.fresh => FollowEnds(outerTesters, << >>)
      BY <1>4 DEF FollowEnds
    <3> QED BY <3>1, <3>2
  <2>5. OuterTestersFollow'
    BY <1>2, <1>4, <2>1, <2>4 DEF OuterTestersFollow, oConfig
  <2>6. OuterStage'
    BY <2>1, <2>5
    DEF OuterStage, OuterSliders, InnerRemembered, OuterFirstModelRun, OuterImposedAtScale,
        ProblemsOfOuterIteration, InOuterSlider, AfterInner
  <2> QED BY <1>3, <2>1, <2>3, <2>6, InnerDone DEF SemiInv
<1> QED BY <1>5, <1>6

LEMMA OBeginIterationInv ==
  ASSUME SemiInv, OBeginIteration
  PROVE  SemiInv'
<1>1. /\ TypeOK /\ OuterTypes /\ oPc = "iterate" /\ pc = "idle"
      /\ OuterTestersFollow
  BY DEF SemiInv, InnerStage, OuterStage, SolverInv, Bookkeeping, Lifetime, OBeginIteration
<1>2. /\ Prepare /\ model' = OClearProblems
      /\ UNCHANGED <<condScale, oConfig, oIteration, oScale>>
      /\ oCur' = 0 /\ oPc' = "inner" /\ noConvInner' = FALSE /\ oReached' = oReached
  BY DEF OBeginIteration
<1>3. /\ sliders' = inner /\ hasTester' /\ ~hasGuesser' /\ hasCalc' = oCalc
      /\ pc' = "idle" /\ result' = "none" /\ ghost' = NoGhost
      /\ testers' = Tester!CompositeRestarted(testers)
  BY <1>1, <1>2 DEF Prepare
<1>4. /\ DOMAIN testers' = DOMAIN testers
      /\ \A m \in DOMAIN testers : testers'[m] \in TesterType /\ testers'[m].count = 0
  BY <1>1, <1>3, CompositeRestartedType DEF TypeOK, ConfigTypes
<1>5. TypeOK'
  <2>1. hasTester' \in BOOLEAN /\ hasGuesser' \in BOOLEAN /\ hasCalc' \in BOOLEAN
    BY <1>1, <1>2 DEF Prepare, OuterTypes, OuterConfigTypes
  <2>2. ConfigTypes'
    BY <1>1, <1>3, <1>4, <2>1 DEF OuterTypes, OuterConfigTypes, TypeOK, ConfigTypes
  <2>3. ControlTypes'
    BY <1>1, <1>2, <1>3, SolverAssumption DEF Prepare, TypeOK, ControlTypes, Precisions, locals
  <2>4. model' \in [Models -> ModelType]
    BY <1>1, <1>2 DEF OClearProblems, TypeOK, DataTypes, ModelType
  <2>5. DataTypes'
    BY <1>1, <1>2, <1>3, <2>4 DEF TypeOK, DataTypes, NoGhost, GhostType
  <2> QED BY <2>2, <2>3, <2>5 DEF TypeOK
<1>6. /\ oGhost' \in OGhostType
      /\ oGhost'.imposed = << >> /\ oGhost'.flagged = {}
      /\ oGhost'.ends = oGhost.ends /\ oGhost'.fresh = oGhost.fresh
  <2>1. oGhost' = [oGhost EXCEPT !.imposed = << >>, !.flagged = {}, !.inner = "none"]
    BY DEF OBeginIteration
  <2>2. oGhost \in OGhostType
    BY <1>1 DEF OuterTypes, OuterControlTypes
  <2>3. oGhost' = [imposed |-> << >>, flagged |-> {}, ends |-> oGhost.ends,
                   fresh |-> oGhost.fresh, inner |-> "none"]
    BY <2>1, <2>2 DEF OGhostType
  <2>4. oGhost.fresh \in BOOLEAN /\ oGhost.ends \in Seq([Models -> SnapshotType])
    BY <2>2 DEF OGhostType
  <2> QED BY <2>3, <2>4 DEF OGhostType
<1>7. OuterTypes'
  <2>1. oPrecision' \in Precisions
    BY <1>1, SolverAssumption
    DEF OBeginIteration, GetPrecision, OuterTypes, OuterControlTypes, Precisions
  <2>2. noConvInner' \in BOOLEAN
    BY <1>2
  <2> QED
    BY <1>1, <1>2, <1>6, <2>1, <2>2
    DEF OuterTypes, OuterConfigTypes, OuterControlTypes, oConfig
<1>8. Lifetime' /\ InnerRuns'
  BY <1>2, <1>3, <1>4 DEF Lifetime, InnerRuns, InnerBegins, oConfig
<1>9. InnerProblems'
  <2>1. ghost'.flagged = {}
    BY <1>3 DEF NoGhost
  <2>2. ModelsOf(Tower)' = ModelsOf(Tower) /\ ModelsOf(Tower) \subseteq Models
    BY <1>1, <1>2, ModelsOfBoth DEF oConfig, Tower, ModelsOf, OuterTypes, OuterConfigTypes
  <2>3. \A m \in ModelsOf(Tower) : ~model'[m].problem
    BY <1>1, <1>2, <2>2 DEF OClearProblems, TypeOK, DataTypes, ModelType
  <2> QED BY <1>6, <2>1, <2>2, <2>3 DEF InnerProblems
<1>10. OuterStage'
  <2>1. OuterTestersFollow'
    BY <1>1, <1>2, <1>6 DEF OuterTestersFollow, oConfig
  <2> QED
    BY <1>2, <1>6, <2>1
    DEF OuterStage, OuterSliders, InnerRemembered, OuterFirstModelRun, OuterImposedAtScale,
        ProblemsOfOuterIteration, InOuterSlider, AfterInner
<1> QED BY <1>3, <1>5, <1>7, <1>8, <1>9, <1>10, InnerIdle DEF SemiInv, InnerStage

\* The outer solver waits for the inner one.
LEMMA OuterWaits ==
  ASSUME SemiInv, oPc = "inner", UNCHANGED oVars
  PROVE  OuterTypes' /\ OuterStage' /\ oPc' = "inner"
<1>1. OuterTypes' /\ oPc' = "inner"
  BY DEF SemiInv, OuterTypes, OuterConfigTypes, OuterControlTypes, oVars, oConfig, oLocals
<1>2. OuterTestersFollow' /\ oGhost'.imposed = << >>
  BY DEF SemiInv, OuterStage, OuterSliders, OuterTestersFollow, oVars, oConfig, oLocals
<1> QED
  BY <1>1, <1>2
  DEF OuterStage, OuterSliders, InnerRemembered, OuterFirstModelRun, OuterImposedAtScale,
      ProblemsOfOuterIteration, InOuterSlider, AfterInner

\* The call of the inner solver.
LEMMA InnerSolveInv ==
  ASSUME SemiInv, oPc = "inner", result = "none", SolveNothing \/ Solve, UNCHANGED oVars
  PROVE  InnerStage'
<1>1. /\ SolverInv /\ TypeOK /\ Bookkeeping /\ InnerRuns /\ InnerProblems
      /\ sliders = inner /\ hasTester /\ ~hasGuesser
      /\ oGhost.flagged = {} /\ ghost = NoGhost
      /\ \A m \in DOMAIN testers : testers[m].count = 0
  BY DEF SemiInv, InnerStage, SolverInv, Bookkeeping, InnerRuns, InnerBegins, InnerProblems
<1>2. /\ oPc' = "inner" /\ inner' = inner /\ oGhost' = oGhost /\ ModelsOf(Tower)' = ModelsOf(Tower)
  BY DEF oVars, oConfig, Tower, ModelsOf
<1>3. ghost.flagged = {}
  BY <1>1 DEF NoGhost
<1>4. CASE SolveNothing
  <2>1. /\ sliders' = sliders /\ hasTester' = hasTester /\ hasGuesser' = hasGuesser
        /\ model' = model /\ ghost' = NoGhost /\ result' = "returned" /\ pc' = "idle"
    BY <1>1, <1>4 DEF SolveNothing, Idle, config
  <2>2. SolverInv'
    BY <1>1, <1>4, SolveNothingType, InnerIdle
  <2>3. Lifetime' /\ InnerRuns'
    BY <1>1, <1>2, <2>1 DEF Lifetime, InnerRuns, InnerOutcomes
  <2>4. InnerProblems'
    BY <1>1, <1>2, <2>1 DEF InnerProblems
  <2> QED BY <2>2, <2>3, <2>4 DEF InnerStage
<1>5. CASE Solve
  <2>1. /\ sliders' = sliders /\ hasTester' = hasTester /\ hasGuesser' = hasGuesser
        /\ model' = model /\ result' = "running" /\ pc' = "iterate"
    BY <1>1, <1>5 DEF Solve, InitialGuess, config
  <2>2. ghost'.fresh /\ ghost'.flagged = {}
    <3> DEFINE b == \A m \in DOMAIN testers : testers[m].count = 0
    <3>1. ghost' = [NoGhost EXCEPT !.fresh = b]
      BY <1>5 DEF Solve
    <3>2. b
      BY <1>1
    <3> HIDE DEF b
    <3>3. ghost'.fresh = b /\ ghost'.flagged = {}
      BY <3>1 DEF NoGhost
    <3> QED BY <3>2, <3>3
  <2>3. SolverInv'
    BY <1>1, <1>5, SolveBookkeeping, SolveObservations DEF SolverInv
  <2>4. Lifetime' /\ InnerRuns'
    BY <1>1, <1>2, <2>1, <2>2 DEF Lifetime, InnerRuns
  <2>5. InnerProblems'
    BY <1>1, <1>2, <1>3, <2>1, <2>2 DEF InnerProblems
  <2> QED BY <2>3, <2>4, <2>5 DEF InnerStage
<1> QED BY <1>4, <1>5

\* A step of the inner solver.
LEMMA InnerSolveStepInv ==
  ASSUME SemiInv, oPc = "inner", SolveStep, UNCHANGED oVars
  PROVE  InnerStage'
<1>1. /\ SolverInv /\ TypeOK /\ OuterTypes /\ InnerRuns /\ InnerProblems
      /\ sliders = inner /\ hasTester /\ ~hasGuesser
  BY DEF SemiInv, InnerStage, SolverInv, Bookkeeping, InnerRuns
<1>2. /\ UNCHANGED <<sliders, hasTester, hasGuesser, hasCalc>> /\ pc # "idle"
      /\ \/ pc' # "idle" /\ result' = result /\ ghost'.fresh = ghost.fresh
         \/ pc' = "idle" /\ result' = "thrown"
         \/ /\ pc = "iterate" /\ pc' = "idle" /\ UNCHANGED <<testers, ghost>>
            /\ result' \in {"converged", "noConvergence"}
            /\ result' = "converged" => reached
  BY <1>1, SolveStepOutcome
<1>3. oPc' = "inner" /\ inner' = inner /\ oGhost' = oGhost /\ ModelsOf(Tower)' = ModelsOf(Tower)
  BY DEF oVars, oConfig, Tower, ModelsOf
<1>4. result = "running" /\ ghost.fresh /\ oGhost.flagged = {}
  BY <1>1, <1>2 DEF InnerRuns, InnerProblems
<1>5. SolverInv'
  BY <1>1, SolveStepInv
<1>6. Lifetime' /\ InnerRuns'
  <2>1. reached /\ pc = "iterate" => AgreeOnLastTwo(testers, ghost.ends)
    BY <1>1, <1>4
    DEF SolverInv, Observations, ConvergedOnTwoIterations, AgreeOnLastTwo, SameParameters
  <2> QED BY <1>1, <1>2, <1>3, <1>4, <2>1 DEF Lifetime, InnerRuns, InnerOutcomes
<1>7. InnerProblems'
  <2>1. ModelsOf(inner) = TowerModels
    BY <1>1, ModelsOfInner DEF TypeOK, ConfigTypes
  <2>2. TowerModels \subseteq ModelsOf(Tower) /\ ModelsOf(Tower) \in SUBSET Models
    BY <1>1, <2>1, ModelsOfBoth DEF OuterTypes, OuterConfigTypes
  <2>3. /\ ghost.flagged \subseteq TowerModels
        /\ \A m \in ModelsOf(Tower) : model[m].problem <=> m \in ghost.flagged
    BY <1>1, <1>4, <2>1 DEF InnerProblems
  <2>4. /\ ghost'.flagged \subseteq TowerModels
        /\ result' # "thrown" =>
             \A m \in ModelsOf(Tower) : model'[m].problem <=> m \in ghost'.flagged
    BY <1>1, <2>2, <2>3, SolveStepProblems
  <2>5. ModelsOf(inner)' = TowerModels
    BY <1>3, <2>1 DEF ModelsOf
  <2> QED BY <1>3, <1>4, <2>4, <2>5 DEF InnerProblems
<1> QED BY <1>5, <1>6, <1>7 DEF InnerStage

LEMMA InnerStepInv ==
  ASSUME SemiInv, InnerStep
  PROVE  SemiInv'
<1>1. oPc = "inner" /\ UNCHANGED oVars
  BY DEF InnerStep
<1>2. InnerStage'
  BY <1>1, InnerSolveInv, InnerSolveStepInv DEF InnerStep
<1> QED BY <1>1, <1>2, OuterWaits DEF SemiInv

\* The inner solver has returned.
LEMMA InnerReturnsInv ==
  ASSUME SemiInv, InnerReturns
  PROVE  SemiInv'
<1>1. /\ TypeOK /\ OuterTypes /\ InnerRuns /\ InnerProblems
      /\ OuterTestersFollow /\ OuterSliders /\ oPc = "inner" /\ pc = "idle" /\ result # "none"
  BY DEF SemiInv, InnerStage, OuterStage, SolverInv, Bookkeeping, InnerReturns
<1>2. result \in InnerOutcomes \cup {"thrown"}
  BY <1>1 DEF InnerRuns
<1>3. oGhost \in OGhostType /\ oGhost' = [oGhost EXCEPT !.inner = result]
  BY <1>1 DEF InnerReturns, OuterTypes, OuterControlTypes
<1>4. /\ oGhost'.inner = result /\ oGhost'.ends = oGhost.ends
      /\ oGhost'.fresh = oGhost.fresh /\ oGhost'.flagged = oGhost.flagged
      /\ oGhost'.imposed = << >> /\ oGhost' \in OGhostType
  <2>1. oGhost' = [imposed |-> oGhost.imposed, flagged |-> oGhost.flagged,
                   ends |-> oGhost.ends, fresh |-> oGhost.fresh, inner |-> result]
    BY <1>3 DEF OGhostType
  <2>2. /\ oGhost.fresh \in BOOLEAN /\ oGhost.ends \in Seq([Models -> SnapshotType])
        /\ oGhost.imposed \in Seq(Nat) /\ oGhost.flagged \in SUBSET Models
    BY <1>3 DEF OGhostType
  <2>3. oGhost.imposed = << >>
    BY <1>1 DEF OuterSliders
  <2> QED BY <1>2, <2>1, <2>2, <2>3 DEF OGhostType
<1>5. CASE result = "thrown"
  <2>1. OLeave /\ UNCHANGED <<model, condScale, outerTesters>>
    BY <1>5 DEF InnerReturns
  <2> QED
    BY <1>1, <1>4, <2>1, OLeaveInv DEF TypeOK, DataTypes, OuterTypes, OuterConfigTypes
<1>6. CASE result # "thrown"
  <2>1. /\ noConvInner' = (result = "noConvergence")
        /\ oCur' = 1 /\ oPc' = OAfterSlider(0)
        /\ UNCHANGED <<vars, oConfig, oPrecision, oIteration, oScale, oMaxIt, oReached>>
    BY <1>6 DEF InnerReturns, OLeave
  <2>2. oPc' = (IF Len(outer) = 0 THEN "test" ELSE "run1")
    BY <2>1 DEF OAfterSlider
  <2>3. outer \in Seq(SliderType) /\ Len(outer) \in Nat /\ outer' = outer
    BY <1>1, <2>1 DEF OuterTypes, OuterConfigTypes, oConfig
  <2>4. OuterTypes'
    <3>1. noConvInner' \in BOOLEAN
      BY <2>1
    <3> QED
      BY <1>1, <1>4, <2>1, <2>2, <3>1
      DEF OuterTypes, OuterConfigTypes, OuterControlTypes, oConfig
  <2>5. InnerStage'
    <3>1. TypeOK'
      BY <1>1, <2>1, UnchangedType
    <3> QED BY <1>1, <2>1, <2>2, <3>1, InnerDone DEF vars
  <2>6. OuterSliders'
    <3>1. oGhost'.imposed = << >>
      BY <1>4
    <3>2. CASE Len(outer) = 0
      <4>1. outer = << >> /\ DOMAIN outer = {}
        BY <2>3, <3>2
      <4> QED BY <2>2, <2>3, <3>1, <3>2, <4>1 DEF OuterSliders, InOuterSlider
    <3>3. CASE Len(outer) # 0
      <4>1. 1 \in DOMAIN outer /\ [i \in 1..(1 - 1) |-> i] = << >>
        BY <2>3, <3>3
      <4> QED BY <2>1, <2>2, <2>3, <3>1, <3>3, <4>1 DEF OuterSliders, InOuterSlider
    <3> QED BY <3>2, <3>3
  <2>7. InnerRemembered'
    BY <1>2, <1>4, <1>6, <2>1, <2>2 DEF InnerRemembered
  <2>8. ProblemsOfOuterIteration'
    <3>1. ModelsOf(Tower)' = ModelsOf(Tower)
      BY <2>1 DEF oConfig, Tower, ModelsOf
    <3>2. /\ oGhost.flagged = {} /\ model' = model /\ ghost' = ghost
          /\ \A m \in ModelsOf(Tower) : model[m].problem <=> m \in ghost.flagged
      BY <1>1, <1>6, <2>1 DEF InnerProblems, vars
    <3> QED BY <1>4, <3>1, <3>2 DEF ProblemsOfOuterIteration
  <2>9. OuterTestersFollow'
    BY <1>1, <1>4, <2>1, <2>2 DEF OuterTestersFollow, oConfig
  <2>10. OuterFirstModelRun' /\ OuterImposedAtScale'
    BY <2>2 DEF OuterFirstModelRun, OuterImposedAtScale
  <2> QED BY <2>4, <2>5, <2>6, <2>7, <2>8, <2>9, <2>10 DEF SemiInv, OuterStage
<1> QED BY <1>5, <1>6

-----------------------------------------------------------------------------
(* The outer sliders and the outer test.                                   *)

\* The outer solver does not touch the inner one but for the models.
LEMMA OuterStepInner ==
  ASSUME SemiInv, oPc # "inner", oPc' \notin {"idle", "inner"},
         UNCHANGED innerSolver, UNCHANGED testers,
         model' \in [Models -> ModelType], condScale' \in [Conditions -> Scales \ {0}]
  PROVE  InnerStage'
<1>1. TypeOK /\ pc = "idle"
  BY DEF SemiInv, InnerStage, SolverInv, Bookkeeping, Lifetime
<1>2. ConfigTypes' /\ ControlTypes' /\ DataTypes'
  BY <1>1 DEF innerSolver, TypeOK, ConfigTypes, ControlTypes, DataTypes, locals
<1> QED BY <1>1, <1>2, InnerDone DEF TypeOK, innerSolver

\* A running of the outer iteration.
LEMMA ORunModelInv ==
  ASSUME SemiInv, oPc \in {"run1", "run2"}, NEW m \in Models, NEW next \in {"run2", "impose"},
         ORunModel(m, next),
         next = "run2" => m = outer[oCur].m1,
         next = "impose" => /\ m = outer[oCur].m2
                            /\ \/ outer[oCur].m1 = m
                               \/ model[outer[oCur].m1].scale = condScale[outer[oCur].cond]
  PROVE  SemiInv'
<1> DEFINE s == outer[oCur]
<1>1. /\ TypeOK /\ OuterTypes /\ OuterStage /\ InOuterSlider /\ AfterInner
      /\ outer \in Seq(SliderType) /\ oCur \in DOMAIN outer
  BY DEF SemiInv, InnerStage, OuterStage, SolverInv, Bookkeeping, InOuterSlider, AfterInner,
         OuterSliders, OuterTypes, OuterConfigTypes
<1>2. s \in SliderType /\ s.cond \in Conditions
  BY <1>1 DEF SliderType
<1>3. /\ model \in [Models -> ModelType] /\ condScale \in [Conditions -> Scales \ {0}]
      /\ oPrecision \in Precisions /\ condScale[s.cond] \in Scales
  BY <1>1, <1>2 DEF TypeOK, DataTypes, OuterTypes, OuterControlTypes
<1>4. UNCHANGED <<condScale, oGhost>> /\ oGhost \in OGhostType
  BY <1>1 DEF ORunModel, OuterTypes, OuterControlTypes
<1>5. OPrecise(s) \in [Models -> ModelType]
  BY <1>3 DEF OPrecise, ModelType
<1>6. PICK q \in Scales :
        /\ model' = [OPrecise(s) EXCEPT ![m].scale = q]
        /\ \/ /\ q = condScale[s.cond] /\ oPc' = next
              /\ UNCHANGED <<innerSolver, testers, oConfig, oPrecision, oIteration, oScale,
                             oLocals, oResult, oSolves>>
           \/ OLeave /\ UNCHANGED outerTesters
  BY <1>3 DEF ORunModel
<1> HIDE DEF s
<1>7. /\ model' \in [Models -> ModelType]
      /\ \A k \in Models : /\ model'[k].problem = OPrecise(s)[k].problem
                           /\ model'[k].precision = OPrecise(s)[k].precision
                           /\ k # m => model'[k].scale = OPrecise(s)[k].scale
      /\ model'[m].scale = q
  <2>1. model' = RunAt(OPrecise(s), m, q) /\ q \in Scales
    BY <1>6 DEF RunAt
  <2> QED BY <1>5, <2>1, RunModels
<1>8. CASE OLeave /\ UNCHANGED outerTesters
  BY <1>1, <1>3, <1>4, <1>7, <1>8, OLeaveInv DEF OuterTypes, OuterConfigTypes
<1>9. CASE ~(OLeave /\ UNCHANGED outerTesters)
  <2>1. /\ q = condScale[s.cond] /\ oPc' = next
        /\ UNCHANGED <<innerSolver, testers, oConfig, oPrecision, oIteration, oScale, oLocals>>
    BY <1>6, <1>9
  <2>2. \A k \in Models : /\ model'[k].problem = model[k].problem
                          /\ k # m => model'[k].scale = model[k].scale
                          /\ k \in SliderModels(s) => model'[k].precision = oPrecision
    <3>1. \A k \in Models : /\ OPrecise(s)[k].problem = model[k].problem
                            /\ OPrecise(s)[k].scale = model[k].scale
                            /\ k \in SliderModels(s) => OPrecise(s)[k].precision = oPrecision
      BY <1>3 DEF OPrecise, ModelType
    <3> QED BY <1>7, <3>1
  <2>3. /\ outer' = outer /\ oCur' = oCur /\ oPrecision' = oPrecision /\ inner' = inner
        /\ oIteration' = oIteration /\ noConvInner' = noConvInner /\ oReached' = oReached
        /\ outerTesters' = outerTesters
        /\ condScale' = condScale /\ oGhost' = oGhost /\ ghost' = ghost
    BY <1>4, <2>1 DEF oConfig, oLocals, innerSolver
  <2>4. OuterTypes'
    BY <1>1, <1>4, <2>1
    DEF OuterTypes, OuterConfigTypes, OuterControlTypes, oConfig, oLocals
  <2>5. InnerStage'
    BY <1>3, <1>4, <1>7, <2>1, OuterStepInner
  <2>6. OuterSliders'
    BY <1>1, <2>1, <2>3 DEF OuterStage, OuterSliders, InOuterSlider
  <2>7. InnerRemembered'
    BY <1>1, <2>1, <2>3 DEF OuterStage, InnerRemembered, AfterInner, InOuterSlider
  <2>8. OuterFirstModelRun'
    BY <1>2, <1>7, <2>1, <2>3 DEF OuterFirstModelRun, s
  <2>9. OuterImposedAtScale'
    <3>1. SUFFICES ASSUME next = "impose", NEW k \in SliderModels(s)
                   PROVE  model'[k].scale = condScale[s.cond] /\ model'[k].precision = oPrecision
      BY <2>1, <2>3 DEF OuterImposedAtScale, SliderModels, s
    <3>2. k \in Models /\ k \in {s.m1, s.m2}
      BY <1>2 DEF SliderModels, SliderType
    <3>3. CASE k = m
      BY <1>7, <2>1, <2>2, <3>1, <3>3
    <3>4. CASE k # m
      BY <2>1, <2>2, <3>1, <3>2, <3>4 DEF s
    <3> QED BY <3>3, <3>4
  <2>10. ProblemsOfOuterIteration'
    <3>1. ModelsOf(Tower)' = ModelsOf(Tower) /\ ModelsOf(Tower) \subseteq Models
      BY <1>1, <2>3, ModelsOfBoth DEF Tower, ModelsOf, OuterTypes, OuterConfigTypes
    <3>2. \A k \in ModelsOf(Tower) : model[k].problem <=> k \in ghost.flagged \cup oGhost.flagged
      BY <1>1 DEF OuterStage, ProblemsOfOuterIteration
    <3> QED BY <2>2, <2>3, <3>1, <3>2 DEF ProblemsOfOuterIteration
  <2>11. OuterTestersFollow'
    BY <1>1, <2>1, <2>3 DEF OuterStage, OuterTestersFollow, InOuterSlider
  <2> QED
    BY <2>4, <2>5, <2>6, <2>7, <2>8, <2>9, <2>10, <2>11 DEF SemiInv, OuterStage
<1> QED BY <1>8, <1>9

LEMMA ORunFirstInv ==
  ASSUME SemiInv, ORunFirst
  PROVE  SemiInv'
<1>1. oPc = "run1" /\ oCur \in DOMAIN outer /\ outer \in Seq(SliderType)
  BY DEF SemiInv, OuterStage, OuterSliders, InOuterSlider, OuterTypes, OuterConfigTypes, ORunFirst
<1> DEFINE s == outer[oCur]
           next == IF s.cond \in Matchings THEN "run2" ELSE "impose"
<1>2. s \in SliderType
  BY <1>1
<1>3. s.m1 \in Models /\ (next = "impose" => s.m1 = s.m2)
  BY <1>2 DEF SliderType, Conditions
<1>4. ORunModel(s.m1, next) /\ next \in {"run2", "impose"}
  BY DEF ORunFirst
<1> HIDE DEF next
<1> QED BY <1>1, <1>3, <1>4, ORunModelInv

LEMMA ORunSecondInv ==
  ASSUME SemiInv, ORunSecond
  PROVE  SemiInv'
<1>1. /\ oPc = "run2" /\ oCur \in DOMAIN outer /\ outer \in Seq(SliderType)
      /\ model[outer[oCur].m1].scale = condScale[outer[oCur].cond]
  BY DEF SemiInv, OuterStage, OuterSliders, InOuterSlider, OuterFirstModelRun, OuterTypes,
         OuterConfigTypes, ORunSecond
<1>2. outer[oCur].m2 \in Models
  BY <1>1 DEF SliderType
<1> QED BY <1>1, <1>2, ORunModelInv DEF ORunSecond

LEMMA OImposeInv ==
  ASSUME SemiInv, OImpose
  PROVE  SemiInv'
<1> DEFINE s == outer[oCur]
<1>1. /\ TypeOK /\ OuterTypes /\ OuterStage /\ oPc = "impose" /\ InOuterSlider /\ AfterInner
      /\ outer \in Seq(SliderType) /\ oCur \in DOMAIN outer
  BY DEF SemiInv, InnerStage, OuterStage, SolverInv, Bookkeeping, InOuterSlider, AfterInner,
         OuterSliders, OuterTypes, OuterConfigTypes, OImpose
<1>2. s \in SliderType /\ s.cond \in Conditions /\ s.m2 \in Models
  BY <1>1 DEF SliderType
<1>3. /\ model \in [Models -> ModelType] /\ condScale \in [Conditions -> Scales \ {0}]
      /\ oGhost \in OGhostType /\ oCur \in Nat
  BY <1>1 DEF TypeOK, DataTypes, OuterTypes, OuterControlTypes
<1>4. PICK t \in Trajectories, p \in BOOLEAN, q \in NewScales(s.cond) :
        /\ model' = [model EXCEPT ![s.m2].traj = t, ![s.m2].problem = @ \/ p]
        /\ condScale' = [condScale EXCEPT ![s.cond] = q]
        /\ oGhost' = [oGhost EXCEPT !.imposed = Append(@, oCur),
                        !.flagged = IF p THEN @ \cup {s.m2} ELSE @]
        /\ \/ /\ oCur' = oCur + 1
              /\ oPc' = OAfterSlider(oCur)
              /\ UNCHANGED <<innerSolver, testers, oConfig, oPrecision, oIteration,
                             oScale, oMaxIt, oReached, noConvInner, oResult, oSolves>>
           \/ OLeave /\ UNCHANGED outerTesters
  BY DEF OImpose
<1> HIDE DEF s
<1>5. /\ model' \in [Models -> ModelType]
      /\ \A k \in Models : model'[k].problem <=> model[k].problem \/ (k = s.m2 /\ p)
  BY <1>2, <1>3, <1>4, ImposedModels
<1> DEFINE f == IF p THEN oGhost.flagged \cup {s.m2} ELSE oGhost.flagged
<1>6. /\ oGhost' \in OGhostType
      /\ oGhost'.imposed = Append(oGhost.imposed, oCur) /\ oGhost'.flagged = f
      /\ oGhost'.ends = oGhost.ends /\ oGhost'.fresh = oGhost.fresh
      /\ oGhost'.inner = oGhost.inner
  <2>1. f \in SUBSET Models /\ Append(oGhost.imposed, oCur) \in Seq(Nat)
    BY <1>2, <1>3 DEF OGhostType
  <2>2. oGhost' = [oGhost EXCEPT !.imposed = Append(@, oCur), !.flagged = f]
    BY <1>4
  <2> HIDE DEF f
  <2>3. oGhost' = [imposed |-> Append(oGhost.imposed, oCur), flagged |-> f,
                   ends |-> oGhost.ends, fresh |-> oGhost.fresh, inner |-> oGhost.inner]
    BY <1>3, <2>2 DEF OGhostType
  <2>4. /\ oGhost.fresh \in BOOLEAN /\ oGhost.ends \in Seq([Models -> SnapshotType])
        /\ oGhost.inner \in InnerOutcomes \cup {"none", "thrown"}
    BY <1>3 DEF OGhostType
  <2> QED BY <2>1, <2>3, <2>4 DEF OGhostType
<1>7. condScale' \in [Conditions -> Scales \ {0}]
  BY <1>2, <1>3, <1>4 DEF NewScales
<1>8. CASE OLeave /\ UNCHANGED outerTesters
  BY <1>1, <1>5, <1>6, <1>8, <1>7, OLeaveInv DEF OuterTypes, OuterConfigTypes
<1>9. CASE ~(OLeave /\ UNCHANGED outerTesters)
  <2>1. /\ oCur' = oCur + 1
        /\ oPc' = OAfterSlider(oCur)
        /\ UNCHANGED <<innerSolver, testers, oConfig, oPrecision, oIteration,
                       oScale, oMaxIt, oReached, noConvInner, oResult, oSolves>>
    BY <1>4, <1>9
  <2>3. /\ outer' = outer /\ inner' = inner /\ outerTesters' = outerTesters /\ ghost' = ghost
        /\ oPc' = (IF oCur = Len(outer) THEN "test" ELSE "run1")
        /\ oIteration' = oIteration /\ noConvInner' = noConvInner
    BY <2>1 DEF oConfig, OAfterSlider, innerSolver
  <2>4. OuterTypes'
    BY <1>1, <1>3, <1>6, <2>1, <2>3
    DEF OuterTypes, OuterConfigTypes, OuterControlTypes, oConfig
  <2>5. InnerStage'
    BY <1>1, <1>5, <1>7, <2>1, <2>3, OuterStepInner
  <2>6. OuterSliders'
    <3>1. /\ DOMAIN outer = 1..Len(outer) /\ Len(outer) \in Nat
          /\ 1 <= oCur /\ oCur <= Len(outer)
      BY <1>1, <1>3
    <3>2. oGhost.imposed = [i \in 1..(oCur - 1) |-> i]
      BY <1>1 DEF OuterStage, OuterSliders
    <3>3. oGhost'.imposed = [i \in 1..oCur |-> i]
      BY <1>3, <1>6, <3>1, <3>2 DEF OGhostType
    <3>4. CASE oCur = Len(outer)
      BY <2>3, <3>1, <3>3, <3>4 DEF OuterSliders, InOuterSlider
    <3>5. CASE oCur # Len(outer)
      <4>1. oCur' = oCur + 1 /\ oCur \in Nat
        BY <1>3, <2>1
      <4>2. oCur + 1 \in 1..Len(outer) /\ (oCur + 1) - 1 = oCur
        <5>1. oCur \in Nat /\ Len(outer) \in Nat /\ oCur <= Len(outer) /\ oCur # Len(outer)
          BY <3>1, <3>5, <4>1
        <5> QED BY <5>1
      <4> QED BY <2>3, <3>1, <3>3, <3>5, <4>1, <4>2 DEF OuterSliders, InOuterSlider
    <3> QED BY <3>4, <3>5
  <2>7. InnerRemembered'
    BY <1>1, <1>6, <2>3 DEF OuterStage, InnerRemembered, AfterInner
  <2>8. OuterFirstModelRun' /\ OuterImposedAtScale'
    BY <2>3 DEF OuterFirstModelRun, OuterImposedAtScale
  <2>9. ProblemsOfOuterIteration'
    <3>1. ModelsOf(Tower)' = ModelsOf(Tower) /\ ModelsOf(Tower) \subseteq Models
      BY <1>1, <2>3, ModelsOfBoth DEF Tower, ModelsOf, OuterTypes, OuterConfigTypes
    <3>2. \A k \in ModelsOf(Tower) : model[k].problem <=> k \in ghost.flagged \cup oGhost.flagged
      BY <1>1 DEF OuterStage, ProblemsOfOuterIteration
    <3>3. \A k \in ModelsOf(Tower) :
            model'[k].problem <=> k \in ghost.flagged \cup oGhost'.flagged
      BY <1>5, <1>6, <3>1, <3>2
    <3> QED BY <2>3, <3>1, <3>3 DEF ProblemsOfOuterIteration
  <2>10. OuterTestersFollow'
    BY <1>1, <1>6, <2>1, <2>3 DEF OuterStage, OuterTestersFollow
  <2> QED BY <2>4, <2>5, <2>6, <2>7, <2>8, <2>9, <2>10 DEF SemiInv, OuterStage
<1> QED BY <1>4, <1>8, <1>9

LEMMA OTestAccuracyInv ==
  ASSUME SemiInv, OTestAccuracy
  PROVE  SemiInv'
<1>1. /\ TypeOK /\ OuterTypes /\ OuterStage /\ oPc = "test" /\ pc = "idle" /\ AfterInner
  BY DEF SemiInv, InnerStage, SolverInv, Bookkeeping, Lifetime, OTestAccuracy, AfterInner
<1>2. /\ model \in [Models -> ModelType] /\ condScale \in [Conditions -> Scales \ {0}]
      /\ oGhost \in OGhostType /\ oIteration \in Nat
      /\ DOMAIN outerTesters \subseteq Models
      /\ \A m \in DOMAIN outerTesters : outerTesters[m] \in TesterType
  BY <1>1 DEF TypeOK, DataTypes, OuterTypes, OuterConfigTypes, OuterControlTypes
<1>3. CASE /\ outerTesters' \in ThrownTesters(outerTesters)
           /\ OLeave /\ UNCHANGED <<model, condScale, oGhost>>
  <2>1. /\ DOMAIN outerTesters' \subseteq Models
        /\ \A m \in DOMAIN outerTesters' : outerTesters'[m] \in TesterType
    BY <1>2, <1>3, ThrownTestersType
  <2> QED BY <1>2, <1>3, <2>1, OLeaveInv
<1>4. CASE ~(/\ outerTesters' \in ThrownTesters(outerTesters)
             /\ OLeave /\ UNCHANGED <<model, condScale, oGhost>>)
  <2>1. /\ oReached' = Tester!CompositeGoalReached(outerTesters, model)
        /\ outerTesters' = Tester!CompositeTested(outerTesters, model)
        /\ oIteration' = oIteration + 1
        /\ oGhost' = [oGhost EXCEPT !.ends = Append(@, Ends)]
        /\ oPc' = "iterate"
        /\ UNCHANGED <<vars, inner, outer, hasInner, hasOuter, oGuesser, oCalc,
                       oPrecision, oScale, oCur, oMaxIt, noConvInner, oResult, oSolves>>
    BY <1>4 DEF OTestAccuracy
  <2>2. /\ oGhost.ends \in Seq([Models -> SnapshotType]) /\ Ends \in [Models -> SnapshotType]
    BY <1>2 DEF OGhostType, Ends, ModelType, SnapshotType
  <2>3. /\ oGhost' \in OGhostType
        /\ oGhost'.ends = Append(oGhost.ends, Ends) /\ oGhost'.flagged = oGhost.flagged
        /\ oGhost'.fresh = oGhost.fresh /\ oGhost'.inner = oGhost.inner
    <3>1. Append(oGhost.ends, Ends) \in Seq([Models -> SnapshotType])
      BY <2>2
    <3>2. oGhost' = [imposed |-> oGhost.imposed, flagged |-> oGhost.flagged,
                     ends |-> Append(oGhost.ends, Ends), fresh |-> oGhost.fresh,
                     inner |-> oGhost.inner]
      BY <1>2, <2>1 DEF OGhostType
    <3>3. /\ oGhost.fresh \in BOOLEAN /\ oGhost.imposed \in Seq(Nat)
          /\ oGhost.flagged \in SUBSET Models
          /\ oGhost.inner \in InnerOutcomes \cup {"none", "thrown"}
      BY <1>2 DEF OGhostType
    <3> QED BY <3>1, <3>2, <3>3 DEF OGhostType
  <2>4. /\ DOMAIN outerTesters' = DOMAIN outerTesters
        /\ \A m \in DOMAIN outerTesters : outerTesters'[m] \in TesterType
    BY <1>2, <2>1, CompositeTestedType
  <2>5. OuterTypes'
    <3>1. oReached' \in BOOLEAN
      BY <2>1 DEF Tester!CompositeGoalReached
    <3> QED
      BY <1>1, <1>2, <2>1, <2>3, <2>4, <3>1
      DEF OuterTypes, OuterConfigTypes, OuterControlTypes
  <2>6. InnerStage'
    <3>1. TypeOK' /\ pc' = "idle"
      BY <1>1, <2>1, UnchangedType DEF vars
    <3> QED BY <2>1, <3>1, InnerDone
  <2>7. InnerRemembered'
    BY <1>1, <1>2, <2>1, <2>3 DEF OuterStage, InnerRemembered, AfterInner, InOuterSlider
  <2>8. ProblemsOfOuterIteration'
    <3>1. ModelsOf(Tower)' = ModelsOf(Tower) /\ model' = model /\ ghost' = ghost
      BY <2>1 DEF vars, Tower, ModelsOf
    <3>2. \A k \in ModelsOf(Tower) : model[k].problem <=> k \in ghost.flagged \cup oGhost.flagged
      BY <1>1 DEF OuterStage, ProblemsOfOuterIteration
    <3> QED BY <2>3, <3>1, <3>2 DEF ProblemsOfOuterIteration
  <2>9. OuterTestersFollow'
    <3>1. DOMAIN outerTesters # {} /\ Len(oGhost.ends) = oIteration
      BY <1>1 DEF OuterStage, OuterTestersFollow
    <3>2. Len(oGhost'.ends) = oIteration'
      BY <2>1, <2>2, <2>3, <3>1
    <3>3. oGhost.fresh =>
            /\ FollowEnds(outerTesters', oGhost'.ends)
            /\ oReached' => AgreeOnLastTwo(outerTesters, oGhost'.ends)
      <4>1. SUFFICES ASSUME FollowEnds(outerTesters, oGhost.ends)
                     PROVE  /\ FollowEnds(outerTesters', oGhost'.ends)
                            /\ oReached' => AgreeOnLastTwo(outerTesters, oGhost'.ends)
        BY <1>1 DEF OuterStage, OuterTestersFollow
      <4> QED BY <1>2, <2>1, <2>2, <2>3, <3>1, <4>1, TestersMoveOn
    <3>4. AgreeOnLastTwo(outerTesters, oGhost'.ends) => AgreeOnLastTwo(outerTesters', oGhost'.ends)
      BY <2>4 DEF AgreeOnLastTwo
    <3> QED BY <2>3, <2>4, <3>1, <3>2, <3>3, <3>4 DEF OuterTestersFollow
  <2>10. OuterSliders' /\ OuterFirstModelRun' /\ OuterImposedAtScale'
    BY <2>1 DEF OuterSliders, OuterFirstModelRun, OuterImposedAtScale, InOuterSlider
  <2> QED BY <2>5, <2>6, <2>7, <2>8, <2>9, <2>10 DEF SemiInv, OuterStage
<1> QED BY <1>3, <1>4

LEMMA OEndSolveInv ==
  ASSUME SemiInv, OEndSolve
  PROVE  SemiInv'
<1>1. TypeOK /\ OuterTypes
  BY DEF SemiInv, InnerStage, SolverInv, Bookkeeping
<1>2. TypeOK' /\ pc' = "idle" /\ sliders' = << >> /\ result' = "none"
  BY <1>1, GoneType DEF OEndSolve, shared, TypeOK, DataTypes
<1>3. OuterTypes' /\ oPc' = "idle"
  BY <1>1
  DEF OEndSolve, OuterTypes, OuterConfigTypes, OuterControlTypes, oConfig, oLocals
<1> QED BY <1>2, <1>3, SemiIdle

LEMMA StutterSemi ==
  ASSUME SemiInv, UNCHANGED allVars
  PROVE  SemiInv'
<1>1. SolverInv'
  BY StutterBookkeeping, StutterObservations DEF SemiInv, InnerStage, SolverInv, allVars
<1>2. OuterTypes'
  BY DEF SemiInv, OuterTypes, OuterConfigTypes, OuterControlTypes, allVars, oVars, oConfig, oLocals
<1>3. Lifetime' /\ InnerRuns' /\ InnerProblems'
  BY DEF SemiInv, InnerStage, Lifetime, InnerRuns, InnerBegins, InnerProblems, ModelsOf, Tower,
         allVars, vars, config, oVars, oConfig
<1>4. OuterStage'
  BY DEF SemiInv, OuterStage, OuterSliders, InnerRemembered, OuterFirstModelRun,
         OuterImposedAtScale, ProblemsOfOuterIteration, OuterTestersFollow, InOuterSlider,
         AfterInner, ModelsOf, Tower, allVars, vars, oVars, oConfig, oLocals
<1> QED BY <1>1, <1>2, <1>3, <1>4 DEF SemiInv, InnerStage

-----------------------------------------------------------------------------
(* The theorems.                                                           *)

\* The states of both solvers, for every pair of towers, testers and order of
\* the client's calls.
THEOREM SemiInvariant == OSpec => []SemiInv
<1>1. OInit => SemiInv
  BY InitSemi
<1>2. SemiInv /\ [ONext]_allVars => SemiInv'
  BY OClientInv, OSolveInv, OBeginIterationInv, InnerStepInv, InnerReturnsInv, ORunFirstInv,
     ORunSecondInv, OImposeInv, OTestAccuracyInv, OEndSolveInv, StutterSemi
  DEF ONext, OSolveStep
<1> QED BY <1>1, <1>2, PTL DEF OSpec

\* The variables of both solvers keep their types, and the inner solver and
\* its tower do not outlive the solve() that made them.
THEOREM SemiTypeCorrect == OSpec => []OTypeOK
<1>1. SemiInv => OTypeOK
  <2> SUFFICES ASSUME SemiInv PROVE OTypeOK
    OBVIOUS
  <2>1. OuterTypes /\ TypeOK /\ Lifetime /\ OuterSliders
    BY DEF SemiInv, InnerStage, OuterStage, SolverInv, Bookkeeping
  <2>2. {hasInner, hasOuter, oGuesser, oCalc, oReached, noConvInner} \subseteq BOOLEAN
    BY <2>1 DEF OuterTypes, OuterConfigTypes, OuterControlTypes
  <2>3. oGhost.flagged \subseteq Models /\ oGhost.imposed \in Seq(Nat)
    BY <2>1 DEF OuterTypes, OuterControlTypes, OGhostType
  <2> QED
    BY <2>1, <2>2, <2>3
    DEF OTypeOK, Lifetime, OuterSliders, OuterTypes, OuterConfigTypes, OuterControlTypes
<1> QED BY <1>1, SemiInvariant, PTL

\* The outer sliders run only after the inner solver has returned, and impose
\* every outer condition once, in order.
THEOREM OuterAfterInnerInvariant == OSpec => []OuterAfterInner
<1>1. SemiInv => OuterAfterInner
  BY DEF SemiInv, OuterStage, OuterSliders, InnerRemembered, InnerOutcomes, AfterInner,
         OuterAfterInner
<1> QED BY <1>1, SemiInvariant, PTL

\* As prepare_inner_iteration() restarts the inner tester and sets no guesser,
\* an inner solution never converges on an iteration of an earlier one.
THEOREM InnerAnewInvariant == OSpec => []InnerAnew
<1>1. SemiInv => InnerAnew
  BY DEF SemiInv, InnerStage, InnerRuns, InnerAnew, AgreeOnLastTwo
<1> QED BY <1>1, SemiInvariant, PTL

\* The outer conditions see models at their scale, with the outer precision.
THEOREM OuterImposedAtScaleInvariant == OSpec => []OuterImposedAtScale
<1>1. SemiInv => OuterImposedAtScale
  BY DEF SemiInv, OuterStage
<1> QED BY <1>1, SemiInvariant, PTL

\* Both clear_problems() together are enough: the problems of all models are
\* those of the last inner solution's last iteration and the outer conditions.
THEOREM ProblemsOfOuterIterationInvariant == OSpec => []ProblemsOfOuterIteration
<1>1. SemiInv => ProblemsOfOuterIteration
  BY DEF SemiInv, OuterStage
<1> QED BY <1>1, SemiInvariant, PTL

\* solve() returns normally only after an inner solution that did not give up
\* and, with a fresh outer tester, two outer iterations that agree.
THEOREM BothConvergedTheorem == OSpec => BothConverged
<1> DEFINE Agreed == /\ oGhost.inner \in {"converged", "returned"}
                     /\ oGhost.fresh => AgreeOnLastTwo(outerTesters, oGhost.ends)
           Step == oPc = "iterate" /\ oPc' = "idle" /\ oResult' = "converged" => Agreed
<1>1. SemiInv /\ [ONext]_allVars => [Step]_allVars
  <2>1. SUFFICES ASSUME SemiInv, ONext, oPc = "iterate", oPc' = "idle", oResult' = "converged"
                 PROVE  Agreed
    OBVIOUS
  <2>2. OEndSolve
    BY <2>1
    DEF ONext, OClient, AddInner, AddOuter, SetInnerTester, SetOuterTester, RestartOuterTester,
        OSetGuesserAndPrecision, OReset, ORunTo, OSolveNothing, OSolve, OIdle, OSolveStep,
        OBeginIteration, InnerStep, InnerReturns, ORunFirst, ORunSecond, OImpose, OTestAccuracy
  <2>3. oReached /\ ~noConvInner
    BY <2>1, <2>2 DEF OEndSolve, Outcome
  <2>4. oIteration > 0 /\ oGhost.inner \in InnerOutcomes \ {"noConvergence"}
    BY <2>1, <2>3 DEF SemiInv, OuterStage, InnerRemembered
  <2>5. oGhost.fresh => AgreeOnLastTwo(outerTesters, oGhost.ends)
    BY <2>1, <2>3 DEF SemiInv, OuterStage, OuterTestersFollow
  <2> QED BY <2>4, <2>5 DEF InnerOutcomes
<1>2. [][Step]_allVars => BothConverged
  BY PTL DEF BothConverged, AgreeOnLastTwo
<1> QED BY <1>1, <1>2, SemiInvariant, PTL DEF OSpec
=============================================================================

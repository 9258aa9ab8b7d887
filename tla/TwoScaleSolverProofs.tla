------------------------ MODULE TwoScaleSolverProofs ------------------------
(***************************************************************************)
(* Theorems about TwoScaleSolver, for every tower, tester and data.        *)
(***************************************************************************)
EXTENDS TwoScaleSolver, FiniteSetTheorems, WellFoundedInduction, TLAPS

\* A nonempty finite set of integers has a greatest element: among the sets
\* {y \in S : y > x}, a minimal one is empty.
LEMMA FiniteMax ==
  ASSUME NEW S \in SUBSET Int, IsFiniteSet(S), S # {}
  PROVE  \E x \in S : \A y \in S : x >= y
<1> DEFINE Above(x) == {y \in S : y > x}
           T == {Above(x) : x \in S}
<1>1. IsWellFoundedOn(StrictSubsetOrdering(S), SUBSET S)
  BY FS_StrictSubsetOrderingWellFounded, FS_FiniteSubsetsOfFinite
<1>2. T \subseteq SUBSET S /\ T # {}
  OBVIOUS
<1>3. PICK U \in T : \A V \in T : <<V, U>> \notin StrictSubsetOrdering(S)
  <2> HIDE DEF T
  <2> QED BY <1>1, <1>2, WFMin
<1>4. PICK x \in S : U = Above(x)
  OBVIOUS
<1>5. Above(x) = {}
  <2>1. SUFFICES ASSUME NEW y \in S, y > x PROVE FALSE
    OBVIOUS
  <2>2. Above(y) \subseteq U
    <3>1. \A z \in S : z > y => z > x
      BY <2>1
    <3>2. QED BY <1>4, <3>1
  <2>5. y \in U /\ y \notin Above(y)
    BY <1>4, <2>1
  <2>3. <<Above(y), U>> \in StrictSubsetOrdering(S)
    BY <2>2, <2>5, <1>2 DEF StrictSubsetOrdering
  <2>4. QED BY <1>3, <2>3
<1>6. \A y \in S : x >= y
  BY <1>5
<1>7. QED BY <1>6

\* max_iterations() of a composite tester is one of its testers' maxima, or 0.
LEMMA MaxIterationsType ==
  ASSUME NEW ts, DOMAIN ts \subseteq Models,
         \A m \in DOMAIN ts : ts[m].max \in MaxIts
  PROVE  Tester!CompositeMaxIterations(ts) \in MaxIts \cup {0}
<1> DEFINE S == {ts[m].max : m \in DOMAIN ts}
<1>1. CASE DOMAIN ts = {}
  BY <1>1 DEF Tester!CompositeMaxIterations
<1>2. CASE DOMAIN ts # {}
  <2>1. S \in SUBSET MaxIts /\ S # {}
    BY <1>2
  <2>2. S \in SUBSET Int /\ IsFiniteSet(S)
    BY <2>1, SolverAssumption, FS_Subset
  <2>3. \E x \in S : \A y \in S : x >= y
    <3> HIDE DEF S
    <3> QED BY <2>1, <2>2, FiniteMax
  <2>4. Tester!Max(S) \in S
    BY <2>3 DEF Tester!Max
  <2>5. Tester!CompositeMaxIterations(ts) = Tester!Max(S)
    BY <1>2 DEF Tester!CompositeMaxIterations
  <2>6. QED BY <2>1, <2>4, <2>5
<1>3. QED BY <1>1, <1>2

-----------------------------------------------------------------------------
(* The convergence testers.                                                *)

\* Each tester has seen every one of the iterations that ended as ends tells,
\* and keeps the last of them, as it compares it.
FollowEnds(ts, ends) ==
  \A m \in DOMAIN ts :
    /\ ts[m].count = Len(ends)
    /\ Len(ends) > 0 => Tester!AtComparisonScale(ts[m].last)
                          = Tester!AtComparisonScale(ends[Len(ends)][m])

\* The last two ends agree for every tester.
AgreeOnLastTwo(ts, ends) ==
  LET n == Len(ends)
  IN n >= 2 /\ \A m \in DOMAIN ts : SameParameters(ends[n][m], ends[n - 1][m])

\* Running a copy to the comparison scale twice is running it there once.
LEMMA ComparisonScaleIdempotent ==
  ASSUME NEW c \in SnapshotType
  PROVE  /\ Tester!AtComparisonScale(c) \in SnapshotType
         /\ Tester!AtComparisonScale(Tester!AtComparisonScale(c)) = Tester!AtComparisonScale(c)
BY SolverAssumption DEF SnapshotType, Tester!AtComparisonScale

LEMMA SnapshotScale ==
  ASSUME NEW c \in SnapshotType
  PROVE  c.scale \in Int
<1>1. c.scale \in Scales
  BY DEF SnapshotType
<1>2. Scales \subseteq Nat
  BY SolverAssumption
<1>3. c.scale \in Nat
  BY <1>1, <1>2
<1> QED BY <1>3

\* After a call a tester keeps the model it was called with, as it compares it.
LEMMA TestedKeeps ==
  ASSUME NEW t \in TesterType, NEW x \in ModelType
  PROVE  /\ Tester!Tested(t, x) \in TesterType
         /\ Tester!Tested(t, x).count = t.count + 1
         /\ Tester!AtComparisonScale(Tester!Tested(t, x).last)
              = Tester!AtComparisonScale(Tester!Snapshot(x))
<1> DEFINE sn == Tester!Snapshot(x)
           l  == IF t.count > 0 THEN Tester!AtComparisonScale(sn) ELSE sn
           c  == t.count + 1
<1>1. sn \in SnapshotType
  BY DEF Tester!Snapshot, ModelType, SnapshotType
<1>2. l \in SnapshotType /\ Tester!AtComparisonScale(l) = Tester!AtComparisonScale(sn)
  <2> HIDE DEF sn
  <2> QED BY <1>1, ComparisonScaleIdempotent
<1>3. Tester!Tested(t, x) = [t EXCEPT !.count = c, !.last = l]
  BY DEF Tester!Tested
<1>4. c \in Nat
  BY DEF TesterType
<1> HIDE DEF c, l
<1>5. /\ Tester!Tested(t, x) \in TesterType
      /\ Tester!Tested(t, x).count = c /\ Tester!Tested(t, x).last = l
  BY <1>2, <1>3, <1>4 DEF TesterType
<1> QED BY <1>2, <1>5 DEF c

LEMMA CompositeTestedType ==
  ASSUME NEW ts, DOMAIN ts \subseteq Models, \A m \in DOMAIN ts : ts[m] \in TesterType,
         model \in [Models -> ModelType]
  PROVE  /\ DOMAIN Tester!CompositeTested(ts, model) = DOMAIN ts
         /\ \A m \in DOMAIN ts : Tester!CompositeTested(ts, model)[m] \in TesterType
BY TestedKeeps DEF Tester!CompositeTested

LEMMA CompositeRestartedType ==
  ASSUME NEW ts, DOMAIN ts \subseteq Models, \A m \in DOMAIN ts : ts[m] \in TesterType
  PROVE  /\ DOMAIN Tester!CompositeRestarted(ts) = DOMAIN ts
         /\ \A m \in DOMAIN ts : /\ Tester!CompositeRestarted(ts)[m] \in TesterType
                                 /\ Tester!CompositeRestarted(ts)[m].count = 0
BY SolverAssumption
DEF Tester!CompositeRestarted, Tester!Restarted, Tester!Blank, TesterType, SnapshotType

\* A call of a composite tester: every tester moves on to the new end, and if
\* all are satisfied, then by the new end and the one before it.
LEMMA TestersMoveOn ==
  ASSUME NEW ts, DOMAIN ts \subseteq Models, \A m \in DOMAIN ts : ts[m] \in TesterType,
         model \in [Models -> ModelType],
         NEW ends \in Seq([Models -> SnapshotType]), FollowEnds(ts, ends)
  PROVE  /\ FollowEnds(Tester!CompositeTested(ts, model), Append(ends, Ends))
         /\ Tester!CompositeGoalReached(ts, model) /\ DOMAIN ts # {} =>
              AgreeOnLastTwo(ts, Append(ends, Ends))
<1> DEFINE n == Len(ends)
<1>1. /\ n \in Nat /\ Len(Append(ends, Ends)) = n + 1
      /\ Append(ends, Ends)[n + 1] = Ends
      /\ n > 0 => Append(ends, Ends)[n] = ends[n]
  OBVIOUS
<1>2. ASSUME NEW m \in DOMAIN ts
      PROVE  /\ m \in Models /\ ts[m] \in TesterType /\ model[m] \in ModelType
             /\ Ends[m] = Tester!Snapshot(model[m])
             /\ ts[m].count = n
             /\ n > 0 => Tester!AtComparisonScale(ts[m].last)
                           = Tester!AtComparisonScale(ends[n][m])
  BY DEF Ends, Tester!Snapshot, FollowEnds
<1> HIDE DEF n
<1>3. FollowEnds(Tester!CompositeTested(ts, model), Append(ends, Ends))
  <2>1. ASSUME NEW m \in DOMAIN ts
        PROVE  /\ Tester!CompositeTested(ts, model)[m].count = n + 1
               /\ Tester!AtComparisonScale(Tester!CompositeTested(ts, model)[m].last)
                    = Tester!AtComparisonScale(Ends[m])
    BY <1>2, TestedKeeps DEF Tester!CompositeTested
  <2>2. DOMAIN Tester!CompositeTested(ts, model) = DOMAIN ts
    BY DEF Tester!CompositeTested
  <2> QED BY <1>1, <2>1, <2>2 DEF FollowEnds
<1>4. ASSUME Tester!CompositeGoalReached(ts, model), DOMAIN ts # {}
      PROVE  AgreeOnLastTwo(ts, Append(ends, Ends))
  <2>1. \A m \in DOMAIN ts : Tester!GoalReached(ts[m], model[m])
    BY <1>4 DEF Tester!CompositeGoalReached
  <2>2. n > 0
    BY <1>2, <1>4, <2>1 DEF Tester!GoalReached
  <2>3. ASSUME NEW m \in DOMAIN ts
        PROVE  SameParameters(Ends[m], ends[n][m])
    <3>1. Tester!ParametersAccepted(Tester!AtComparisonScale(Ends[m]),
                                    Tester!AtComparisonScale(ts[m].last))
      BY <1>2, <2>1 DEF Tester!GoalReached
    <3> QED BY <1>2, <2>2, <3>1 DEF SameParameters, Tester!ParametersAccepted
  <2>4. n + 1 >= 2 /\ (n + 1) - 1 = n
    BY <1>1, <2>2
  <2> QED BY <1>1, <2>2, <2>3, <2>4 DEF AgreeOnLastTwo
<1> QED BY <1>3, <1>4

\* Testers that saw the last end and are not all satisfied were called with a
\* model that had moved on from it.
LEMMA TestersDisagree ==
  ASSUME NEW ts, DOMAIN ts \subseteq Models, \A m \in DOMAIN ts : ts[m] \in TesterType,
         model \in [Models -> ModelType],
         NEW ends \in Seq([Models -> SnapshotType]), FollowEnds(ts, ends), Len(ends) > 0,
         ~Tester!CompositeGoalReached(ts, model)
  PROVE  \E m \in DOMAIN ts : ~Agree(Ends[m], ends[Len(ends)][m])
<1>1. PICK m \in DOMAIN ts : ~Tester!GoalReached(ts[m], model[m])
  BY DEF Tester!CompositeGoalReached
<1> DEFINE c == Tester!AtComparisonScale(Ends[m])
           d == Tester!AtComparisonScale(ends[Len(ends)][m])
<1>2. /\ ts[m].count > 0 /\ c = Tester!AtComparisonScale(Tester!Snapshot(model[m]))
      /\ d = Tester!AtComparisonScale(ts[m].last)
  BY <1>1 DEF FollowEnds, Ends, Tester!Snapshot
<1>3. Ends[m] \in SnapshotType /\ ends[Len(ends)][m] \in SnapshotType
  <2>1. m \in Models /\ ends[Len(ends)] \in [Models -> SnapshotType]
    BY <1>1
  <2> QED BY <2>1 DEF Ends, ModelType, SnapshotType
<1>4. c.scale \in Int /\ d.scale \in Int
  BY <1>3, ComparisonScaleIdempotent, SnapshotScale
<1> HIDE DEF c, d
<1>5. ~Tester!ScaleAccepted(c, d) \/ ~Tester!ParametersAccepted(c, d)
  BY <1>1, <1>2 DEF Tester!GoalReached
<1>6. ASSUME d.scale # 0, Tester!Abs(c.scale - d.scale) < ScaleGoal
      PROVE  Tester!ScaleAccepted(c, d)
  BY <1>4, <1>6, SolverAssumption DEF Tester!ScaleAccepted, Tester!Abs
<1>7. ASSUME SameParameters(Ends[m], ends[Len(ends)][m])
      PROVE  Tester!ParametersAccepted(c, d)
  BY <1>7 DEF SameParameters, Tester!ParametersAccepted, c, d
<1>8. ~Agree(Ends[m], ends[Len(ends)][m])
  BY <1>5, <1>6, <1>7 DEF Agree, c, d
<1> QED BY <1>8

\* A call that throws leaves testers in their types.
LEMMA ThrownTestersType ==
  ASSUME NEW ts, DOMAIN ts \subseteq Models, \A m \in DOMAIN ts : ts[m] \in TesterType,
         model \in [Models -> ModelType], NEW us \in ThrownTesters(ts)
  PROVE  DOMAIN us = DOMAIN ts /\ \A m \in DOMAIN us : us[m] \in TesterType
<1>1. PICK asked \in SUBSET DOMAIN ts, q \in Scales, k \in DOMAIN ts :
        us = Tester!CompositeThrown(ts, model, asked, k, q)
  BY DEF ThrownTesters
<1>2. DOMAIN us = DOMAIN ts
  BY <1>1 DEF Tester!CompositeThrown
<1>3. ASSUME NEW m \in DOMAIN ts PROVE us[m] \in TesterType
  <2>1. ts[m] \in TesterType /\ model[m] \in ModelType
    OBVIOUS
  <2>2. [ts[m] EXCEPT !.last.scale = q] \in TesterType
    BY <1>1, <2>1 DEF TesterType, SnapshotType
  <2>3. \/ us[m] = Tester!Tested(ts[m], model[m])
        \/ us[m] = [ts[m] EXCEPT !.last.scale = q]
        \/ us[m] = ts[m]
    BY <1>1 DEF Tester!CompositeThrown
  <2> QED BY <2>1, <2>2, <2>3, TestedKeeps
<1> QED BY <1>2, <1>3

-----------------------------------------------------------------------------
(* What a running and a boundary condition do to the models.               *)

\* The models P after a running of model m to scale q.
RunAt(P, m, q) == [P EXCEPT ![m].scale = q]

\* A running of model m, from the models with their new precision, changes its
\* scale only.
LEMMA RunModels ==
  ASSUME NEW P \in [Models -> ModelType], NEW m \in Models, NEW q \in Scales
  PROVE  /\ RunAt(P, m, q) \in [Models -> ModelType]
         /\ \A k \in Models : /\ RunAt(P, m, q)[k].problem = P[k].problem
                              /\ RunAt(P, m, q)[k].precision = P[k].precision
                              /\ k # m => RunAt(P, m, q)[k].scale = P[k].scale
         /\ RunAt(P, m, q)[m].scale = q
<1> DEFINE Q == [P EXCEPT ![m].scale = q]
<1>1. \A k \in Models : Q[k] = IF k = m THEN [P[m] EXCEPT !.scale = q] ELSE P[k]
  OBVIOUS
<1>2. \A k \in Models : P[k] \in ModelType
  OBVIOUS
<1>3. Q \in [Models -> ModelType]
  BY DEF ModelType
<1> HIDE DEF Q
<1>4. ASSUME NEW k \in Models
      PROVE  /\ Q[k].problem = P[k].problem
             /\ Q[k].precision = P[k].precision
             /\ k # m => Q[k].scale = P[k].scale
             /\ k = m => Q[k].scale = q
  BY <1>1, <1>2 DEF ModelType
<1>5. RunAt(P, m, q) = Q
  BY DEF RunAt, Q
<1> QED BY <1>3, <1>4, <1>5

\* An imposed condition sets the parameters of model m and may raise a problem.
LEMMA ImposedModels ==
  ASSUME model \in [Models -> ModelType], NEW m \in Models,
         NEW t \in Trajectories, NEW p \in BOOLEAN
  PROVE  model' = [model EXCEPT ![m].traj = t, ![m].problem = @ \/ p] =>
           /\ model' \in [Models -> ModelType]
           /\ \A k \in Models :
                model'[k].problem <=> model[k].problem \/ (k = m /\ p)
<1> DEFINE b == model[m].problem \/ p
<1>1. SUFFICES ASSUME model' = [model EXCEPT ![m].traj = t, ![m].problem = b]
               PROVE  /\ model' \in [Models -> ModelType]
                      /\ \A k \in Models :
                           model'[k].problem <=> model[k].problem \/ (k = m /\ p)
  OBVIOUS
<1>2. b \in BOOLEAN
  OBVIOUS
<1> HIDE DEF b
<1>3. /\ model' \in [Models -> ModelType]
      /\ model'[m].problem = b
      /\ \A k \in Models : k # m => model'[k].problem = model[k].problem
  BY <1>1, <1>2 DEF ModelType
<1>4. ASSUME NEW k \in Models
      PROVE  model'[k].problem <=> model[k].problem \/ (k = m /\ p)
  BY <1>3 DEF b
<1> QED BY <1>3, <1>4

-----------------------------------------------------------------------------
(* The bookkeeping of solve().                                             *)

\* While solve() runs there is a tower, and the slider being slid is in it.
TowerWhileSolving ==
  /\ pc # "idle" => sliders # << >>
  /\ InSlider => cur \in DOMAIN sliders

Bookkeeping == TypeOK /\ TowerWhileSolving /\ ConditionsInOrder /\ IterationsCounted

LEMMA InitBookkeeping == Init => Bookkeeping
<1> SUFFICES ASSUME Init PROVE Bookkeeping
  OBVIOUS
<1> USE SolverAssumption
<1>1. ConfigTypes
  <2>1. hasTester \in BOOLEAN /\ hasGuesser \in BOOLEAN /\ hasCalc \in BOOLEAN
    BY DEF Init
  <2>2. QED BY <2>1 DEF Init, ConfigTypes
<1>2. ControlTypes
  <2>1. reached \in BOOLEAN
    BY DEF Init
  <2>2. QED BY <2>1 DEF Init, ControlTypes, Precisions
<1>3. DataTypes
  BY DEF Init, DataTypes, NewModel, ModelType, Precisions, NoGhost, GhostType
<1>4. QED
  BY <1>1, <1>2, <1>3
  DEF Init, Bookkeeping, TypeOK, TowerWhileSolving, ConditionsInOrder, IterationsCounted, InSlider

\* Outside solve() only the types are claimed.
LEMMA IdleBookkeeping ==
  ASSUME TypeOK', pc' = "idle"
  PROVE  Bookkeeping'
BY DEF Bookkeeping, TowerWhileSolving, ConditionsInOrder, IterationsCounted, InSlider

LEMMA AddType ==
  ASSUME TypeOK, NEW s \in SliderType, Add(s)
  PROVE  TypeOK' /\ pc' = "idle"
<1>1. sliders' \in Seq(SliderType)
  BY DEF Add, TypeOK, ConfigTypes
<1>2. ConfigTypes' /\ ControlTypes' /\ DataTypes'
  BY <1>1 DEF Add, TypeOK, ConfigTypes, ControlTypes, DataTypes, locals
<1>3. QED BY <1>2 DEF Add, Idle, TypeOK

LEMMA SetTesterType ==
  ASSUME TypeOK, NEW ms \in SUBSET Models, NEW max \in [ms -> MaxIts], SetTester(max)
  PROVE  TypeOK' /\ pc' = "idle"
<1>1. \A m \in DOMAIN testers' : testers'[m] \in TesterType
  BY SolverAssumption
  DEF SetTester, Tester!NewTester, Tester!Blank, TesterType, SnapshotType
<1>2. DOMAIN testers' \subseteq Models
  BY DEF SetTester
<1>3. ConfigTypes' /\ ControlTypes' /\ DataTypes'
  BY <1>1, <1>2 DEF SetTester, TypeOK, ConfigTypes, ControlTypes, DataTypes, locals
<1>4. QED BY <1>3 DEF SetTester, Idle, TypeOK

LEMMA RestartTesterType ==
  ASSUME TypeOK, RestartTester
  PROVE  TypeOK' /\ pc' = "idle"
<1>1. DOMAIN testers' = DOMAIN testers /\ \A m \in DOMAIN testers : testers'[m] \in TesterType
  BY CompositeRestartedType DEF RestartTester, TypeOK, ConfigTypes
<1>2. DOMAIN testers' \subseteq Models
  BY <1>1 DEF TypeOK, ConfigTypes
<1>3. ConfigTypes' /\ ControlTypes' /\ DataTypes'
  BY <1>1, <1>2 DEF RestartTester, TypeOK, ConfigTypes, ControlTypes, DataTypes, locals
<1>4. QED BY <1>3 DEF RestartTester, Idle, TypeOK

LEMMA SetGuesserAndPrecisionType ==
  ASSUME TypeOK, NEW g \in BOOLEAN, NEW p \in BOOLEAN, SetGuesserAndPrecision(g, p)
  PROVE  TypeOK' /\ pc' = "idle"
<1>1. hasGuesser' \in BOOLEAN /\ hasCalc' \in BOOLEAN
  BY DEF SetGuesserAndPrecision
<1>2. ConfigTypes' /\ ControlTypes' /\ DataTypes'
  BY <1>1
  DEF SetGuesserAndPrecision, TypeOK, ConfigTypes, ControlTypes, DataTypes, locals
<1>3. QED BY <1>2 DEF SetGuesserAndPrecision, Idle, TypeOK

LEMMA ResetType ==
  ASSUME TypeOK, Reset
  PROVE  TypeOK' /\ pc' = "idle"
<1>1. hasTester' \in BOOLEAN /\ hasGuesser' \in BOOLEAN /\ hasCalc' \in BOOLEAN
  BY DEF Reset
<1>2. ConfigTypes' /\ ControlTypes' /\ DataTypes'
  BY <1>1, SolverAssumption
  DEF Reset, TypeOK, ConfigTypes, ControlTypes, DataTypes, locals, Precisions
<1>3. QED BY <1>2 DEF Reset, Idle, TypeOK

LEMMA RunToType ==
  ASSUME TypeOK, NEW s \in Scales \ {0}, RunTo(s)
  PROVE  TypeOK' /\ pc' = "idle"
<1>1. model' \in [Models -> ModelType]
  BY DEF RunTo, TypeOK, DataTypes, ModelType
<1>2. ConfigTypes' /\ ControlTypes' /\ DataTypes'
  BY <1>1 DEF RunTo, TypeOK, ConfigTypes, ControlTypes, DataTypes, config, locals
<1>3. QED BY <1>2 DEF RunTo, Idle, TypeOK

LEMMA SolveNothingType ==
  ASSUME TypeOK, SolveNothing
  PROVE  TypeOK' /\ pc' = "idle"
<1>1. ghost' \in GhostType
  BY DEF SolveNothing, NoGhost, GhostType
<1>2. solves' \in 0..MaxSolves
  BY SolverAssumption DEF SolveNothing, TypeOK, ControlTypes
<1>3. ConfigTypes' /\ ControlTypes' /\ DataTypes'
  BY <1>1, <1>2 DEF SolveNothing, TypeOK, ConfigTypes, ControlTypes, DataTypes, config, locals
<1>4. QED BY <1>3 DEF SolveNothing, Idle, TypeOK

LEMMA SolveBookkeeping ==
  ASSUME Bookkeeping, Solve
  PROVE  Bookkeeping'
<1>1. TypeOK
  BY DEF Bookkeeping
<1>2. ghost' \in GhostType /\ ghost'.ends = << >>
  <2> DEFINE b == \A m \in DOMAIN testers : testers[m].count = 0
  <2>1. b \in BOOLEAN
    OBVIOUS
  <2>2. ghost' = [NoGhost EXCEPT !.fresh = b]
    BY DEF Solve
  <2>3. ghost' = [imposed |-> << >>, flagged |-> {}, ends |-> << >>, fresh |-> b]
    <3> HIDE DEF b
    <3> QED BY <2>2 DEF NoGhost
  <2> HIDE DEF b
  <2>4. QED BY <2>1, <2>3 DEF GhostType
<1>3. solves' \in 0..MaxSolves /\ model' \in [Models -> ModelType]
  <2>1. model \in [Models -> ModelType]
    BY <1>1 DEF TypeOK, DataTypes
  <2>2. solves' \in 0..MaxSolves
    <3>1. solves \in 0..MaxSolves /\ MaxSolves \in Nat
      BY <1>1, SolverAssumption DEF TypeOK, ControlTypes
    <3>2. solves < MaxSolves /\ solves' = solves + 1
      BY DEF Solve
    <3> QED BY <3>1, <3>2
  <2>3. ASSUME NEW g \in [Models -> Guess], model' = Guessed(g)
        PROVE  model' \in [Models -> ModelType]
    <3>1. \A m \in Models : /\ g[m].scale \in Scales /\ g[m].traj \in Trajectories
                            /\ (model[m].problem \/ g[m].problem) \in BOOLEAN
                            /\ model[m].precision \in Precisions
      BY <2>1 DEF ModelType, Guess
    <3> QED BY <2>3, <3>1 DEF Guessed, ModelType
  <2>4. UNCHANGED model \/ \E g \in [Models -> Guess] : model' = Guessed(g)
    BY DEF Solve, InitialGuess
  <2> QED BY <2>1, <2>2, <2>3, <2>4
<1>4. CASE pc' = "iterate"
  <2>1. maxIt' \in MaxIts \cup {0}
    <3>1. \A m \in DOMAIN testers : testers[m].max \in MaxIts
      BY <1>1 DEF TypeOK, ConfigTypes, TesterType
    <3>2. maxIt' = Tester!CompositeMaxIterations(testers)
      BY <1>4 DEF Solve, Idle
    <3>3. QED BY <1>1, <3>1, <3>2, MaxIterationsType DEF TypeOK, ConfigTypes
  <2>2. /\ iteration' = 0 /\ reached' = FALSE /\ cur' = 0 /\ result' = "running"
        /\ sliders # << >>
    BY <1>4 DEF Solve, Idle
  <2>3. reached' \in BOOLEAN
    BY <2>2
  <2>4. ConfigTypes' /\ ControlTypes' /\ DataTypes'
    BY <1>1, <1>2, <1>3, <1>4, <2>1, <2>2, <2>3
    DEF Solve, TypeOK, ConfigTypes, ControlTypes, DataTypes, config
  <2>5. sliders' = sliders
    BY DEF Solve, config
  <2>6. QED
    BY <1>2, <1>4, <2>2, <2>4, <2>5
    DEF Bookkeeping, TypeOK, TowerWhileSolving, ConditionsInOrder, IterationsCounted, InSlider
<1>5. CASE pc' # "iterate"
  <2>1. pc' = "idle" /\ UNCHANGED <<iteration, locals>> /\ result' = "thrown"
    BY <1>5 DEF Solve, Idle
  <2>2. ConfigTypes' /\ ControlTypes' /\ DataTypes'
    BY <1>1, <1>2, <1>3, <2>1
    DEF Solve, TypeOK, ConfigTypes, ControlTypes, DataTypes, config, locals
  <2>3. QED BY <2>1, <2>2, IdleBookkeeping DEF TypeOK
<1>6. QED BY <1>4, <1>5

LEMMA BeginIterationBookkeeping ==
  ASSUME Bookkeeping, BeginIteration
  PROVE  Bookkeeping'
<1>1. TypeOK /\ sliders # << >> /\ sliders' = sliders
  BY DEF Bookkeeping, BeginIteration, TowerWhileSolving, config
<1>2. model' \in [Models -> ModelType]
  BY <1>1 DEF BeginIteration, ClearProblems, TypeOK, DataTypes, ModelType
<1>3. precision' \in Precisions
  <2>1. precision \in Precisions /\ iteration \in Nat /\ MinPrecision \in Nat \ {0}
    BY <1>1, SolverAssumption DEF TypeOK, ControlTypes
  <2>2. GetPrecision(iteration) \in Precisions
    BY <2>1 DEF GetPrecision, Precisions
  <2>3. precision' = GetPrecision(iteration) \/ precision' = precision
    BY DEF BeginIteration
  <2> QED BY <2>1, <2>2, <2>3
<1>4. ghost' \in GhostType /\ ghost'.imposed = << >> /\ ghost'.ends = ghost.ends
  <2>1. ghost' = [ghost EXCEPT !.imposed = << >>, !.flagged = {}]
    BY DEF BeginIteration
  <2>2. ghost \in GhostType
    BY <1>1 DEF TypeOK, DataTypes
  <2>3. ghost' = [imposed |-> << >>, flagged |-> {}, ends |-> ghost.ends,
                  fresh |-> ghost.fresh]
    BY <2>1, <2>2 DEF GhostType
  <2>4. ghost.fresh \in BOOLEAN /\ ghost.ends \in Seq([Models -> SnapshotType])
    BY <2>2 DEF GhostType
  <2>5. QED BY <2>3, <2>4 DEF GhostType
<1>5. cur' = 1 /\ pc' = "run1" /\ iteration' = iteration /\ maxIt' = maxIt
      /\ iteration < maxIt /\ reached' = reached
  BY DEF BeginIteration, MayIterate
<1>6. ConfigTypes' /\ ControlTypes' /\ DataTypes'
  BY <1>1, <1>2, <1>3, <1>4, <1>5
  DEF BeginIteration, TypeOK, ConfigTypes, ControlTypes, DataTypes, config
<1>7. 1 \in DOMAIN sliders
  BY <1>1 DEF TypeOK, ConfigTypes
<1>8. ConditionsInOrder' /\ TowerWhileSolving'
  BY <1>1, <1>4, <1>5, <1>7 DEF ConditionsInOrder, TowerWhileSolving, InSlider
<1>9. IterationsCounted'
  BY <1>4, <1>5 DEF Bookkeeping, BeginIteration, IterationsCounted, InSlider
<1>10. QED BY <1>6, <1>8, <1>9 DEF Bookkeeping, TypeOK

\* An exception leaves the solver in its types and outside solve().
LEMMA LeaveBookkeeping ==
  ASSUME TypeOK, Leave, model' \in [Models -> ModelType],
         condScale' \in [Conditions -> Scales \ {0}],
         DOMAIN testers' \subseteq Models, \A m \in DOMAIN testers' : testers'[m] \in TesterType
  PROVE  Bookkeeping'
<1>1. ConfigTypes' /\ ControlTypes' /\ DataTypes'
  BY DEF Leave, TypeOK, ConfigTypes, ControlTypes, DataTypes, config, locals
<1>2. QED BY <1>1, IdleBookkeeping DEF Leave, TypeOK

LEMMA PreciseType ==
  ASSUME TypeOK, NEW s \in SliderType
  PROVE  Precise(s) \in [Models -> ModelType]
BY DEF Precise, TypeOK, DataTypes, ControlTypes, ModelType

\* A running keeps the bookkeeping, whether it reaches the scale or throws.
LEMMA RunModelBookkeeping ==
  ASSUME Bookkeeping, InSlider, NEW m \in Models, NEW next \in {"run2", "impose"},
         RunModel(m, next)
  PROVE  Bookkeeping'
<1>1. TypeOK /\ cur \in DOMAIN sliders /\ sliders # << >>
  BY DEF Bookkeeping, TowerWhileSolving, InSlider
<1> DEFINE s == sliders[cur]
<1>2. s \in SliderType /\ s.cond \in Conditions
  BY <1>1 DEF TypeOK, ConfigTypes, SliderType
<1>3. Precise(s) \in [Models -> ModelType] /\ condScale[s.cond] \in Scales
  BY <1>1, <1>2, PreciseType DEF TypeOK, DataTypes
<1> HIDE DEF s
<1>4. CASE /\ model' = [Precise(s) EXCEPT ![m].scale = condScale[s.cond]]
           /\ pc' = next
           /\ UNCHANGED <<config, precision, iteration, scale, condScale, locals,
                          result, solves, ghost>>
  <2>1. model' \in [Models -> ModelType]
    BY <1>3, <1>4 DEF ModelType
  <2>2. ConfigTypes' /\ ControlTypes' /\ DataTypes'
    BY <1>1, <1>4, <2>1
    DEF TypeOK, ConfigTypes, ControlTypes, DataTypes, config, locals
  <2>3. TowerWhileSolving' /\ ConditionsInOrder' /\ IterationsCounted'
    BY <1>1, <1>4
    DEF Bookkeeping, TowerWhileSolving, ConditionsInOrder, IterationsCounted, InSlider,
        config, locals
  <2>4. QED BY <2>2, <2>3 DEF Bookkeeping, TypeOK
<1>5. CASE /\ \E q \in Scales \ {0} : model' = [Precise(s) EXCEPT ![m].scale = q]
           /\ Leave /\ UNCHANGED <<testers, condScale>>
  <2>1. model' \in [Models -> ModelType]
    BY <1>3, <1>5 DEF ModelType
  <2>2. QED
    BY <1>1, <1>5, <2>1, LeaveBookkeeping DEF TypeOK, ConfigTypes, DataTypes
<1>6. QED BY <1>4, <1>5 DEF RunModel, s

LEMMA RunFirstBookkeeping ==
  ASSUME Bookkeeping, RunFirst
  PROVE  Bookkeeping'
<1>1. TypeOK /\ InSlider /\ cur \in DOMAIN sliders
  BY DEF Bookkeeping, TowerWhileSolving, RunFirst, InSlider
<1>2. sliders[cur].m1 \in Models
  BY <1>1 DEF TypeOK, ConfigTypes, SliderType
<1> DEFINE next == IF sliders[cur].cond \in Matchings THEN "run2" ELSE "impose"
<1>3. next \in {"run2", "impose"} /\ RunModel(sliders[cur].m1, next)
  BY DEF RunFirst
<1> HIDE DEF next
<1>4. QED BY <1>1, <1>2, <1>3, RunModelBookkeeping

LEMMA RunSecondBookkeeping ==
  ASSUME Bookkeeping, RunSecond
  PROVE  Bookkeeping'
<1>1. TypeOK /\ InSlider /\ cur \in DOMAIN sliders
  BY DEF Bookkeeping, TowerWhileSolving, RunSecond, InSlider
<1>2. sliders[cur].m2 \in Models
  BY <1>1 DEF TypeOK, ConfigTypes, SliderType
<1>3. QED BY <1>1, <1>2, RunModelBookkeeping DEF RunSecond

LEMMA ImposeBookkeeping ==
  ASSUME Bookkeeping, Impose
  PROVE  Bookkeeping'
<1>1. TypeOK /\ cur \in DOMAIN sliders /\ sliders # << >> /\ pc = "impose"
  BY DEF Bookkeeping, TowerWhileSolving, Impose, InSlider
<1> DEFINE s == sliders[cur]
<1>2. s \in SliderType /\ s.cond \in Conditions /\ s.m2 \in Models
  BY <1>1 DEF TypeOK, ConfigTypes, SliderType
<1>3. PICK t \in Trajectories, p \in BOOLEAN, q \in NewScales(s.cond) :
        /\ model' = [model EXCEPT ![s.m2].traj = t, ![s.m2].problem = @ \/ p]
        /\ condScale' = [condScale EXCEPT ![s.cond] = q]
        /\ \/ /\ ghost' = [ghost EXCEPT !.imposed = Append(@, cur),
                             !.flagged = IF p THEN @ \cup {s.m2} ELSE @]
              /\ cur' = cur + 1
              /\ pc' = AfterSlider(cur)
              /\ UNCHANGED <<config, precision, iteration, scale, maxIt, reached,
                             result, solves>>
           \/ Leave /\ UNCHANGED testers
  BY DEF Impose
<1> HIDE DEF s
<1>4. model' \in [Models -> ModelType]
  BY <1>1, <1>2, <1>3, ImposedModels DEF TypeOK, DataTypes
<1>5. condScale' \in [Conditions -> Scales \ {0}]
  BY <1>1, <1>2, <1>3 DEF NewScales, TypeOK, DataTypes
<1>6. CASE Leave /\ UNCHANGED testers
  BY <1>1, <1>4, <1>6, <1>5, LeaveBookkeeping DEF TypeOK, ConfigTypes
<1>7. CASE ~(Leave /\ UNCHANGED testers)
  <2>1. /\ ghost' = [ghost EXCEPT !.imposed = Append(@, cur),
                       !.flagged = IF p THEN @ \cup {s.m2} ELSE @]
        /\ cur' = cur + 1
        /\ pc' = AfterSlider(cur)
        /\ UNCHANGED <<config, precision, iteration, scale, maxIt, reached, result, solves>>
    BY <1>3, <1>7
  <2>2. ghost \in GhostType /\ cur \in Nat
    BY <1>1 DEF TypeOK, DataTypes, ControlTypes
  <2>3. /\ ghost' \in GhostType
        /\ ghost'.imposed = Append(ghost.imposed, cur)
        /\ ghost'.ends = ghost.ends
    <3> DEFINE f == IF p THEN ghost.flagged \cup {s.m2} ELSE ghost.flagged
    <3>1. f \in SUBSET Models /\ Append(ghost.imposed, cur) \in Seq(Nat)
      BY <1>2, <2>2 DEF GhostType
    <3>2. ghost' = [ghost EXCEPT !.imposed = Append(@, cur), !.flagged = f]
      BY <2>1
    <3> HIDE DEF f
    <3>3. ghost' = [imposed |-> Append(ghost.imposed, cur), flagged |-> f,
                    ends |-> ghost.ends, fresh |-> ghost.fresh]
      BY <2>2, <3>2 DEF GhostType
    <3>4. ghost.fresh \in BOOLEAN /\ ghost.ends \in Seq([Models -> SnapshotType])
      BY <2>2 DEF GhostType
    <3>5. QED BY <3>1, <3>3, <3>4 DEF GhostType
  <2>5. pc' = (IF cur = Len(sliders) THEN "test" ELSE "run1") /\ sliders' = sliders
    BY <2>1 DEF AfterSlider, config
  <2>6. ConfigTypes' /\ ControlTypes' /\ DataTypes'
    BY <1>1, <1>4, <1>5, <2>1, <2>2, <2>3, <2>5
    DEF TypeOK, ConfigTypes, ControlTypes, DataTypes, config
  <2>7. sliders \in Seq(SliderType)
    BY <1>1 DEF TypeOK, ConfigTypes
  <2>8. TowerWhileSolving'
    BY <1>1, <2>1, <2>5, <2>7 DEF TowerWhileSolving, InSlider
  <2>9. ghost'.imposed = [i \in 1..cur |-> i]
    <3>1. ghost.imposed = [i \in 1..(cur - 1) |-> i]
      BY <1>1 DEF Bookkeeping, ConditionsInOrder, InSlider
    <3>2. cur \in 1..Len(sliders)
      BY <1>1, <2>7
    <3>3. QED BY <2>2, <2>3, <3>1, <3>2 DEF GhostType
  <2>10. ConditionsInOrder'
    <3>1. cur \in 1..Len(sliders) /\ DOMAIN sliders = 1..Len(sliders)
      BY <1>1, <2>7
    <3>2. pc' \in {"run1", "run2", "impose"} => pc' = "run1" /\ cur # Len(sliders)
      BY <2>5
    <3>3. pc' = "test" => cur = Len(sliders)
      BY <2>5
    <3>4. cur' - 1 = cur
      BY <2>1, <2>2
    <3>5. InSlider' => cur' \in DOMAIN sliders' /\ ghost'.imposed = [i \in 1..(cur' - 1) |-> i]
      <4>1. SUFFICES ASSUME InSlider' PROVE cur + 1 \in 1..Len(sliders)
        BY <2>1, <2>5, <2>9, <3>1, <3>4
      <4>2. cur # Len(sliders)
        BY <3>2, <4>1 DEF InSlider
      <4>3. Len(sliders) \in Nat
        BY <2>7
      <4>4. 1 <= cur /\ cur <= Len(sliders)
        BY <2>2, <3>1, <4>3
      <4>5. QED BY <2>2, <4>2, <4>3, <4>4
    <3>6. pc' = "test" => ghost'.imposed = [i \in DOMAIN sliders' |-> i]
      BY <2>5, <2>9, <3>1, <3>3
    <3>7. QED BY <3>5, <3>6 DEF ConditionsInOrder
  <2>11. IterationsCounted'
    BY <1>1, <2>1, <2>3, <2>5 DEF Bookkeeping, IterationsCounted, InSlider
  <2>12. QED BY <2>6, <2>8, <2>10, <2>11 DEF Bookkeeping, TypeOK
<1>8. QED BY <1>6, <1>7

LEMMA TestAccuracyBookkeeping ==
  ASSUME Bookkeeping, TestAccuracy
  PROVE  Bookkeeping'
<1>1. TypeOK /\ sliders # << >> /\ pc = "test" /\ iteration < maxIt
  BY DEF Bookkeeping, TowerWhileSolving, IterationsCounted, TestAccuracy
<1>2. CASE testers' \in ThrownTesters(testers) /\ UNCHANGED <<model, condScale>> /\ Leave
  <2>1. DOMAIN testers' = DOMAIN testers /\ \A m \in DOMAIN testers' : testers'[m] \in TesterType
    BY <1>1, <1>2, ThrownTestersType DEF TypeOK, ConfigTypes, DataTypes
  <2> QED BY <1>1, <1>2, <2>1, LeaveBookkeeping DEF TypeOK, ConfigTypes, DataTypes
<1>3. CASE ~(testers' \in ThrownTesters(testers) /\ UNCHANGED <<model, condScale>> /\ Leave)
  <2>1. /\ reached' = Tester!CompositeGoalReached(testers, model)
        /\ testers' = Tester!CompositeTested(testers, model)
        /\ iteration' = iteration + 1
        /\ ghost' = [ghost EXCEPT !.ends = Append(@, Ends)]
        /\ pc' = "iterate"
        /\ UNCHANGED <<sliders, hasTester, hasGuesser, hasCalc, precision, scale,
                       model, condScale, cur, maxIt, result, solves>>
    BY <1>3 DEF TestAccuracy
  <2>2. model \in [Models -> ModelType] /\ ghost \in GhostType
    BY <1>1 DEF TypeOK, DataTypes
  <2>3. ghost' \in GhostType /\ ghost'.ends = Append(ghost.ends, Ends)
    <3>1. Append(ghost.ends, Ends) \in Seq([Models -> SnapshotType])
      BY <2>2 DEF GhostType, Ends, ModelType, SnapshotType
    <3>2. ghost' = [imposed |-> ghost.imposed, flagged |-> ghost.flagged,
                    ends |-> Append(ghost.ends, Ends), fresh |-> ghost.fresh]
      BY <2>1, <2>2 DEF GhostType
    <3>3. ghost.fresh \in BOOLEAN /\ ghost.imposed \in Seq(Nat) /\ ghost.flagged \in SUBSET Models
      BY <2>2 DEF GhostType
    <3>4. QED BY <3>1, <3>2, <3>3 DEF GhostType
  <2>4. DOMAIN testers' = DOMAIN testers /\ \A m \in DOMAIN testers' : testers'[m] \in TesterType
    BY <1>1, <2>1, <2>2, CompositeTestedType DEF TypeOK, ConfigTypes
  <2>5. reached' \in BOOLEAN
    BY <2>1 DEF Tester!CompositeGoalReached
  <2>6. maxIt \in Int /\ iteration \in Nat
    BY <1>1, SolverAssumption DEF TypeOK, ControlTypes
  <2>7. ConfigTypes' /\ ControlTypes' /\ DataTypes'
    BY <1>1, <2>1, <2>2, <2>3, <2>4, <2>5, <2>6
    DEF TypeOK, ConfigTypes, ControlTypes, DataTypes
  <2>8. IterationsCounted'
    <3>1. Len(ghost.ends) = iteration
      BY <1>1 DEF Bookkeeping, IterationsCounted
    <3>2. Len(ghost'.ends) = iteration + 1
      BY <2>2, <2>3, <3>1 DEF GhostType
    <3>3. QED BY <1>1, <2>1, <2>6, <3>2 DEF IterationsCounted, InSlider
  <2>9. TowerWhileSolving' /\ ConditionsInOrder'
    BY <1>1, <2>1 DEF TowerWhileSolving, ConditionsInOrder, InSlider
  <2>10. QED BY <2>7, <2>8, <2>9 DEF Bookkeeping, TypeOK
<1>4. QED BY <1>2, <1>3

LEMMA EndSolveBookkeeping ==
  ASSUME Bookkeeping, EndSolve
  PROVE  Bookkeeping'
<1>1. TypeOK
  BY DEF Bookkeeping
<1>2. ConfigTypes' /\ ControlTypes' /\ DataTypes'
  BY <1>1
  DEF EndSolve, TypeOK, ConfigTypes, ControlTypes, DataTypes, config, locals
<1>3. QED BY <1>2, IdleBookkeeping DEF EndSolve, TypeOK

LEMMA StutterBookkeeping ==
  ASSUME Bookkeeping, UNCHANGED vars
  PROVE  Bookkeeping'
<1>1. ConfigTypes' /\ ControlTypes' /\ DataTypes'
  BY DEF Bookkeeping, TypeOK, ConfigTypes, ControlTypes, DataTypes, vars, config, locals
<1>2. QED
  BY <1>1
  DEF Bookkeeping, TypeOK, TowerWhileSolving, ConditionsInOrder, IterationsCounted, InSlider,
      vars, config, locals

LEMMA ClientBookkeeping ==
  ASSUME Bookkeeping, Client
  PROVE  Bookkeeping'
<1>1. TypeOK
  BY DEF Bookkeeping
<1>2. CASE \E c \in Constraints, m \in Models : AddConstraint(c, m)
  <2>1. PICK c \in Constraints, m \in Models : Add(ConstraintSlider(c, m))
    BY <1>2 DEF AddConstraint
  <2>2. ConstraintSlider(c, m) \in SliderType
    BY DEF ConstraintSlider, SliderType, Conditions
  <2>3. QED BY <1>1, <2>1, <2>2, AddType, IdleBookkeeping
<1>3. CASE \E mc \in Matchings, m1, m2 \in Models : AddMatching(mc, m1, m2)
  <2>1. PICK mc \in Matchings, m1 \in Models, m2 \in Models : Add(MatchingSlider(mc, m1, m2))
    BY <1>3 DEF AddMatching
  <2>2. MatchingSlider(mc, m1, m2) \in SliderType
    BY SolverAssumption DEF MatchingSlider, SliderType, Conditions
  <2>3. QED BY <1>1, <2>1, <2>2, AddType, IdleBookkeeping
<1>4. CASE \E ms \in SUBSET Models : \E max \in [ms -> MaxIts] : SetTester(max)
  BY <1>1, <1>4, SetTesterType, IdleBookkeeping
<1>5. CASE RestartTester
  BY <1>1, <1>5, RestartTesterType, IdleBookkeeping
<1>6. CASE \E g, p \in BOOLEAN : SetGuesserAndPrecision(g, p)
  BY <1>1, <1>6, SetGuesserAndPrecisionType, IdleBookkeeping
<1>7. CASE Reset
  BY <1>1, <1>7, ResetType, IdleBookkeeping
<1>8. CASE \E s \in Scales \ {0} : RunTo(s)
  BY <1>1, <1>8, RunToType, IdleBookkeeping
<1>9. CASE SolveNothing
  BY <1>1, <1>9, SolveNothingType, IdleBookkeeping
<1>10. CASE Solve
  BY <1>10, SolveBookkeeping
<1>11. QED
  BY <1>2, <1>3, <1>4, <1>5, <1>6, <1>7, <1>8, <1>9, <1>10 DEF Client

\* The bookkeeping of the solver is an invariant: all variables keep their
\* types, the conditions of the tower are imposed once per iteration in the
\* order of the sliders, and the iterations done are counted within the
\* maximum, for every tower, composite tester and order of calls.
THEOREM BookkeepingInvariant == Spec => []Bookkeeping
<1>1. Init => Bookkeeping
  BY InitBookkeeping
<1>2. Bookkeeping /\ [Next]_vars => Bookkeeping'
  BY ClientBookkeeping, BeginIterationBookkeeping, RunFirstBookkeeping, RunSecondBookkeeping,
     ImposeBookkeeping, TestAccuracyBookkeeping, EndSolveBookkeeping, StutterBookkeeping
  DEF Next, SolveStep
<1>3. QED BY <1>1, <1>2, PTL DEF Spec

\* Type correctness of the solver.
THEOREM TypeCorrect == Spec => []TypeOK
<1>1. Bookkeeping => TypeOK
  BY DEF Bookkeeping
<1>2. QED BY <1>1, BookkeepingInvariant, PTL

\* run_sliders() imposes every condition exactly once and in order.
THEOREM ConditionsInOrderInvariant == Spec => []ConditionsInOrder
<1>1. Bookkeeping => ConditionsInOrder
  BY DEF Bookkeeping
<1>2. QED BY <1>1, BookkeepingInvariant, PTL

\* The iteration counter of solve() is exact and bounded.
THEOREM IterationsCountedInvariant == Spec => []IterationsCounted
<1>1. Bookkeeping => IterationsCounted
  BY DEF Bookkeeping
<1>2. QED BY <1>1, BookkeepingInvariant, PTL

-----------------------------------------------------------------------------
(* What the conditions and the testers see of the models.                  *)

\* Between the two runnings of a matching, the first model stands at its scale.
FirstModelRun ==
  pc = "run2" => model[sliders[cur].m1].scale = condScale[sliders[cur].cond]

\* There is a tester, and a fresh composite has seen every iteration.
TestersFollow ==
  pc # "idle" => DOMAIN testers # {} /\ (ghost.fresh => FollowEnds(testers, ghost.ends))

Observations ==
  /\ FirstModelRun /\ ImposedAtScale /\ ProblemsOfThisIteration
  /\ TestersFollow /\ ConvergedOnTwoIterations

SolverInv == Bookkeeping /\ Observations

\* Outside solve() nothing is claimed.
LEMMA IdleObservations == ASSUME pc' = "idle" PROVE Observations'
BY DEF Observations, FirstModelRun, ImposedAtScale, ProblemsOfThisIteration, TestersFollow,
       ConvergedOnTwoIterations, InSlider

LEMMA SolveObservations ==
  ASSUME Bookkeeping, Solve
  PROVE  Observations'
<1>1. CASE pc' = "idle"
  BY <1>1, IdleObservations
<1>2. CASE pc' # "idle"
  <2>1. /\ pc' = "iterate" /\ iteration' = 0 /\ reached' = FALSE
        /\ testers' = testers
        /\ Tester!CompositeMaxIterations(testers) # 0
    BY <1>2 DEF Solve, Idle, config
  <2>2. DOMAIN testers # {}
    BY <2>1 DEF Tester!CompositeMaxIterations
  <2>3. ghost'.ends = << >> /\ (ghost'.fresh => \A m \in DOMAIN testers : testers[m].count = 0)
    <3> DEFINE b == \A m \in DOMAIN testers : testers[m].count = 0
    <3>1. ghost' = [NoGhost EXCEPT !.fresh = b]
      BY DEF Solve
    <3> HIDE DEF b
    <3>2. ghost'.fresh = b /\ ghost'.ends = << >>
      BY <3>1 DEF NoGhost
    <3> QED BY <3>2 DEF b
  <2>4. TestersFollow'
    <3>1. ghost'.fresh => FollowEnds(testers, << >>)
      BY <2>3 DEF FollowEnds
    <3> QED BY <2>1, <2>2, <2>3, <3>1 DEF TestersFollow
  <2> QED
    BY <2>1, <2>4
    DEF Observations, FirstModelRun, ImposedAtScale, ProblemsOfThisIteration,
        ConvergedOnTwoIterations, InSlider
<1> QED BY <1>1, <1>2

\* A new iteration begins with no problem, and with the testers as they were.
LEMMA BeginIterationObservations ==
  ASSUME SolverInv, BeginIteration
  PROVE  Observations'
<1>1. TypeOK /\ pc = "iterate" /\ pc' = "run1"
  BY DEF SolverInv, Bookkeeping, BeginIteration
<1>2. /\ sliders' = sliders /\ testers' = testers /\ iteration' = iteration
      /\ model' = ClearProblems
  BY DEF BeginIteration, config
<1>3. ghost'.flagged = {} /\ ghost'.ends = ghost.ends /\ ghost'.fresh = ghost.fresh
  BY <1>1 DEF BeginIteration, TypeOK, DataTypes, GhostType
<1>4. ProblemsOfThisIteration'
  <2>1. \A m \in TowerModels : ~model'[m].problem
    BY <1>1, <1>2 DEF ClearProblems, TowerModels, TypeOK, DataTypes, ModelType
  <2>2. TowerModels' = TowerModels
    BY <1>2 DEF TowerModels, InTower
  <2> QED
    BY <1>3, <2>1, <2>2 DEF ProblemsOfThisIteration
<1>5. TestersFollow'
  BY <1>1, <1>2, <1>3 DEF SolverInv, Observations, TestersFollow
<1> QED
  BY <1>1, <1>4, <1>5
  DEF Observations, FirstModelRun, ImposedAtScale, ConvergedOnTwoIterations

\* A running keeps the problems and the testers, and the last one of a slider
\* leaves all its models at the scale of the condition.
LEMMA RunModelObservations ==
  ASSUME SolverInv, InSlider, NEW m \in Models, NEW next \in {"run2", "impose"},
         RunModel(m, next),
         next = "run2" => m = sliders[cur].m1,
         next = "impose" => /\ m = sliders[cur].m2
                            /\ \/ sliders[cur].m1 = m
                               \/ model[sliders[cur].m1].scale = condScale[sliders[cur].cond]
  PROVE  Observations'
<1>1. TypeOK /\ cur \in DOMAIN sliders /\ pc \notin {"idle", "iterate"}
  BY DEF SolverInv, Bookkeeping, TowerWhileSolving, InSlider
<1> DEFINE s == sliders[cur]
<1>2. s \in SliderType
  BY <1>1 DEF TypeOK, ConfigTypes
<1>3. Precise(s) \in [Models -> ModelType]
  BY <1>1, <1>2, PreciseType
<1>4. CASE pc' = "idle"
  BY <1>4, IdleObservations
<1>5. CASE pc' # "idle"
  <2>1. /\ model' = [Precise(s) EXCEPT ![m].scale = condScale[s.cond]]
        /\ pc' = next
        /\ UNCHANGED <<config, precision, iteration, scale, condScale, locals,
                       result, solves, ghost>>
    BY <1>5 DEF RunModel, Leave
  <2>2. \A k \in Models : /\ model'[k].problem = model[k].problem
                          /\ model'[k].precision = Precise(s)[k].precision
                          /\ k # m => model'[k].scale = model[k].scale
                          /\ k = m => model'[k].scale = condScale[s.cond]
    <3>1. condScale[s.cond] \in Scales
      BY <1>1, <1>2 DEF TypeOK, DataTypes, SliderType
    <3> HIDE DEF s
    <3>2. \A k \in Models : /\ Precise(s)[k].problem = model[k].problem
                            /\ Precise(s)[k].scale = model[k].scale
      BY <1>1 DEF Precise, TypeOK, DataTypes, ModelType
    <3>3. model' = RunAt(Precise(s), m, condScale[s.cond])
      BY <2>1 DEF RunAt
    <3> QED BY <1>3, <3>1, <3>2, <3>3, RunModels
  <2>3. \A k \in SliderModels(s) : Precise(s)[k].precision = precision
    BY <1>1, <1>2 DEF Precise, SliderModels, SliderType, TypeOK, DataTypes, ModelType
  <2>4. /\ sliders' = sliders /\ cur' = cur /\ condScale' = condScale
        /\ testers' = testers /\ iteration' = iteration /\ ghost' = ghost
        /\ precision' = precision
    BY <2>1 DEF config, locals
  <2>5. FirstModelRun'
    BY <1>2, <2>1, <2>2, <2>4 DEF FirstModelRun
  <2>6. ImposedAtScale'
    <3>1. SUFFICES ASSUME pc' = "impose", NEW k \in SliderModels(s)
                   PROVE  /\ model'[k].scale = condScale[s.cond]
                          /\ model'[k].precision = precision
      BY <2>4 DEF ImposedAtScale, SliderModels
    <3>2. k \in Models /\ k \in {s.m1, s.m2}
      BY <1>2 DEF SliderModels, SliderType
    <3>3. next = "impose"
      BY <2>1, <3>1
    <3> QED
      BY <2>2, <2>3, <3>1, <3>2, <3>3
  <2>7. ProblemsOfThisIteration'
    <3>1. TowerModels' = TowerModels /\ TowerModels \subseteq Models
      BY <2>4 DEF TowerModels, InTower
    <3>2. \A k \in TowerModels : model[k].problem <=> k \in ghost.flagged
      BY DEF SolverInv, Observations, ProblemsOfThisIteration
    <3> QED
      BY <2>2, <2>4, <3>1, <3>2 DEF ProblemsOfThisIteration
  <2>8. TestersFollow'
    BY <1>1, <2>4 DEF SolverInv, Observations, TestersFollow
  <2> QED
    BY <2>1, <2>5, <2>6, <2>7, <2>8 DEF Observations, ConvergedOnTwoIterations
<1> QED BY <1>4, <1>5

LEMMA RunFirstObservations ==
  ASSUME SolverInv, RunFirst
  PROVE  Observations'
<1>1. TypeOK /\ InSlider /\ cur \in DOMAIN sliders
  BY DEF SolverInv, Bookkeeping, TowerWhileSolving, RunFirst, InSlider
<1> DEFINE s == sliders[cur]
           next == IF s.cond \in Matchings THEN "run2" ELSE "impose"
<1>2. s \in SliderType
  BY <1>1 DEF TypeOK, ConfigTypes
<1>3. s.m1 \in Models /\ (next = "impose" => s.m1 = s.m2)
  BY <1>2 DEF SliderType, Conditions
<1>4. RunModel(s.m1, next) /\ next \in {"run2", "impose"}
  BY DEF RunFirst
<1> HIDE DEF next
<1> QED BY <1>1, <1>3, <1>4, RunModelObservations

LEMMA RunSecondObservations ==
  ASSUME SolverInv, RunSecond
  PROVE  Observations'
<1>1. TypeOK /\ InSlider /\ cur \in DOMAIN sliders
  BY DEF SolverInv, Bookkeeping, TowerWhileSolving, RunSecond, InSlider
<1>2. sliders[cur].m2 \in Models
  BY <1>1 DEF TypeOK, ConfigTypes, SliderType
<1>3. model[sliders[cur].m1].scale = condScale[sliders[cur].cond]
  BY DEF SolverInv, Observations, FirstModelRun, RunSecond
<1> QED BY <1>1, <1>2, <1>3, RunModelObservations DEF RunSecond

\* An imposed condition flags its second model in the model and in the ghost.
LEMMA ImposeObservations ==
  ASSUME SolverInv, Impose
  PROVE  Observations'
<1>1. TypeOK /\ cur \in DOMAIN sliders /\ InSlider /\ pc = "impose"
  BY DEF SolverInv, Bookkeeping, TowerWhileSolving, Impose, InSlider
<1> DEFINE s == sliders[cur]
<1>2. s \in SliderType /\ s.m2 \in Models /\ s.m2 \in SliderModels(s)
  BY <1>1 DEF TypeOK, ConfigTypes, SliderType, SliderModels
<1>3. PICK t \in Trajectories, p \in BOOLEAN, q \in NewScales(s.cond) :
        /\ model' = [model EXCEPT ![s.m2].traj = t, ![s.m2].problem = @ \/ p]
        /\ \/ /\ ghost' = [ghost EXCEPT !.imposed = Append(@, cur),
                             !.flagged = IF p THEN @ \cup {s.m2} ELSE @]
              /\ pc' = AfterSlider(cur)
              /\ UNCHANGED <<config, precision, iteration, scale, maxIt, reached,
                             result, solves>>
           \/ Leave /\ UNCHANGED testers
  BY DEF Impose
<1>4. s.m2 \in TowerModels
  BY <1>1, <1>2 DEF TowerModels, InTower
<1> HIDE DEF s
<1>5. CASE pc' = "idle"
  BY <1>5, IdleObservations
<1>6. CASE pc' # "idle"
  <2>1. /\ ghost' = [ghost EXCEPT !.imposed = Append(@, cur),
                       !.flagged = IF p THEN @ \cup {s.m2} ELSE @]
        /\ pc' \in {"run1", "test"}
        /\ UNCHANGED <<config, iteration>>
    BY <1>3, <1>6 DEF Leave, AfterSlider
  <2>2. /\ ghost'.flagged = IF p THEN ghost.flagged \cup {s.m2} ELSE ghost.flagged
        /\ ghost'.ends = ghost.ends /\ ghost'.fresh = ghost.fresh
    BY <1>1, <2>1 DEF TypeOK, DataTypes, GhostType
  <2>3. ProblemsOfThisIteration'
    <3>1. TowerModels' = TowerModels /\ TowerModels \subseteq Models
      BY <2>1 DEF TowerModels, InTower, config
    <3>2. \A k \in TowerModels : model[k].problem <=> k \in ghost.flagged
      BY <1>1 DEF SolverInv, Observations, ProblemsOfThisIteration
    <3>3. \A k \in Models : model'[k].problem <=> model[k].problem \/ (k = s.m2 /\ p)
      BY <1>1, <1>2, <1>3, ImposedModels DEF TypeOK, DataTypes
    <3>4. \A k \in TowerModels : model'[k].problem <=> k \in ghost'.flagged
      BY <1>3, <2>2, <3>1, <3>2, <3>3
    <3> QED BY <3>1, <3>4 DEF ProblemsOfThisIteration
  <2>4. TestersFollow'
    BY <1>1, <2>1, <2>2 DEF SolverInv, Observations, TestersFollow, config
  <2> QED
    BY <2>1, <2>3, <2>4
    DEF Observations, FirstModelRun, ImposedAtScale, ConvergedOnTwoIterations
<1> QED BY <1>5, <1>6

\* The test of an iteration: every tester moves on to the new end, and a
\* satisfied one compared it with the end before.
LEMMA TestAccuracyObservations ==
  ASSUME SolverInv, TestAccuracy
  PROVE  Observations'
<1>1. TypeOK /\ pc = "test" /\ Len(ghost.ends) = iteration
  BY DEF SolverInv, Bookkeeping, TestAccuracy, IterationsCounted
<1>2. CASE pc' = "idle"
  BY <1>2, IdleObservations
<1>3. CASE pc' # "idle"
  <2>1. /\ reached' = Tester!CompositeGoalReached(testers, model)
        /\ testers' = Tester!CompositeTested(testers, model)
        /\ iteration' = iteration + 1
        /\ ghost' = [ghost EXCEPT !.ends = Append(@, Ends)]
        /\ pc' = "iterate" /\ sliders' = sliders /\ model' = model
    BY <1>3 DEF TestAccuracy, Leave
  <2>2. model \in [Models -> ModelType] /\ ghost \in GhostType /\ iteration \in Nat
    BY <1>1 DEF TypeOK, DataTypes, ControlTypes
  <2>3. /\ ghost'.ends = Append(ghost.ends, Ends) /\ ghost'.flagged = ghost.flagged
        /\ ghost'.fresh = ghost.fresh
    BY <2>1, <2>2 DEF GhostType
  <2>4. /\ ghost.ends \in Seq([Models -> SnapshotType])
        /\ Ends \in [Models -> SnapshotType]
    BY <2>2 DEF GhostType, Ends, ModelType, SnapshotType
  <2>5. ProblemsOfThisIteration'
    <3>1. TowerModels' = TowerModels
      BY <2>1 DEF TowerModels, InTower
    <3>2. \A k \in TowerModels : model[k].problem <=> k \in ghost.flagged
      BY <1>1 DEF SolverInv, Observations, ProblemsOfThisIteration
    <3> QED BY <2>1, <2>3, <3>1, <3>2 DEF ProblemsOfThisIteration
  <2>6. DOMAIN testers # {} /\ DOMAIN testers' = DOMAIN testers /\ DOMAIN testers \subseteq Models
    BY <1>1, <2>1
    DEF SolverInv, Observations, TestersFollow, TypeOK, ConfigTypes, Tester!CompositeTested
  <2>7. ghost.fresh =>
          /\ FollowEnds(testers', Append(ghost.ends, Ends))
          /\ reached' => AgreeOnLastTwo(testers, Append(ghost.ends, Ends))
    <3>1. SUFFICES ASSUME ghost.fresh
                   PROVE  /\ FollowEnds(testers', Append(ghost.ends, Ends))
                          /\ reached' => AgreeOnLastTwo(testers, Append(ghost.ends, Ends))
      OBVIOUS
    <3>2. FollowEnds(testers, ghost.ends)
      BY <1>1, <3>1 DEF SolverInv, Observations, TestersFollow
    <3>3. \A m \in DOMAIN testers : testers[m] \in TesterType
      BY <1>1 DEF TypeOK, ConfigTypes
    <3> QED BY <2>1, <2>2, <2>4, <2>6, <3>2, <3>3, TestersMoveOn
  <2>8. TestersFollow'
    BY <2>3, <2>6, <2>7 DEF TestersFollow
  <2>9. ConvergedOnTwoIterations'
    BY <2>3, <2>6, <2>7 DEF ConvergedOnTwoIterations, AgreeOnLastTwo, SameParameters
  <2> QED
    BY <2>1, <2>5, <2>8, <2>9 DEF Observations, FirstModelRun, ImposedAtScale
<1> QED BY <1>2, <1>3

LEMMA ClientObservations ==
  ASSUME SolverInv, Client
  PROVE  Observations'
<1>1. CASE Solve
  BY <1>1, SolveObservations DEF SolverInv
<1>2. CASE ~Solve
  <2>1. pc' = "idle"
    BY <1>2
    DEF Client, AddConstraint, AddMatching, Add, SetTester, RestartTester,
        SetGuesserAndPrecision, Reset, RunTo, SolveNothing, Idle
  <2> QED BY <2>1, IdleObservations
<1> QED BY <1>1, <1>2

LEMMA StutterObservations ==
  ASSUME SolverInv, UNCHANGED vars
  PROVE  Observations'
BY DEF SolverInv, Observations, FirstModelRun, ImposedAtScale, ProblemsOfThisIteration,
       TestersFollow, ConvergedOnTwoIterations, InSlider, TowerModels, InTower,
       vars, config, locals

LEMMA InitSolver == Init => SolverInv
<1>1. ASSUME Init PROVE Observations
  BY <1>1
  DEF Init, Observations, FirstModelRun, ImposedAtScale, ProblemsOfThisIteration, TestersFollow,
      ConvergedOnTwoIterations, InSlider
<1> QED BY <1>1, InitBookkeeping DEF SolverInv

\* solve() keeps the invariant, whoever runs the solver.
LEMMA SolveStepInv ==
  ASSUME SolverInv, SolveStep
  PROVE  SolverInv'
<1>1. Bookkeeping
  BY DEF SolverInv
<1>2. CASE BeginIteration
  BY <1>1, <1>2, BeginIterationBookkeeping, BeginIterationObservations DEF SolverInv
<1>3. CASE RunFirst
  BY <1>1, <1>3, RunFirstBookkeeping, RunFirstObservations DEF SolverInv
<1>4. CASE RunSecond
  BY <1>1, <1>4, RunSecondBookkeeping, RunSecondObservations DEF SolverInv
<1>5. CASE Impose
  BY <1>1, <1>5, ImposeBookkeeping, ImposeObservations DEF SolverInv
<1>6. CASE TestAccuracy
  BY <1>1, <1>6, TestAccuracyBookkeeping, TestAccuracyObservations DEF SolverInv
<1>7. CASE EndSolve
  <2>1. pc' = "idle"
    BY <1>7 DEF EndSolve
  <2> QED BY <1>1, <1>7, <2>1, EndSolveBookkeeping, IdleObservations DEF SolverInv
<1> QED BY <1>2, <1>3, <1>4, <1>5, <1>6, <1>7 DEF SolveStep

LEMMA NextSolver == SolverInv /\ [Next]_vars => SolverInv'
<1> SUFFICES ASSUME SolverInv, [Next]_vars PROVE SolverInv'
  OBVIOUS
<1>1. Bookkeeping
  BY DEF SolverInv
<1>2. CASE Client
  BY <1>1, <1>2, ClientBookkeeping, ClientObservations DEF SolverInv
<1>3. CASE SolveStep
  BY <1>3, SolveStepInv
<1>4. CASE UNCHANGED vars
  BY <1>1, <1>4, StutterBookkeeping, StutterObservations DEF SolverInv
<1> QED BY <1>2, <1>3, <1>4 DEF Next

\* What solve() tells its conditions and testers is an invariant too, for
\* every tower, composite tester and order of the client's calls.
THEOREM SolverInvariant == Spec => []SolverInv
BY InitSolver, NextSolver, PTL DEF Spec

\* slide() never imposes a condition on a model that is not at its scale or
\* was run there with another precision than that of the iteration.
THEOREM ImposedAtScaleInvariant == Spec => []ImposedAtScale
<1>1. SolverInv => ImposedAtScale
  BY DEF SolverInv, Observations
<1> QED BY <1>1, SolverInvariant, PTL

\* clear_problems() at the head of the loop is enough: after it the problems
\* of the tower's models are those the conditions of this iteration raised.
THEOREM ProblemsOfThisIterationInvariant == Spec => []ProblemsOfThisIteration
<1>1. SolverInv => ProblemsOfThisIteration
  BY DEF SolverInv, Observations
<1> QED BY <1>1, SolverInvariant, PTL

\* Composite_convergence_tester asks every tester in every iteration.
THEOREM TestersInStepInvariant == Spec => []TestersInStep
<1>1. SolverInv => TestersInStep
  BY DEF SolverInv, Bookkeeping, IterationsCounted, Observations, TestersFollow, FollowEnds,
         TestersInStep
<1> QED BY <1>1, SolverInvariant, PTL

\* With a fresh tester solve() never converges on one iteration, nor on a
\* pair of iterations the tester could tell apart, nor on those of an
\* earlier solve().
THEOREM ConvergedOnTwoIterationsInvariant == Spec => []ConvergedOnTwoIterations
<1>1. SolverInv => ConvergedOnTwoIterations
  BY DEF SolverInv, Observations
<1> QED BY <1>1, SolverInvariant, PTL

-----------------------------------------------------------------------------
(* Giving up.                                                              *)

\* A tested model had moved on in every iteration.
MovedOn(ts, ends) ==
  \A i \in 1..(Len(ends) - 1) : \E m \in DOMAIN ts : ~Agree(ends[i + 1][m], ends[i][m])

\* As long as the goal is not reached, no two successive iterations agreed.
NeverAgreed ==
  /\ pc \notin {"idle", "iterate"} => ~reached
  /\ pc # "idle" /\ ghost.fresh /\ ~reached => MovedOn(testers, ghost.ends)

\* The test of an iteration compares it with the one before.
LEMMA TestAccuracyAgreed ==
  ASSUME SolverInv, NeverAgreed, TestAccuracy
  PROVE  NeverAgreed'
<1>1. TypeOK /\ pc = "test" /\ ~reached
  BY DEF SolverInv, Bookkeeping, TestAccuracy, NeverAgreed
<1>2. CASE pc' = "idle"
  BY <1>2 DEF NeverAgreed
<1>3. CASE pc' # "idle"
  <2>1. /\ reached' = Tester!CompositeGoalReached(testers, model)
        /\ testers' = Tester!CompositeTested(testers, model)
        /\ ghost' = [ghost EXCEPT !.ends = Append(@, Ends)]
        /\ pc' = "iterate"
    BY <1>3 DEF TestAccuracy, Leave
  <2>2. /\ model \in [Models -> ModelType] /\ ghost \in GhostType
        /\ DOMAIN testers \subseteq Models /\ \A m \in DOMAIN testers : testers[m] \in TesterType
    BY <1>1 DEF TypeOK, DataTypes, ConfigTypes
  <2>3. ghost'.ends = Append(ghost.ends, Ends) /\ ghost'.fresh = ghost.fresh
    BY <2>1, <2>2 DEF GhostType
  <2>4. /\ ghost.ends \in Seq([Models -> SnapshotType])
        /\ DOMAIN testers' = DOMAIN testers
    BY <2>1, <2>2 DEF GhostType, Tester!CompositeTested
  <2> DEFINE ends == ghost.ends
             n == Len(ends)
  <2>5. SUFFICES ASSUME ghost.fresh, ~reached', NEW i \in 1..(Len(Append(ends, Ends)) - 1)
                 PROVE  \E m \in DOMAIN testers :
                          ~Agree(Append(ends, Ends)[i + 1][m], Append(ends, Ends)[i][m])
    BY <2>1, <2>3, <2>4 DEF NeverAgreed, MovedOn
  <2>6. n \in Nat /\ i \in 1..n
    BY <2>4, <2>5
  <2>7. CASE i < n
    <3>1. /\ Append(ends, Ends)[i + 1] = ends[i + 1] /\ Append(ends, Ends)[i] = ends[i]
          /\ i \in 1..(n - 1)
      BY <2>4, <2>6, <2>7
    <3>2. MovedOn(testers, ends)
      BY <1>1, <2>5 DEF NeverAgreed
    <3> QED BY <3>1, <3>2 DEF MovedOn
  <2>8. CASE i = n
    <3>1. Append(ends, Ends)[i + 1] = Ends /\ Append(ends, Ends)[i] = ends[n] /\ n > 0
      BY <2>4, <2>6, <2>8
    <3>2. FollowEnds(testers, ends)
      BY <1>1, <2>5 DEF SolverInv, Observations, TestersFollow
    <3>3. \E m \in DOMAIN testers : ~Agree(Ends[m], ends[n][m])
      <4> HIDE DEF ends
      <4> QED BY <2>1, <2>2, <2>4, <2>5, <3>1, <3>2, TestersDisagree DEF ends
    <3> QED BY <3>1, <3>3
  <2> QED BY <2>6, <2>7, <2>8
<1> QED BY <1>2, <1>3

\* The steps of solve() before the test keep the testers and the ends.
LEMMA SliderAgreed ==
  ASSUME TypeOK, NeverAgreed, BeginIteration \/ RunFirst \/ RunSecond \/ Impose
  PROVE  NeverAgreed'
<1>1. CASE pc' = "idle"
  BY <1>1 DEF NeverAgreed
<1>2. CASE pc' # "idle"
  <2>1. ghost \in GhostType
    BY DEF TypeOK, DataTypes
  <2>2. CASE BeginIteration
    <3>1. /\ testers' = testers /\ reached' = reached /\ ~reached /\ pc = "iterate"
          /\ ghost' = [ghost EXCEPT !.imposed = << >>, !.flagged = {}]
      BY <2>2 DEF BeginIteration, MayIterate, config
    <3>2. ghost'.ends = ghost.ends /\ ghost'.fresh = ghost.fresh
      BY <2>1, <3>1 DEF GhostType
    <3> QED BY <3>1, <3>2 DEF NeverAgreed
  <2>3. CASE RunFirst \/ RunSecond
    <3>1. /\ testers' = testers /\ reached' = reached /\ ghost' = ghost
          /\ pc \in {"run1", "run2"}
      BY <1>2, <2>3 DEF RunFirst, RunSecond, RunModel, Leave, config, locals
    <3> QED BY <3>1 DEF NeverAgreed
  <2>4. CASE Impose
    <3>1. /\ testers' = testers /\ reached' = reached /\ pc = "impose"
          /\ \E p \in BOOLEAN, m \in {sliders[cur].m2} :
               ghost' = [ghost EXCEPT !.imposed = Append(@, cur),
                           !.flagged = IF p THEN @ \cup {m} ELSE @]
      BY <1>2, <2>4 DEF Impose, Leave, config
    <3>2. ghost'.ends = ghost.ends /\ ghost'.fresh = ghost.fresh
      BY <2>1, <3>1 DEF GhostType
    <3> QED BY <3>1, <3>2 DEF NeverAgreed
  <2> QED BY <2>2, <2>3, <2>4
<1> QED BY <1>1, <1>2

LEMMA ClientAgreed ==
  ASSUME NeverAgreed, Client
  PROVE  NeverAgreed'
<1>1. CASE pc' = "idle"
  BY <1>1 DEF NeverAgreed
<1>2. CASE pc' # "idle"
  <2>1. Solve
    BY <1>2
    DEF Client, AddConstraint, AddMatching, Add, SetTester, RestartTester,
        SetGuesserAndPrecision, Reset, RunTo, SolveNothing, Idle
  <2>2. pc' = "iterate" /\ ghost'.ends = << >>
    BY <1>2, <2>1 DEF Solve, Idle, NoGhost
  <2> QED BY <2>2 DEF NeverAgreed, MovedOn
<1> QED BY <1>1, <1>2

LEMMA NextAgreed ==
  ASSUME SolverInv, NeverAgreed, [Next]_vars
  PROVE  NeverAgreed'
<1>1. TypeOK
  BY DEF SolverInv, Bookkeeping
<1>2. CASE Client
  BY <1>2, ClientAgreed
<1>3. CASE BeginIteration \/ RunFirst \/ RunSecond \/ Impose
  BY <1>1, <1>3, SliderAgreed
<1>4. CASE TestAccuracy
  BY <1>4, TestAccuracyAgreed
<1>5. CASE EndSolve
  BY <1>5 DEF EndSolve, NeverAgreed
<1>6. CASE UNCHANGED vars
  BY <1>6 DEF NeverAgreed, vars, config, locals
<1> QED BY <1>2, <1>3, <1>4, <1>5, <1>6 DEF Next, SolveStep

\* Only the end of the loop gives up, after the last iteration.
LEMMA GivesUpStep ==
  ASSUME SolverInv, NeverAgreed, Next,
         pc = "iterate", pc' = "idle", result' = "noConvergence"
  PROVE  Len(ghost.ends) >= maxIt /\ (ghost.fresh => MovedOn(testers, ghost.ends))
<1>1. EndSolve
  BY DEF Next, SolveStep, BeginIteration, RunFirst, RunSecond, Impose, TestAccuracy, Client,
         AddConstraint, AddMatching, Add, SetTester, RestartTester, SetGuesserAndPrecision,
         Reset, RunTo, SolveNothing, Solve, Idle
<1>2. ~reached /\ ~(iteration < maxIt)
  BY <1>1 DEF EndSolve, MayIterate
<1>3. Len(ghost.ends) = iteration /\ iteration \in Int /\ maxIt \in Int
  BY SolverAssumption
  DEF SolverInv, Bookkeeping, IterationsCounted, TypeOK, ControlTypes
<1> QED BY <1>2, <1>3 DEF NeverAgreed

\* solve() does not give up early and throws no solution away: every iteration
\* it did had moved a model that a fresh tester tests.
THEOREM GivesUpUnconvergedTheorem == Spec => GivesUpUnconverged
<1>1. Init => NeverAgreed
  BY DEF Init, NeverAgreed
<1>2. SolverInv /\ NeverAgreed /\ [Next]_vars => NeverAgreed'
  BY NextAgreed
<1>3. SolverInv /\ NeverAgreed /\ [Next]_vars =>
        [pc = "iterate" /\ pc' = "idle" /\ result' = "noConvergence" =>
           /\ Len(ghost.ends) >= maxIt
           /\ ghost.fresh =>
                \A i \in 1..(Len(ghost.ends) - 1) :
                  \E m \in DOMAIN testers :
                    ~Agree(ghost.ends[i + 1][m], ghost.ends[i][m])]_vars
  BY GivesUpStep DEF MovedOn
<1> QED BY <1>1, <1>2, <1>3, SolverInvariant, PTL DEF Spec, GivesUpUnconverged
=============================================================================

------------------------- MODULE LowEnergyDataProofs -------------------------
(***************************************************************************)
(* Proofs about BetaFunction and LowEnergyData, for every grid of scales,  *)
(* every set of trajectories and every number of steps: a running stays    *)
(* between its ends and implements Running, and QedQcd::to() arrives at    *)
(* the scale of each input before it imposes it.                           *)
(***************************************************************************)
EXTENDS LowEnergyData, TLAPS

\* A running under way has not reached its end, and its next step, once
\* shortened, does not pass it.
OnTheWay ==
  /\ rk \in {"step", "try"} => x \in Between(from, to) /\ x # to
  /\ rk = "try" => Towards(h) \in Between(from, to) /\ nstp < MaxSteps
  /\ rk = "done" => scale = to

RkInv == RkTypes /\ BetweenScales /\ OnTheWay

\* One call of runto_safe() at a time, to the scale of what is to be done.
ToInv ==
  /\ input \in InputScales /\ target \in Scales
  /\ todo = "none" => rk = "idle"
  /\ rk # "idle" => to = ScaleOf(todo)
  /\ PoleMassAtItsScale

LEMMA ScalesAreNumbers == Scales \subseteq Nat
  BY RunningAssumption, SMT DEF Scales

LEMMA Tenth ==
  ASSUME NEW n \in Nat
  PROVE  n \div 10 \in Nat /\ (9 * n) \div 10 \in Nat
  BY SMT

LEMMA ShrunkIsNumber == ASSUME h \in Nat PROVE Shrunk \subseteq Nat
  BY Tenth, SMT DEF Shrunk

LEMMA SuggestedIsNumber == ASSUME h \in Nat PROVE Suggested \subseteq Nat
  BY Tenth, SMT DEF Suggested, AtLeast

\* A shortened step is not negative and ends between the ends of the running.
LEMMA ClampedStays ==
  ASSUME from \in Nat, to \in Nat, x \in Nat, h \in Nat,
         x \in Between(from, to), x # to, from # to
  PROVE  /\ Clamped \in Nat
         /\ (IF from < to THEN x + Clamped ELSE x - Clamped) \in Between(from, to)
  BY SMT DEF Clamped, Towards, Between

\* A step that is shorter stays where a longer one did.
LEMMA ShorterStays ==
  ASSUME NEW a \in Nat, NEW b \in Nat, NEW y \in Nat, NEW m \in Nat, NEW n \in Nat,
         n <= m, y \in Between(a, b),
         (IF a < b THEN y + m ELSE y - m) \in Between(a, b)
  PROVE  (IF a < b THEN y + n ELSE y - n) \in Between(a, b)
  <1>1. CASE a < b
    BY <1>1, SMT DEF Between
  <1>2. CASE ~(a < b)
    BY <1>2, SMT DEF Between
  <1>. QED
    BY <1>1, <1>2

LEMMA RkInitInv == ASSUME RkInit PROVE RkInv
  BY RunningAssumption, SMT
  DEF RkInit, RkInv, RkTypes, BetweenScales, OnTheWay, Between, Scales

LEMMA RunToKeepsInv ==
  ASSUME RkInv, NEW t \in Scales, RunTo(t)
  PROVE  RkInv'
  <1>. USE RunningAssumption DEF RkInv, RkTypes, BetweenScales, OnTheWay
  <1>0. scale \in Nat /\ t \in Nat
    BY ScalesAreNumbers
  <1>1. h' \in Nat
    <2>. DEFINE n == IF scale < t THEN t - scale ELSE scale - t
    <2>1. n \in Nat
      BY <1>0, SMT
    <2>2. n \div 10 \in Nat
      BY <2>1, Tenth
    <2>3. h' = AtLeast(n \div 10, 1)
      BY DEF RunTo, FirstStep
    <2>. QED
      BY <2>2, <2>3, SMT DEF AtLeast
  <1>2. nstp' \in 0..MaxSteps /\ from' = scale /\ to' = t /\ x' = scale /\ loops' = loops
    BY SMT DEF RunTo
  <1>3. CASE rk' = "done"
    BY <1>0, <1>1, <1>2, <1>3, SMT DEF RunTo, Between, point
  <1>4. CASE rk' = "thrown"
    BY <1>0, <1>1, <1>2, <1>4, SMT DEF RunTo, Between, point
  <1>5. CASE rk' = "step"
    BY <1>0, <1>1, <1>2, <1>5, SMT DEF RunTo, Between, point
  <1>. QED
    BY <1>3, <1>4, <1>5 DEF RunTo

\* The actions of the integrator, one by one.
LEMMA RkStepKeepsInv ==
  ASSUME RkInv, RkStep
  PROVE  RkInv'
  <1>. USE RunningAssumption DEF RkInv, RkTypes, BetweenScales, OnTheWay
  <1>0. from \in Nat /\ to \in Nat /\ x \in Nat /\ h \in Nat /\ scale \in Nat
    BY ScalesAreNumbers, SMT
  <1>1. CASE BeginStep
    <2>1. x \in Between(from, to) /\ x # to /\ from # to
      BY <1>1, <1>0, SMT DEF BeginStep, Between
    <2>2. /\ Clamped \in Nat
          /\ (IF from < to THEN x + Clamped ELSE x - Clamped) \in Between(from, to)
      BY <1>0, <2>1, ClampedStays
    <2>3. Towards(h)' \in Between(from, to)'
      BY <1>1, <2>2 DEF BeginStep, Towards, Between
    <2>. QED
      BY <1>1, <2>1, <2>2, <2>3, SMT DEF BeginStep, Between, Scales
  <1>2. CASE TooManySteps
    BY <1>2, SMT DEF TooManySteps, Throw, steps, Between
  <1>3. CASE NotFinite
    BY <1>3, <1>0, SMT DEF NotFinite, Stages, Throw, steps, Towards, Between, Scales
  <1>4. CASE Reject
    <2>1. h' \in Nat
      BY <1>4, <1>0, ShrunkIsNumber, SMT DEF Reject
    <2>2. scale' \in Between(from, to) /\ scale' \in Scales
      BY <1>4, <1>0, SMT DEF Reject, Stages, Towards, Between, Scales
    <2>3. CASE h' = 0
      BY <1>4, <2>1, <2>2, <2>3, SMT DEF Reject, Throw, Between
    <2>4. CASE h' > 0
      <3>1. h' <= h
        BY <1>4, <1>0, SMT DEF Reject, Shrunk
      <3>2. Towards(h)' \in Between(from, to)'
        <4>1. /\ rk = "try" /\ Towards(h) \in Between(from, to)
              /\ x \in Between(from, to)
              /\ from' = from /\ to' = to /\ x' = x
          BY <1>4 DEF Reject
        <4>2. (IF from < to THEN x + h' ELSE x - h') \in Between(from, to)
          BY <1>0, <2>1, <3>1, <4>1, ShorterStays DEF Towards
        <4>. QED
          BY <4>1, <4>2 DEF Towards, Between
      <3>. QED
        BY <1>4, <2>1, <2>2, <2>4, <3>2, SMT DEF Reject, Between
    <2>. QED
      BY <2>1, <2>3, <2>4, SMT
  <1>5. CASE Accept
    <2>1. h' \in Nat
      BY <1>5, <1>0, SuggestedIsNumber, SMT DEF Accept
    <2>2. /\ scale' \in Between(from, to) /\ scale' \in Scales
          /\ x' \in Between(from, to) /\ x' \in Scales /\ x' # to
      BY <1>5, <1>0, SMT DEF Accept, Stages, Towards, Passed, Between, Scales
    <2>3. CASE TooSmall(h')
      BY <1>5, <2>1, <2>2, <2>3, SMT DEF Accept, Throw, Between
    <2>4. CASE ~TooSmall(h')
      BY <1>5, <1>0, <2>1, <2>2, <2>4, SMT DEF Accept
    <2>. QED
      BY <2>3, <2>4
  <1>6. CASE Arrive
    BY <1>6, <1>0, SMT DEF Arrive, Towards, Passed, Between, Scales
  <1>. QED
    BY <1>1, <1>2, <1>3, <1>4, <1>5, <1>6 DEF RkStep

LEMMA LeaveKeepsInv ==
  ASSUME RkInv, Leave, traj' \in Trajectories
  PROVE  RkInv'
  BY RunningAssumption, ScalesAreNumbers, SMT
  DEF RkInv, RkTypes, BetweenScales, OnTheWay, Leave, Between, Scales

LEMMA RkNextKeepsInv ==
  ASSUME RkInv, [RkNext]_rkVars
  PROVE  RkInv'
  <1>1. CASE RkStep
    BY <1>1, RkStepKeepsInv
  <1>2. CASE ReturnAndSet
    BY <1>2, LeaveKeepsInv DEF ReturnAndSet
  <1>3. ASSUME NEW t \in Scales, RunTo(t) PROVE RkInv'
    BY <1>3, RunToKeepsInv
  <1>4. CASE UNCHANGED rkVars
    BY <1>4 DEF rkVars, point, steps, RkInv, RkTypes, BetweenScales, OnTheWay, Towards
  <1>. QED
    BY <1>1, <1>2, <1>3, <1>4 DEF RkNext
-----------------------------------------------------------------------------
(* QedQcd::to() uses run_to() as every client does.                        *)

LEMMA ScaleOfIsScale ==
  ASSUME input \in InputScales, target \in Scales
  PROVE  ScaleOf(todo) \in Scales
  <1>1. input \in [Parameters -> Scales]
    BY LowEnergyAssumption
  <1>. QED
    BY <1>1 DEF ScaleOf, Parameters

LEMMA ImposedIsTrajectory == \A p : Imposed(p) \subseteq Trajectories
  BY LowEnergyAssumption DEF Imposed

LEMMA ToStepsRun ==
  ASSUME RkInv, ToInv, [QNext]_allVars
  PROVE  [RkNext]_rkVars
  <1>1. CASE StartRunning
    BY <1>1, ScaleOfIsScale DEF StartRunning, ToInv, RkNext
  <1>2. CASE RunningOn
    BY <1>2 DEF RunningOn, RkNext
  <1>3. CASE RunningFailed \/ TestConvergence \/ EndTo
    <2>1. Return /\ traj \in Trajectories
      BY <1>3 DEF RunningFailed, TestConvergence, EndTo, RkInv, RkTypes
    <2>. QED
      BY <2>1 DEF Return, ReturnAndSet, RkNext
  <1>4. CASE SetAlpha \/ SetMb \/ SetMc \/ SetLight \/ SetAlphaAgain
    <2>1. Leave /\ \E p : traj' \in Imposed(p)
      BY <1>4 DEF SetAlpha, SetMb, SetMc, SetLight, SetAlphaAgain, Impose
    <2>. QED
      BY <2>1, ImposedIsTrajectory DEF ReturnAndSet, RkNext
  <1>5. ASSUME NEW t \in Scales, NEW max \in MaxIts, To(t, max) PROVE UNCHANGED rkVars
    BY <1>5 DEF To
  <1>6. CASE UNCHANGED allVars
    BY <1>6 DEF allVars
  <1>. QED
    BY <1>1, <1>2, <1>3, <1>4, <1>5, <1>6 DEF QNext, ToStep

LEMMA ToInvKept ==
  ASSUME RkInv, ToInv, [QNext]_allVars
  PROVE  ToInv'
  <1>. USE DEF ToInv, PoleMassAtItsScale
  <1>1. CASE StartRunning
    BY <1>1 DEF StartRunning, RunTo, ScaleOf, qedqcdVars, call
  <1>2. CASE RunningOn
    <2>1. UNCHANGED <<todo, input, target, result>> /\ to' = to /\ rk # "idle" /\ rk' # "idle"
      BY <1>2 DEF RunningOn, qedqcdVars, call, RkStep, BeginStep, TooManySteps, NotFinite,
                  Reject, Accept, Arrive, Throw, steps
    <2>. QED
      BY <2>1 DEF ScaleOf
  <1>3. CASE RunningFailed \/ EndTo
    BY <1>3 DEF RunningFailed, EndTo, End, Return, Leave
  <1>4. CASE TestConvergence
    BY <1>4 DEF TestConvergence, Return, Leave, Round
  <1>5. CASE SetAlpha \/ SetMc \/ SetLight \/ SetAlphaAgain
    BY <1>5 DEF SetAlpha, SetMc, SetLight, SetAlphaAgain, Impose, Leave, call
  <1>6. CASE SetMb
    <2>1. scale = input["mb"]
      BY <1>6 DEF SetMb, Arrived, RkInv, OnTheWay, ScaleOf, Parameters
    <2>. QED
      BY <1>6, <2>1 DEF SetMb, Leave, call
  <1>7. ASSUME NEW t \in Scales, NEW max \in MaxIts, To(t, max) PROVE ToInv'
    BY <1>7 DEF To, rkVars, Round
  <1>8. CASE UNCHANGED allVars
    BY <1>8 DEF allVars, rkVars, qedqcdVars, call, steps, ScaleOf
  <1>. QED
    BY <1>1, <1>2, <1>3, <1>4, <1>5, <1>6, <1>7, <1>8 DEF QNext, ToStep

LEMMA QInitInv == ASSUME QInit PROVE RkInv /\ ToInv
  <1>1. RkInv
    BY RkInitInv DEF QInit
  <1>2. target \in Scales
    BY RunningAssumption, SMT DEF QInit, Scales
  <1>. QED
    BY <1>1, <1>2 DEF QInit, RkInit, ToInv, PoleMassAtItsScale

\* The invariant of to() and of the runnings it asks for.
THEOREM ToInvariant == QSpec => [](RkInv /\ ToInv)
  <1>1. QInit => RkInv /\ ToInv
    BY QInitInv
  <1>2. RkInv /\ ToInv /\ [QNext]_allVars => (RkInv /\ ToInv)'
    <2>. SUFFICES ASSUME RkInv, ToInv, [QNext]_allVars PROVE RkInv' /\ ToInv'
      OBVIOUS
    <2>1. RkInv'
      BY ToStepsRun, RkNextKeepsInv
    <2>2. ToInv'
      BY ToInvKept
    <2>. QED
      BY <2>1, <2>2
  <1>. QED
    BY <1>1, <1>2, PTL DEF QSpec

\* Beta_function::run_to() under QedQcd::to(): the types hold.
THEOREM RunningTypes == QSpec => []RkTypes
  <1>1. RkInv /\ ToInv => RkTypes
    BY DEF RkInv
  <1>. QED
    BY <1>1, ToInvariant, PTL

\* Whatever the step control does, no evaluation of the beta functions leaves
\* the range of the running, and one that throws stays within it.
THEOREM RunningBetweenScales == QSpec => []BetweenScales
  <1>1. RkInv /\ ToInv => BetweenScales
    BY DEF RkInv
  <1>. QED
    BY <1>1, ToInvariant, PTL

\* extractPoleMb() never finds the data at another scale than mb(mb).
THEOREM PoleMassIsAtItsScale == QSpec => []PoleMassAtItsScale
  <1>1. RkInv /\ ToInv => PoleMassAtItsScale
    BY DEF ToInv
  <1>. QED
    BY <1>1, ToInvariant, PTL
-----------------------------------------------------------------------------
(* The refinement.                                                         *)

LEMMA RunningBegins == ASSUME RkInit PROVE Abstract!Init
  BY DEF RkInit, Abstract!Init

\* Every step of a running is a stutter, the arrival or the failure.
LEMMA RunningSteps ==
  ASSUME RkInv, RkInv', [RkNext]_rkVars
  PROVE  [Abstract!Next]_(Abstract!vars)
  <1>. USE DEF Abstract!vars
  <1>0. to \in Scales /\ to' \in Scales /\ from \in Scales /\ Strays \subseteq Trajectories
    BY RunningAssumption DEF RkInv, RkTypes
  <1>1. CASE BeginStep
    BY <1>1 DEF BeginStep
  <1>2. ASSUME rk \in {"step", "try"}, rk' = "thrown", Throw, from' = from, to' = to
        PROVE  Abstract!Next
    <2>1. scale' \in Abstract!Between(from, to)
      BY <1>2 DEF RkInv, BetweenScales, Between, Abstract!Between
    <2>2. Abstract!Fail(to)
      BY <1>0, <1>2, <2>1 DEF Throw, Abstract!Fail
    <2>. QED
      BY <1>0, <2>2 DEF Abstract!Next
  <1>3. CASE TooManySteps \/ NotFinite
    BY <1>2, <1>3 DEF TooManySteps, NotFinite, Throw, steps
  <1>4. CASE Reject
    BY <1>2, <1>4 DEF Reject, Throw
  <1>5. CASE Accept
    BY <1>2, <1>5 DEF Accept, Throw
  <1>6. CASE Arrive
    <2>1. x' = to
      BY <1>6, ScalesAreNumbers, <1>0, SMT
      DEF Arrive, Passed, Towards, Between, RkInv, RkTypes, OnTheWay
    <2>2. Abstract!Reach(to)
      BY <1>6, <2>1 DEF Arrive, Abstract!Reach
    <2>. QED
      BY <1>0, <2>2 DEF Abstract!Next
  <1>7. CASE ReturnAndSet
    <2>1. Abstract!Assign
      BY <1>7 DEF ReturnAndSet, Leave, Abstract!Assign
    <2>. QED
      BY <2>1 DEF Abstract!Next
  <1>8. ASSUME NEW t \in Scales, RunTo(t) PROVE [Abstract!Next]_(Abstract!vars)
    <2>1. CASE rk' = "done"
      <3>1. Abstract!Reach(t)
        BY <1>8, <2>1 DEF RunTo, Abstract!Reach
      <3>. QED
        BY <3>1 DEF Abstract!Next
    <2>2. CASE rk' # "done"
      BY <1>8, <2>2 DEF RunTo, point
    <2>. QED
      BY <2>1, <2>2
  <1>9. CASE UNCHANGED rkVars
    BY <1>9 DEF rkVars, point, steps
  <1>. QED
    BY <1>1, <1>3, <1>4, <1>5, <1>6, <1>7, <1>8, <1>9 DEF RkNext, RkStep

\* Under QedQcd::to() run_to() implements Running: a return means that the
\* parameters were moved along the trajectory to exactly the scale asked for.
THEOREM RunToImplementsRunning == QSpec => ImplementsRunning
  <1>1. QInit => Abstract!Init
    BY RunningBegins DEF QInit
  <1>2. (RkInv /\ ToInv) /\ (RkInv /\ ToInv)' /\ [QNext]_allVars
        => [Abstract!Next]_(Abstract!vars)
    BY ToStepsRun, RunningSteps
  <1>. QED
    BY <1>1, <1>2, ToInvariant, PTL DEF QSpec, ImplementsRunning, Abstract!Spec
-----------------------------------------------------------------------------
(* Two rounds that end with the same parameters have met every input.      *)

Masses == Parameters \ {"alpha"}

\* What the masses, moved by the couplings, can move the couplings by.
Spill(o, m) == (o[m] + o["alpha"] \div 2) \div 2

\* How far a round that began with the parameters o can have taken them.
RoundFrom(o) ==
  /\ todo = "alpha" => traj = o
  /\ todo = "mb" =>
       /\ traj["alpha"] = 0
       /\ \A m \in Masses : traj[m] <= o[m] + o["alpha"] \div 2
  /\ todo = "mc" =>
       /\ traj["alpha"] <= Spill(o, "mb") /\ traj["mb"] = 0
       /\ \A m \in {"mc", "light"} : traj[m] <= o[m] + o["alpha"] \div 2
  /\ todo = "light" =>
       /\ traj["alpha"] <= Spill(o, "mb") + Spill(o, "mc")
       /\ traj["mb"] = 0 /\ traj["mc"] = 0
       /\ traj["light"] <= o["light"] + o["alpha"] \div 2
  /\ todo = "target" =>
       /\ traj["alpha"] <= Spill(o, "mb") + Spill(o, "mc") + Spill(o, "light")
       /\ \A m \in Masses : traj[m] = 0

AllMet == \A p \in Parameters : traj[p] = 0

\* What the round under way has done, unless its running has broken down; the
\* inputs stay met while the couplings are imposed again.
RoundState ==
  /\ rk = "done" => at = to
  /\ todo # "none" => old[2] \in Distances
  /\ todo # "none" /\ rk # "thrown" => RoundFrom(old[2])
  /\ todo \in {"alphaAgain", "targetAgain"} /\ rk # "thrown" /\ converged => AllMet
  /\ ConvergedMeetsInputs

LEMMA HalfType == ASSUME NEW n \in Nat PROVE n \div 2 \in Nat
  BY SMT

LEMMA HalfGrows ==
  ASSUME NEW m \in Nat, NEW n \in Nat, m <= n
  PROVE  m \div 2 <= n \div 2
  BY SMT

\* Three masses moved by the couplings move them back by less.
LEMMA SpillsLess ==
  ASSUME NEW a \in Nat, a <= (a \div 2) \div 2 + (a \div 2) \div 2 + (a \div 2) \div 2
  PROVE  a = 0
  BY SMT

LEMMA DistancesType ==
  ASSUME NEW d \in Distances
  PROVE  \A p \in Parameters : d[p] \in Nat
  BY LowEnergyAssumption, SMT DEF Distances

\* What imposing the input of p does to the distances.
LEMMA ImposedDistances ==
  ASSUME traj \in Distances, NEW p \in Parameters, traj' \in Imposed(p)
  PROVE  /\ traj' \in Distances /\ traj'[p] = 0
         /\ \A o \in Parameters \ {p} :
              IF o \in Moves(p) THEN traj'[o] <= traj[o] + traj[p] \div 2
              ELSE traj'[o] = traj[o]
  <1>1. traj' \in Distances /\ traj'[p] = 0
    BY DEF Imposed
  <1>2. ASSUME NEW o \in Parameters \ {p}, o \in Moves(p)
        PROVE  traj'[o] <= traj[o] + traj[p] \div 2
    <2>1. traj'[o] - traj[o] \in -(traj[p] \div 2)..(traj[p] \div 2)
      BY <1>2 DEF Imposed
    <2>2. traj'[o] \in Nat /\ traj[o] \in Nat /\ traj[p] \div 2 \in Nat
      BY <1>1, DistancesType, HalfType
    <2>. QED
      BY <2>1, <2>2, SMT
  <1>3. ASSUME NEW o \in Parameters \ {p}, o \notin Moves(p)
        PROVE  traj'[o] = traj[o]
    BY <1>3 DEF Imposed
  <1>. QED
    BY <1>1, <1>2, <1>3

\* An input that is met already moves nothing.
LEMMA ImposedAgain ==
  ASSUME AllMet, traj \in Distances, NEW p \in Parameters, traj' \in Imposed(p)
  PROVE  AllMet'
  <1>1. traj' \in Distances /\ traj'[p] = 0
        /\ \A o \in Parameters \ {p} :
             IF o \in Moves(p) THEN traj'[o] <= traj[o] + traj[p] \div 2
             ELSE traj'[o] = traj[o]
    BY ImposedDistances
  <1>2. \A o \in Parameters : traj[o] = 0
    BY DEF AllMet
  <1>3. ASSUME NEW o \in Parameters PROVE traj'[o] = 0
    <2>1. traj'[o] \in Nat
      BY <1>1, DistancesType
    <2>. QED
      BY <1>1, <1>2, <2>1, SMT
  <1>. QED
    BY <1>3 DEF AllMet

\* Setting the next parameter of a round.
LEMMA RoundGoesOn ==
  ASSUME RkInv, RoundState, SetAlpha \/ SetMc \/ SetLight \/ (SetMb /\ todo' = "mc")
  PROVE  RoundFrom(old[2])'
  <1>. DEFINE o == old[2]
              a == o["alpha"]
  <1>0. todo # "none" /\ rk = "done" /\ UNCHANGED old
    BY DEF SetAlpha, SetMb, SetMc, SetLight, Arrived, Impose, End, call
  <1>1. traj \in Distances /\ o \in Distances
    BY <1>0, LowEnergyAssumption DEF RkInv, RkTypes, RoundState
  <1>2. RoundFrom(o) /\ o' = o
    BY <1>0 DEF RoundState
  <1>3. /\ a \in Nat /\ a \div 2 \in Nat
        /\ o["mb"] \in Nat /\ o["mc"] \in Nat /\ o["light"] \in Nat
    BY <1>1, DistancesType, HalfType DEF Parameters
  <1>4. /\ traj["alpha"] \in Nat /\ traj["mb"] \in Nat
        /\ traj["mc"] \in Nat /\ traj["light"] \in Nat
    BY <1>1, DistancesType DEF Parameters
  <1>5. ASSUME NEW m \in Masses, traj[m] <= o[m] + a \div 2
        PROVE  traj[m] \div 2 <= Spill(o, m) /\ traj[m] \div 2 \in Nat /\ Spill(o, m) \in Nat
    <2>1. traj[m] \in Nat /\ o[m] + a \div 2 \in Nat
      BY <1>1, <1>3, DistancesType DEF Masses
    <2>. QED
      BY <1>5, <2>1, HalfGrows, HalfType DEF Spill
  <1>. HIDE DEF o, a
  <1>6. CASE SetAlpha
    <2>1. todo = "alpha" /\ todo' = "mb" /\ traj' \in Imposed("alpha")
      BY <1>6 DEF SetAlpha, Arrived, Impose
    <2>2. /\ traj'["alpha"] = 0
          /\ \A m \in Masses : traj'[m] <= traj[m] + traj["alpha"] \div 2
      BY <1>1, <2>1, ImposedDistances DEF Moves, Masses, Parameters
    <2>3. traj = o
      BY <1>2, <2>1 DEF RoundFrom
    <2>. QED
      BY <1>2, <2>1, <2>2, <2>3 DEF RoundFrom, o, a
  <1>7. CASE SetMb /\ todo' = "mc"
    <2>1. todo = "mb" /\ todo' = "mc" /\ traj' \in Imposed("mb")
      BY <1>7 DEF SetMb, Arrived
    <2>2. /\ traj'["mb"] = 0 /\ traj'["alpha"] <= traj["alpha"] + traj["mb"] \div 2
          /\ traj'["mc"] = traj["mc"] /\ traj'["light"] = traj["light"]
          /\ traj'["alpha"] \in Nat
      BY <1>1, <2>1, ImposedDistances, DistancesType DEF Moves, Parameters
    <2>3. traj["alpha"] = 0 /\ \A m \in Masses : traj[m] <= o[m] + a \div 2
      BY <1>2, <2>1 DEF RoundFrom, a
    <2>4. traj'["alpha"] <= Spill(o, "mb")
      BY <1>4, <1>5, <2>2, <2>3 DEF Masses, Parameters
    <2>. QED
      BY <1>2, <2>1, <2>2, <2>3, <2>4 DEF RoundFrom, o, a, Masses, Parameters
  <1>8. CASE SetMc
    <2>1. todo = "mc" /\ todo' = "light" /\ traj' \in Imposed("mc")
      BY <1>8 DEF SetMc, Arrived, Impose
    <2>2. /\ traj'["mc"] = 0 /\ traj'["alpha"] <= traj["alpha"] + traj["mc"] \div 2
          /\ traj'["mb"] = traj["mb"] /\ traj'["light"] = traj["light"]
          /\ traj'["alpha"] \in Nat
      BY <1>1, <2>1, ImposedDistances, DistancesType DEF Moves, Parameters
    <2>3. /\ traj["alpha"] <= Spill(o, "mb") /\ traj["mb"] = 0
          /\ \A m \in {"mc", "light"} : traj[m] <= o[m] + a \div 2
      BY <1>2, <2>1 DEF RoundFrom, a
    <2>4. traj["mc"] \div 2 <= Spill(o, "mc") /\ traj["mc"] \div 2 \in Nat
          /\ Spill(o, "mc") \in Nat
      BY <1>5, <2>3 DEF Masses, Parameters
    <2>5. Spill(o, "mb") \in Nat
      BY <1>3, HalfType DEF Spill, a
    <2>6. traj'["alpha"] <= Spill(o, "mb") + Spill(o, "mc")
      BY <1>4, <2>2, <2>3, <2>4, <2>5
    <2>. QED
      BY <1>2, <2>1, <2>2, <2>3, <2>6 DEF RoundFrom, o, a
  <1>9. CASE SetLight
    <2>1. todo = "light" /\ todo' = "target" /\ traj' \in Imposed("light")
      BY <1>9 DEF SetLight, Arrived, Impose
    <2>2. /\ traj'["light"] = 0 /\ traj'["alpha"] <= traj["alpha"] + traj["light"] \div 2
          /\ traj'["mb"] = traj["mb"] /\ traj'["mc"] = traj["mc"]
          /\ traj'["alpha"] \in Nat
      BY <1>1, <2>1, ImposedDistances, DistancesType DEF Moves, Parameters
    <2>3. /\ traj["alpha"] <= Spill(o, "mb") + Spill(o, "mc")
          /\ traj["mb"] = 0 /\ traj["mc"] = 0
          /\ traj["light"] <= o["light"] + a \div 2
      BY <1>2, <2>1 DEF RoundFrom, a
    <2>4. traj["light"] \div 2 <= Spill(o, "light") /\ traj["light"] \div 2 \in Nat
          /\ Spill(o, "light") \in Nat
      BY <1>5, <2>3 DEF Masses, Parameters
    <2>5. Spill(o, "mb") \in Nat /\ Spill(o, "mc") \in Nat
      BY <1>3, HalfType DEF Spill, a
    <2>6. traj'["alpha"] <= Spill(o, "mb") + Spill(o, "mc") + Spill(o, "light")
      BY <1>4, <2>2, <2>3, <2>4, <2>5
    <2>7. \A m \in Masses : traj'[m] = 0
      BY <2>2, <2>3 DEF Masses, Parameters
    <2>. QED
      BY <1>2, <2>1, <2>6, <2>7 DEF RoundFrom, o
  <1>. QED
    BY <1>6, <1>7, <1>8, <1>9

\* A round that ends where it began had every input met.
LEMMA SameMeansMet ==
  ASSUME RkInv, RoundFrom(old[2]), todo = "target", old[2] = traj
  PROVE  AllMet
  <1>1. traj \in Distances
    BY LowEnergyAssumption DEF RkInv, RkTypes
  <1>2. traj["mb"] = 0 /\ traj["mc"] = 0 /\ traj["light"] = 0 /\ traj["alpha"] \in Nat
    BY <1>1, DistancesType DEF RoundFrom, Masses, Parameters
  <1>3. traj["alpha"] <= Spill(traj, "mb") + Spill(traj, "mc") + Spill(traj, "light")
    BY DEF RoundFrom
  <1>4. \A m \in {"mb", "mc", "light"} : Spill(traj, m) = (traj["alpha"] \div 2) \div 2
    BY <1>2, HalfType DEF Spill
  <1>5. traj["alpha"] = 0
    BY <1>2, <1>3, <1>4, SpillsLess
  <1>. QED
    BY <1>2, <1>5 DEF AllMet, Parameters

LEMMA RoundStateKept ==
  ASSUME RkInv, ToInv, RoundState, [QNext]_allVars
  PROVE  RoundState'
  <1>. USE DEF ConvergedMeetsInputs
  <1>0. traj \in Distances
    BY LowEnergyAssumption DEF RkInv, RkTypes
  <1>1. CASE StartRunning
    <2>1. /\ UNCHANGED <<todo, old, converged, result, maxIt, target, input>> /\ todo # "none"
          /\ (rk' = "done" => at' = to') /\ UNCHANGED traj /\ rk = "idle"
      BY <1>1 DEF StartRunning, RunTo, qedqcdVars, call, point
    <2>. QED
      BY <2>1 DEF RoundState, RoundFrom, AllMet
  <1>2. CASE RunningOn
    <2>1. UNCHANGED <<todo, old, converged, result, maxIt, target>> /\ todo # "none"
      BY <1>2 DEF RunningOn, qedqcdVars, call, ToInv, RkStep, BeginStep, TooManySteps, NotFinite,
                  Reject, Accept, Arrive
    <2>2. rk' = "thrown" \/ (UNCHANGED traj /\ rk # "thrown")
      BY <1>2 DEF RunningOn, RkStep, BeginStep, TooManySteps, NotFinite, Reject, Accept, Arrive,
                  Throw
    <2>3. rk' = "done" => at' = to'
      <3>1. CASE Arrive
        BY <3>1, ScalesAreNumbers, RunningAssumption, SMT
        DEF Arrive, Passed, Towards, Between, RkInv, RkTypes, OnTheWay
      <3>2. CASE ~Arrive
        BY <1>2, <3>2 DEF RunningOn, RkStep, BeginStep, TooManySteps, NotFinite, Reject, Accept,
                          Throw
      <3>. QED
        BY <3>1, <3>2
    <2>. QED
      BY <2>1, <2>2, <2>3 DEF RoundState, RoundFrom, AllMet
  <1>3. CASE RunningFailed
    BY <1>3 DEF RunningFailed, End, Return, Leave, RoundState
  <1>4. CASE SetAlpha \/ SetMc \/ SetLight \/ (SetMb /\ todo' = "mc")
    <2>1. RoundFrom(old[2])'
      BY <1>4, RoundGoesOn
    <2>2. UNCHANGED old /\ rk' = "idle" /\ todo # "none" /\ todo' \in {"mb", "mc", "light", "target"}
      BY <1>4 DEF SetAlpha, SetMb, SetMc, SetLight, Arrived, Impose, End, Leave, call
    <2>. QED
      BY <2>1, <2>2 DEF RoundState
  <1>5. CASE SetMb /\ todo' # "mc"
    BY <1>5 DEF SetMb, End, Leave, RoundState
  <1>6. CASE TestConvergence
    <2>1. /\ todo = "target" /\ rk = "done" /\ rk' = "idle" /\ UNCHANGED traj
          /\ converged' = Same /\ old'[2] = traj /\ todo' = Round(Same, it + 1, maxIt)
      BY <1>6 DEF TestConvergence, Arrived, Return, Leave, Now
    <2>2. Same => AllMet
      BY <2>1, SameMeansMet DEF Same, RoundState
    <2>3. todo' \in {"alpha", "alphaAgain"}
      BY <2>1 DEF Round
    <2>4. converged' => AllMet'
      BY <2>1, <2>2, Zenon DEF AllMet
    <2>. QED
      BY <1>0, <2>1, <2>3, <2>4 DEF RoundState, RoundFrom
  <1>7. CASE SetAlphaAgain
    <2>1. /\ todo = "alphaAgain" /\ todo' = "targetAgain" /\ rk = "done" /\ rk' = "idle"
          /\ traj' \in Imposed("alpha") /\ UNCHANGED <<converged, old>>
      BY <1>7 DEF SetAlphaAgain, Arrived, Impose, Leave, call
    <2>2. AllMet => AllMet'
      BY <1>0, <2>1, ImposedAgain DEF Parameters
    <2>. QED
      BY <2>1, <2>2 DEF RoundState, RoundFrom
  <1>8. CASE EndTo
    <2>1. /\ todo = "targetAgain" /\ todo' = "none" /\ rk = "done" /\ rk' = "idle"
          /\ UNCHANGED <<scale, at, traj, target, maxIt>>
          /\ result' = IF ~converged /\ maxIt > 0 THEN "noConvergence" ELSE "returned"
      BY <1>8 DEF EndTo, Arrived, Return, Leave, End
    <2>2. scale = target /\ at = target
      <3>1. scale = to /\ at = to /\ to = ScaleOf(todo)
        BY <2>1 DEF RoundState, RkInv, OnTheWay, ToInv
      <3>2. ScaleOf(todo) = target
        BY <2>1 DEF ScaleOf, Parameters
      <3>. QED
        BY <3>1, <3>2
    <2>3. converged => AllMet
      BY <2>1 DEF RoundState
    <2>4. ConvergedMeetsInputs'
      BY <2>1, <2>2, <2>3 DEF AllMet
    <2>. QED
      BY <2>1, <2>4 DEF RoundState
  <1>9. ASSUME NEW t \in Scales, NEW max \in MaxIts, To(t, max) PROVE RoundState'
    <2>1. /\ rk = "idle" /\ UNCHANGED <<rk, traj>> /\ old'[2] = traj /\ converged' = FALSE
          /\ todo' \in {"alpha", "alphaAgain"}
      BY <1>9 DEF To, rkVars, point, Now, Round
    <2>. QED
      BY <1>0, <2>1 DEF RoundState, RoundFrom
  <1>10. CASE UNCHANGED allVars
    BY <1>10 DEF allVars, rkVars, point, steps, qedqcdVars, call, RoundState, RoundFrom, AllMet
  <1>. QED
    BY <1>1, <1>2, <1>3, <1>4, <1>5, <1>6, <1>7, <1>8, <1>9, <1>10 DEF QNext, ToStep

\* A call of to() that made iterations and returned has met every input at its
\* scale and stands at the scale asked for: for every grid, every precision of
\* the numerics, any start and any number of calls.
THEOREM ConvergedMeetsAllInputs == QSpec => []ConvergedMeetsInputs
  <1>1. QInit => RoundState
    BY DEF QInit, RkInit, RoundState, ConvergedMeetsInputs
  <1>2. (RkInv /\ ToInv) /\ RoundState /\ [QNext]_allVars => RoundState'
    BY RoundStateKept
  <1>3. RoundState => ConvergedMeetsInputs
    BY DEF RoundState
  <1>. QED
    BY <1>1, <1>2, <1>3, ToInvariant, PTL DEF QSpec
=============================================================================

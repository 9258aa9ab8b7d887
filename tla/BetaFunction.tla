---------------------------- MODULE BetaFunction ----------------------------
(***************************************************************************)
(* Beta_function::run_to(): the renormalisation group equations are solved *)
(* by Runge-Kutta steps of adaptive size (Basic_rk_integrator, rk.hpp).    *)
(* Every evaluation of the beta functions writes the scale and the trial   *)
(* parameters of the step into the model itself, so that a running that    *)
(* throws leaves the model where the last evaluation was.                  *)
(*                                                                         *)
(* Scales are points of a logarithmic grid, 0 is the scale zero, whose     *)
(* logarithm does not exist.  A step below the resolution of the grid is   *)
(* one of size 0: x + h == x.  The size h of a step is positive, its sign  *)
(* is that of to - from.                                                   *)
(***************************************************************************)
EXTENDS Integers

CONSTANTS
  MaxScale,      \* the highest point of the grid
  Trajectories,  \* the solutions of the equations
  Strays,        \* bound: those a failed running may leave the model on
  Loops,         \* values of get_loops()
  MaxSteps,      \* max_steps of the integrator
  MinStep        \* |hmin|, the smallest step

ASSUME RunningAssumption ==
  /\ MaxScale \in Nat /\ MaxSteps \in Nat /\ MinStep \in Nat
  /\ Loops \subseteq Nat /\ Strays \subseteq Trajectories

VARIABLES
  loops,
  scale,   \* get_scale()
  at,      \* outside run(): the scale the parameters belong to
  traj,    \* outside run(): the trajectory they are on
  rk,      \* "idle", "step" (loop head), "try" (stepper), "done" or "thrown"
  from,    \* the ends of the running
  to,
  x,       \* where the integration is
  h,       \* the size of the next step
  nstp

point == <<scale, at, traj>>
steps == <<from, to, x, h, nstp>>
rkVars == <<loops, point, rk, steps>>

Scales == 0..MaxScale
Between(a, b) == (a..b) \cup (b..a)
AtLeast(n, m) == IF n > m THEN n ELSE m

RkInit ==
  /\ loops \in Loops
  /\ scale \in Scales /\ at = scale /\ traj \in Trajectories
  /\ rk = "idle"
  /\ from = scale /\ to = scale /\ x = scale /\ h = 0 /\ nstp = 0

\* An exception leaves run(): the parameters in the model are those of the
\* last evaluation, on whatever trajectory.
Throw ==
  /\ rk' = "thrown"
  /\ at' = scale'
  /\ traj' \in Strays

\* guess = (start - end) * 0.1
FirstStep(a, b) == AtLeast((IF a < b THEN b - a ELSE a - b) \div 10, 1)

\* run(): without loops nothing runs; scale 0 is refused; and equal scales
\* need no integration.
RunTo(t) ==
  /\ rk = "idle"
  /\ from' = scale /\ to' = t /\ x' = scale /\ nstp' = 0
  /\ h' = FirstStep(scale, t)
  /\ \/ /\ loops = 0 \/ (t = scale /\ scale # 0)
        /\ scale' = t /\ at' = t /\ rk' = "done"
        /\ UNCHANGED traj
     \/ /\ loops > 0 /\ 0 \in {scale, t}
        /\ rk' = "thrown"
        /\ UNCHANGED point
     \/ /\ loops > 0 /\ 0 \notin {scale, t} /\ t # scale
        /\ rk' = "step"
        /\ UNCHANGED point
  /\ UNCHANGED loops

Towards(n) == IF from < to THEN x + n ELSE x - n
Passed(z) == IF from < to THEN z >= to ELSE z <= to

\* A bug: the last step is not shortened.
Unclamped == h

\* if ((x + h - to) * (x + h - from) > 0) h = to - x;
Clamped ==
  IF Towards(h) \in Between(from, to) THEN h
  ELSE IF from < to THEN to - x ELSE x - to

\* The loop of integrateOdes(): the beta functions at x set the model there.
BeginStep ==
  /\ rk = "step" /\ nstp < MaxSteps
  /\ scale' = x
  /\ h' = Clamped
  /\ rk' = "try"
  /\ UNCHANGED <<loops, at, traj, from, to, x, nstp>>

TooManySteps ==
  /\ rk = "step" /\ nstp = MaxSteps
  /\ UNCHANGED <<loops, scale, steps>>
  /\ Throw

\* The other evaluations of a step: the model is left at one of them.
Stages == scale' \in Between(x, Towards(h))

NotFinite ==
  /\ rk = "try"
  /\ Stages
  /\ Throw
  /\ UNCHANGED <<loops, steps>>

\* A bug: a step that failed is tried again as it was.
Unshrunk == {h}

\* Too large an error: the step shrinks to a tenth at least, to 0.9 at most.
Shrunk == (h \div 10)..((9 * h) \div 10)

Reject ==
  /\ rk = "try"
  /\ Stages
  /\ h' \in Shrunk
  /\ \/ h' > 0 /\ UNCHANGED <<at, traj, rk>>
     \/ h' = 0 /\ Throw
  /\ UNCHANGED <<loops, from, to, x, nstp>>

\* The stepper suggests a next step between 0.9 and 5 times the last one.
Suggested == AtLeast((9 * h) \div 10, 1)..(5 * h)

\* hmin = (start - end) * ...: negative for a running to larger scales.
TooSmall(n) == n <= IF from > to THEN MinStep ELSE -MinStep

Accept ==
  /\ rk = "try" /\ ~Passed(Towards(h))
  /\ x' = Towards(h)
  /\ Stages
  /\ h' \in Suggested
  /\ \/ ~TooSmall(h') /\ rk' = "step" /\ nstp' = nstp + 1 /\ UNCHANGED <<at, traj>>
     \/ TooSmall(h') /\ Throw /\ UNCHANGED nstp
  /\ UNCHANGED <<loops, from, to>>

\* A bug: the model keeps the scale of the last evaluation.
ArriveAnywhere ==
  /\ rk = "try" /\ Passed(Towards(h))
  /\ x' = Towards(h)
  /\ Stages /\ at' = x' /\ rk' = "done"
  /\ UNCHANGED <<loops, traj, from, to, h, nstp>>

\* The last step is accepted: set(y) and set_scale(x2).
Arrive ==
  /\ rk = "try" /\ Passed(Towards(h))
  /\ x' = Towards(h)
  /\ scale' = to /\ at' = x' /\ rk' = "done"
  /\ UNCHANGED <<loops, traj, from, to, h, nstp>>

\* run() is left, and its local variables are gone.
Leave ==
  /\ rk \in {"done", "thrown"} /\ rk' = "idle"
  /\ from' = scale /\ to' = scale /\ x' = scale /\ h' = 0 /\ nstp' = 0
  /\ UNCHANGED <<loops, scale, at>>

Return == Leave /\ UNCHANGED traj

\* Then the caller may set parameters.
ReturnAndSet == Leave /\ traj' \in Trajectories

RkStep ==
  \/ BeginStep \/ TooManySteps
  \/ NotFinite \/ Reject \/ Accept \/ Arrive

RkNext == RkStep \/ ReturnAndSet \/ \E t \in Scales : RunTo(t)

RkSpec == RkInit /\ [][RkNext]_rkVars
-----------------------------------------------------------------------------
(* Properties.                                                             *)

\* Types.
RkTypes ==
  /\ loops \in Loops
  /\ scale \in Scales /\ at \in Scales /\ traj \in Trajectories
  /\ rk \in {"idle", "step", "try", "done", "thrown"}
  /\ from \in Scales /\ to \in Scales /\ x \in Scales
  /\ h \in Nat /\ nstp \in 0..MaxSteps

\* The beta functions are never evaluated outside the range of the running,
\* and one that throws leaves the model within it.
BetweenScales == scale \in Between(from, to)

\* run_to() implements Running: a running that returns has moved the model to
\* exactly the scale asked for and its parameters along the trajectory.
Abstract == INSTANCE Running
  WITH scale <- IF rk \in {"step", "try"} THEN from ELSE scale

ImplementsRunning == Abstract!Spec
=============================================================================

------------------------------ MODULE Running ------------------------------
(***************************************************************************)
(* What run_to() of a model promises to its callers, without steps: the    *)
(* parameters are moved along their RG trajectory and belong to exactly    *)
(* the scale that was asked for, or an exception is thrown; then the model *)
(* stands somewhere on the way, on whatever trajectory passes there.  The  *)
(* callers' own assignments may move the model to another trajectory.      *)
(***************************************************************************)
EXTENDS Integers

CONSTANTS Scales, Trajectories

VARIABLES
  scale,  \* get_scale()
  at,     \* the scale the parameters belong to
  traj    \* the trajectory they are on

vars == <<scale, at, traj>>

Between(a, b) == (a..b) \cup (b..a)

Init == scale \in Scales /\ at = scale /\ traj \in Trajectories

Reach(t) == scale' = t /\ at' = t /\ UNCHANGED traj

Fail(t) ==
  /\ scale' \in Between(scale, t) /\ at' = scale'
  /\ traj' \in Trajectories

Assign == traj' \in Trajectories /\ UNCHANGED <<scale, at>>

Next == Assign \/ \E t \in Scales : Reach(t) \/ Fail(t)

Spec == Init /\ [][Next]_vars
=============================================================================

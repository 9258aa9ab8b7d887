---------------------------- MODULE MCEwsbSolver ----------------------------
(***************************************************************************)
(* Instances of EwsbSolver for TLC: three points, two of them within the   *)
(* precision goal of each other.                                           *)
(***************************************************************************)
EXTENDS EwsbSolver

ThreePoints == {0, 1, 3}
ZeroOrOne == {0, 1}
Farthest == {3}
DefaultChain == {<<"relative", "root", "root">>}
EveryKind == DefaultChain \cup {<<"tadpole", "absolute">>}
TreeOrLoops == {0, 1}
NoneOrTwo == {0, 2}
==============================================================================

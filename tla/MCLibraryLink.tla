--------------------------- MODULE MCLibraryLink ---------------------------
(***************************************************************************)
(* The instance of LibraryLink for TLC: two handles, two points, all       *)
(* solvers in turn, the second alone, or one that is not enabled.          *)
(***************************************************************************)
EXTENDS LibraryLink

CONSTANTS p, q

TwoPoints ==
  [point : {p, q}, solver : {0}, force : BOOLEAN] \cup
  [point : {p}, solver : {2, 3}, force : {FALSE}]
TwoSolvers == <<1, 2>>
SomeProblems ==
  {{}, {"tachyon"}, {"noEwsbTreeLevel"}, {"noConvergence"}}
=============================================================================

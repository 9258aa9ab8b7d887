---------------------------- MODULE MCThreadPool ----------------------------
(***************************************************************************)
(* Small pools for TLC.  Values: the tasks a and b are packaged, b and d   *)
(* throw, so that every combination of the two kinds and ends occurs.      *)
(***************************************************************************)
EXTENDS ThreadPool

CONSTANTS a, b, c, d, w1, w2

TwoWorkers == {w1, w2}
AllTasks == {a, b, c, d}
PackagedTasks == {a, b}
ThrowingTasks == {b, d}
=============================================================================

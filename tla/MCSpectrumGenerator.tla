------------------------- MODULE MCSpectrumGenerator -------------------------
(***************************************************************************)
(* Instances of SpectrumGenerator for TLC.                                 *)
(***************************************************************************)
EXTENDS SpectrumGenerator

\* A negative number, no iteration, too few to compare, enough to compare.
AnyMaxIt == {-1, 0, 1, 2}
NoneOrEnough == {0, 2}
Enough == {2}
TreeOrLoops == {0, 1}
Loops == {1}
RunningFails == {"NonPerturbativeRunningQedQcd"}
ToFails == {"NoConvergence", "NonPerturbativeRunningQedQcd"}
==============================================================================

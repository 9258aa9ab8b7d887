--------------------------- MODULE MCLowEnergyData ---------------------------
(***************************************************************************)
(* The instance of LowEnergyData for TLC: mc, 2 GeV, mb and MZ as points   *)
(* of the grid in this order, or a vanishing mb in the input file.         *)
(***************************************************************************)
EXTENDS LowEnergyData

StandardInput == [alpha |-> 5, mb |-> 3, mc |-> 1, light |-> 2]
AnyInput == {StandardInput, [StandardInput EXCEPT !["mb"] = 0]}
AnyIterations == {0, 1, 3}
TreeOrThree == {0, 3}

\* The couplings, the masses, or both are off by the same.
SomeDistances ==
  {[p \in Parameters |-> IF p \in off THEN d ELSE 0] :
     d \in 1..MaxDistance, off \in {{}, {"alpha"}, Parameters \ {"alpha"}, Parameters}}

\* The model starts at MZ, and is run there or to the highest point.
MCInit == QInit /\ scale = StandardInput["alpha"] /\ traj \in SomeDistances
MCNext ==
  ToStep \/ \E t \in {StandardInput["alpha"], MaxScale}, max \in MaxIts : To(t, max)
MCSpec == MCInit /\ [][MCNext]_allVars /\ WF_allVars(ToStep)
=============================================================================

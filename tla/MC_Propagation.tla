--------------------------- MODULE MC_Propagation ---------------------------
(* Bounds for checking Propagation: a 2-byte input file, 3 shadow cells,   *)
(* 1..3-byte integer accesses, concrete bytes 0 and 1, additions of the    *)
(* constant 1 (which coincides with an input offset), room for 4 labels    *)
(* beyond the input labels, and runs of 5 instrumented steps (4 for the   *)
(* soundness run: 5 steps cost 780,026 states and 2 minutes).  A second   *)
(* set, MC_Hole*, has a 3-byte file and no additions.                     *)
EXTENDS Propagation

MC_FileSize == 2
MC_LabelCap == 6
MC_MemSize == 3
MC_AccessSizes == {1, 2, 3}
MC_ByteVal == {0, 1}
MC_AddConsts == {1}
MC_AddLabelSizes == {1}
MC_MaxSteps == 5
MC_SoundMaxSteps == 4

MC_HoleFileSize == 3
MC_HoleAddConsts == {}
MC_HoleAddLabelSizes == {}
MC_HoleMaxSteps == 3
=============================================================================

--------------------------- MODULE MC_GepPipeline ---------------------------
(* trace_gep over every label store of a 3-byte file with two derived     *)
(* labels: a 2-byte Load makes a two-offset tree that a later index over  *)
(* one of its offsets and a third offset merges, and the unsupported       *)
(* operator makes serialize throw.                                         *)
EXTENDS GepPipeline

MC_Ops == {"Load", "ZExt", "Add", "fmemcmp", "fsize", "Bad"}

=============================================================================

---------------------------- MODULE MC_Serializer ----------------------------
(* Label stores for the serializer: a 2-byte file (input labels 1 and 2)   *)
(* and every DAG of derived records over every operator.                *)
EXTENDS Serializer

\* Every operator kind; two derived labels are enough for fmemcmp(x, y)
\* over a y that memoises (a ZExt, Neg, Load or Add).
MC_Ops == {"Load", "ZExt", "Neg", "Add", "fmemcmp", "fsize", "Bad"}

=============================================================================

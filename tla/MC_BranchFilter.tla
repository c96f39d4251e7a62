--------------------------- MODULE MC_BranchFilter ---------------------------
(* One target thread, two call sites, two callstack ids, a cap of 2        *)
(* occurrences, three runs of up to 4 tainted branch callbacks each: a run *)
(* can exceed the cap at a site and later runs revisit every context.      *)
EXTENDS BranchFilter

CONSTANTS t1, t2, s1, s2, c1, c2

MC_Threads1 == {t1}
MC_Threads2 == {t1, t2}
MC_Sites == {s1, s2}
MC_Callstacks == {c1, c2}
=============================================================================

---------------------------- MODULE MC_UnionRace ----------------------------
(* Two threads, two distinct records, room for 3 labels (so that Die() on *)
(* exhaustion is reached after three allocations), two calls per thread.  *)
EXTENDS UnionRace

CONSTANTS t1, t2, r1, r2

MC_Threads == {t1, t2}
MC_Records == {r1, r2}
=============================================================================

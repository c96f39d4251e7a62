---------------------------- MODULE MC_TaintFile ----------------------------
(* Three descriptors (stdin and two more, so the taint file can be open    *)
(* twice, or reuse a closed number), a 2-byte taint file, and two values   *)
(* for each utmp setter.                                                   *)
EXTENDS TaintFile

MC_Fds == 0..2
=============================================================================

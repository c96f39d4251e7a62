----------------------------- MODULE LabelStore -----------------------------
(***************************************************************************)
(* What the label store and union table promise a caller of union (spec  *)
(* 4.1 and 4.2), with each call one atomic step:                          *)
(*   - a call returns a label whose record is the requested one, either   *)
(*     one that already holds it or a fresh one that is given it;         *)
(*   - a label's record, once given, never changes;                       *)
(*   - a call that needs a fresh label gets one, unless the store runs    *)
(*     out and the process dies.                                          *)
(* Equal records may end up with several labels: the minimum contract of  *)
(* spec 4.2 allows it.  UnionRace implements this specification.          *)
(***************************************************************************)
EXTENDS Naturals

CONSTANTS Threads, Records, LabelCap, NoRecord

VARIABLES
    store,      \* label -> its record, NoRecord for a label never given out
    want,       \* thread -> record of a call waiting for a fresh label
    res,        \* thread -> label returned to the caller, 0 while none
    dead        \* the process died on exhaustion

vars == <<store, want, res, dead>>

Labels == 1..LabelCap
Idle(t) == want[t] = NoRecord /\ res[t] = 0

Init ==
    /\ store = [l \in Labels |-> NoRecord]
    /\ want = [t \in Threads |-> NoRecord]
    /\ res = [t \in Threads |-> 0]
    /\ dead = FALSE

\* A call finds a label that already holds its record.
Find(t, r) ==
    /\ ~dead /\ Idle(t)
    /\ \E l \in Labels : store[l] = r /\ res' = [res EXCEPT ![t] = l]
    /\ UNCHANGED <<store, want, dead>>

\* A call that needs a fresh label.
Ask(t, r) ==
    /\ ~dead /\ Idle(t)
    /\ want' = [want EXCEPT ![t] = r]
    /\ UNCHANGED <<store, res, dead>>

\* The call is given a label no record was ever given.
Create(t) ==
    /\ ~dead /\ want[t] # NoRecord
    /\ \E l \in Labels :
          /\ store[l] = NoRecord
          /\ store' = [store EXCEPT ![l] = want[t]]
          /\ res' = [res EXCEPT ![t] = l]
    /\ want' = [want EXCEPT ![t] = NoRecord]
    /\ dead' = dead

\* The store runs out while a call waits: the process dies.
Exhaust(t) ==
    /\ ~dead /\ want[t] # NoRecord
    /\ dead' = TRUE
    /\ UNCHANGED <<store, want, res>>

\* The caller takes the label and may call again.
Release(t) ==
    /\ ~dead /\ res[t] # 0
    /\ res' = [res EXCEPT ![t] = 0]
    /\ UNCHANGED <<store, want, dead>>

Next ==
    \/ \E t \in Threads, r \in Records : Find(t, r) \/ Ask(t, r)
    \/ \E t \in Threads : Create(t) \/ Exhaust(t) \/ Release(t)

(* A waiting call is not left waiting while fresh labels remain.           *)
Spec == Init /\ [][Next]_vars /\ \A t \in Threads : WF_vars(Create(t))

=============================================================================

----------------------------- MODULE UnionRace -----------------------------
(***************************************************************************)
(* Concurrent calls of __taint_union                                       *)
(* (src/llvm_mode/dfsan_rt/dfsan/dfsan.cc, lines 254-299) from several     *)
(* application threads.  A call that passes the constant shortcut does     *)
(* four separate steps with no lock: the hash-cons lookup, the atomic      *)
(* fetch_add of __dfsan_last_label with dfsan_check_label, the memcpy of   *)
(* the record into the label store, and the insert into __union_table.     *)
(* Between them other threads run.                                         *)
(*                                                                         *)
(* A requested record (operands, op, size, concrete operands) is a model   *)
(* value of Records.  The union table's lookup and insert                  *)
(* (union_hashtable.h, not in the repository) are taken from spec 4.2:     *)
(* lookup finds an inserted label with an equal record, insert adds one.  *)
(***************************************************************************)
EXTENDS Naturals, FiniteSets

CONSTANTS
    Threads,        \* application threads calling __taint_union
    Records,        \* distinct label records the threads may request
    LabelCap,       \* last label below UnusedAddr()
    MaxCalls        \* union calls per thread explored

ASSUME LabelCap \in Nat /\ MaxCalls \in Nat

NoRecord == "none"   \* a label slot no call has written

VARIABLES
    info,       \* label store: label -> record (NoRecord: not written)
    last,       \* __dfsan_last_label
    table,      \* labels inserted into __union_table
    dead,       \* Die() on label exhaustion
    pc,         \* thread -> step of its call in flight
    req,        \* thread -> record it asked for
    lbl,        \* thread -> label it allocated or returned
    calls       \* thread -> calls begun

vars == <<info, last, table, dead, pc, req, lbl, calls>>

Labels == 1..LabelCap

Init ==
    /\ info = [l \in Labels |-> NoRecord]
    /\ last = 0
    /\ table = {}
    /\ dead = FALSE
    /\ pc = [t \in Threads |-> "idle"]
    /\ req = [t \in Threads |-> NoRecord]
    /\ lbl = [t \in Threads |-> 0]
    /\ calls = [t \in Threads |-> 0]

(* A call with symbolic operands begins (the swap, the constant shortcut   *)
(* and the zeroing of symbolic concrete operands are local), then looks    *)
(* the record up: a hit returns the label found.                           *)
Lookup(t, r) ==
    /\ ~dead
    /\ pc[t] = "idle"
    /\ calls[t] < MaxCalls
    /\ req' = [req EXCEPT ![t] = r]
    /\ calls' = [calls EXCEPT ![t] = @ + 1]
    /\ IF \E l \in table : info[l] = r
       THEN /\ lbl' = [lbl EXCEPT ![t] = CHOOSE l \in table : info[l] = r]
            /\ pc' = [pc EXCEPT ![t] = "done"]
       ELSE /\ pc' = [pc EXCEPT ![t] = "alloc"]
            /\ UNCHANGED lbl
    /\ UNCHANGED <<info, last, table, dead>>

\* Seeded fault: the label is taken as last + 1 but the counter is not bumped.
AllocNoBump(t) ==
    /\ ~dead
    /\ pc[t] = "alloc"
    /\ IF last + 1 > LabelCap
       THEN /\ dead' = TRUE
            /\ UNCHANGED <<last, pc, lbl>>
       ELSE /\ lbl' = [lbl EXCEPT ![t] = last + 1]
            /\ pc' = [pc EXCEPT ![t] = "write"]
            /\ UNCHANGED <<last, dead>>
    /\ UNCHANGED <<info, table, req, calls>>

(* atomic_fetch_add(&__dfsan_last_label, 1) + 1, then dfsan_check_label:   *)
(* past the label store the process dies.                                  *)
Alloc(t) ==
    /\ ~dead
    /\ pc[t] = "alloc"
    /\ last' = last + 1
    /\ IF last + 1 > LabelCap
       THEN /\ dead' = TRUE
            /\ UNCHANGED <<pc, lbl>>
       ELSE /\ lbl' = [lbl EXCEPT ![t] = last + 1]
            /\ pc' = [pc EXCEPT ![t] = "write"]
            /\ UNCHANGED dead
    /\ UNCHANGED <<info, table, req, calls>>

(* internal_memcpy of the record into __dfsan_label_info[label].          *)
Write(t) ==
    /\ ~dead
    /\ pc[t] = "write"
    /\ info' = [info EXCEPT ![lbl[t]] = req[t]]
    /\ pc' = [pc EXCEPT ![t] = "insert"]
    /\ UNCHANGED <<last, table, dead, req, lbl, calls>>

(* __union_table.insert(&__dfsan_label_info[label], label); return label. *)
Insert(t) ==
    /\ ~dead
    /\ pc[t] = "insert"
    /\ table' = table \cup {lbl[t]}
    /\ pc' = [pc EXCEPT ![t] = "done"]
    /\ UNCHANGED <<info, last, dead, req, lbl, calls>>

(* The caller uses the returned label; the thread may call again.          *)
Return(t) ==
    /\ ~dead
    /\ pc[t] = "done"
    /\ pc' = [pc EXCEPT ![t] = "idle"]
    /\ UNCHANGED <<info, last, table, dead, req, lbl, calls>>

(* After Die(), or when every thread has made its calls, nothing happens.  *)
Stopped ==
    /\ dead \/ \A t \in Threads : pc[t] = "idle" /\ calls[t] = MaxCalls
    /\ UNCHANGED vars

Next ==
    \/ \E t \in Threads, r \in Records : Lookup(t, r)
    \/ \E t \in Threads : Alloc(t) \/ Write(t) \/ Insert(t) \/ Return(t)
    \/ Stopped

(* A thread inside __taint_union holds no lock and waits for nothing, so   *)
(* the scheduler keeps running it: each thread's steps are weakly fair.    *)
(* Starting a call (Lookup) is the program's choice and is not.            *)
Fairness == \A t \in Threads : WF_vars(Alloc(t) \/ Write(t) \/ Insert(t) \/ Return(t))

Spec == Init /\ [][Next]_vars /\ Fairness

-----------------------------------------------------------------------------
TypeOK ==
    /\ info \in [Labels -> Records \cup {NoRecord}]
    /\ last \in 0..LabelCap + 1
    /\ table \subseteq 1..last
    /\ dead \in BOOLEAN
    /\ pc \in [Threads -> {"idle", "alloc", "write", "insert", "done"}]
    /\ req \in [Threads -> Records \cup {NoRecord}]
    /\ lbl \in [Threads -> 0..LabelCap]
    /\ calls \in [Threads -> 0..MaxCalls]

(***************************************************************************)
(* Spec 4.2, the table's minimum contract: a label returned by             *)
(* __taint_union names the record its caller asked for, and keeps naming   *)
(* it while other threads allocate (non-equal inserts never alias): the    *)
(* fetch_add never hands one label out twice, and a label is inserted     *)
(* only after its record is written.                                       *)
(***************************************************************************)
ResultFaithful ==
    \A t \in Threads : pc[t] = "done" => info[lbl[t]] = req[t]

(***************************************************************************)
(* The unlocked steps implement the atomic store of LabelStore: a call in *)
(* "alloc" or "write" waits for a fresh label, the record copy is the     *)
(* step that gives it one, and the insert is invisible to callers.  The   *)
(* refinement also carries the liveness of LabelStore: under the threads' *)
(* fairness every call that missed in the table returns a label or the    *)
(* process dies.                                                           *)
(***************************************************************************)
Abs == INSTANCE LabelStore WITH
          store <- info,
          want <- [t \in Threads |-> IF pc[t] \in {"alloc", "write"} THEN req[t] ELSE NoRecord],
          res <- [t \in Threads |-> IF pc[t] \in {"insert", "done"} THEN lbl[t] ELSE 0]

ImplementsLabelStore == Abs!Spec

=============================================================================

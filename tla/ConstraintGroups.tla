-------------------------- MODULE ConstraintGroups --------------------------
(***************************************************************************)
(* What the path-constraint accumulator promises (spec section 4.6),       *)
(* without trees or pointers: the input offsets are partitioned into      *)
(* groups, and every offset of a group sees the same set of constraints.   *)
(* Recording a constraint over offsets D unions the groups of D into one   *)
(* and gives it the constraints of all of them plus the new one; every    *)
(* other group is left alone.  An offset no constraint touched is a group *)
(* of its own with no constraints.                                         *)
(***************************************************************************)
CONSTANTS
    Offsets,    \* input-file offsets
    Exprs       \* constraints that can be recorded

VARIABLES
    group,      \* offset -> the offsets of its group
    cons        \* offset -> the constraints its group holds

vars == <<group, cons>>

Init ==
    /\ group = [o \in Offsets |-> {o}]
    /\ cons = [o \in Offsets |-> {}]

(* Record constraint e over the nonempty set of offsets D.                 *)
Record(e, D) ==
    LET M == UNION {group[d] : d \in D}
        C == UNION {cons[m] : m \in M} \cup {e}
    IN  /\ D # {}
        /\ group' = [o \in Offsets |-> IF o \in M THEN M ELSE group[o]]
        /\ cons' = [o \in Offsets |-> IF o \in M THEN C ELSE cons[o]]

Next == \E e \in Exprs, D \in SUBSET Offsets : Record(e, D)

Spec == Init /\ [][Next]_vars

=============================================================================

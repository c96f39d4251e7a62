---------------------------- MODULE GepPipeline ----------------------------
(***************************************************************************)
(* __taint_trace_gep(label, r) end to end                                  *)
(* (src/llvm_mode/dfsan_rt/dfsan/dfsan.cc, lines 1326-1430): the          *)
(* serializer computes the input offsets the index label depends on       *)
(* (memoising into the label store), and with __solver_select 0 the       *)
(* RESTRICT_CONSTRAINT block records "index == r" in the dependency tree  *)
(* of those offsets, merging the trees they were in.  B_FLIPPED is set    *)
(* last inside the try block, so a label whose serialization throws a    *)
(* z3::exception is only reported and is tried again at its next gep.    *)
(* With __solver_select set the solver hand-off is commented out and      *)
(* nothing is recorded.                                                    *)
(*                                                                         *)
(* The composition shares the serializer's state (Serializer) and the     *)
(* trees' state (Accumulator); the offsets are the file's.                 *)
(***************************************************************************)
EXTENDS Naturals, FiniteSets

CONSTANTS FileSize, NDerived, Ops, MaxLoad, Indices

VARIABLES
    info, cache, flipped, results,  \* the serializer's state
    ptr, trees,                     \* __branch_deps
    select                          \* __solver_select, fixed at init

vars == <<info, cache, flipped, results, ptr, trees, select>>

S == INSTANCE Serializer
A == INSTANCE Accumulator WITH Offsets <- S!Offsets, Labels <- S!Labels

(* The refinement mapping: an offset's group is the deps of the tree it   *)
(* points to, and its constraints that tree's exprs; a null pointer is a  *)
(* group of its own with no constraints.                                  *)
G == INSTANCE ConstraintGroups WITH
        Offsets <- S!Offsets,
        Exprs <- S!Labels \X Indices,
        group <- [o \in S!Offsets |-> IF ptr[o] = 0 THEN {o} ELSE trees[ptr[o]].deps],
        cons <- [o \in S!Offsets |-> IF ptr[o] = 0 THEN {} ELSE trees[ptr[o]].exprs]

\* Seeded fault: B_FLIPPED is set even when serialize threw.
TraceGepFlagOnThrow(l, r) ==
    /\ l \notin flipped
    /\ LET s == S!serialize(cache, l, {}) IN
       /\ cache' = s.cache
       /\ flipped' = flipped \cup {l}
       /\ IF s.ok /\ select = 0 THEN A!RecordGep(l, r, s.deps)
          ELSE UNCHANGED <<ptr, trees>>
       /\ results' = IF s.ok THEN results \cup {<<l, s.deps>>} ELSE results
    /\ UNCHANGED <<info, select>>

(* A gep on a label that is nonzero and not B_FLIPPED: serialize(label,   *)
(* inputs); on success the tree update (select 0) and B_FLIPPED; on a     *)
(* z3::exception only the memo entries written so far stay.               *)
TraceGep(l, r) ==
    /\ l \notin flipped
    /\ LET s == S!serialize(cache, l, {}) IN
       /\ cache' = s.cache
       /\ IF s.ok
          THEN /\ flipped' = flipped \cup {l}
               /\ results' = results \cup {<<l, s.deps>>}
               /\ IF select = 0 THEN A!RecordGep(l, r, s.deps)
                  ELSE UNCHANGED <<ptr, trees>>
          ELSE UNCHANGED <<flipped, results, ptr, trees>>
    /\ UNCHANGED <<info, select>>

Init ==
    /\ S!Init
    /\ A!InitTrees
    /\ select \in {0, 1}

\* Every label has been taken, or throws whenever it is.
Done ==
    /\ \A l \in S!Labels : l \in flipped \/ ~S!serialize(cache, l, {}).ok
    /\ UNCHANGED vars

Next == (\E l \in S!Labels, r \in Indices : TraceGep(l, r)) \/ Done

Spec == Init /\ [][Next]_vars

-----------------------------------------------------------------------------
TypeOK == S!TypeOK /\ A!TypeOK /\ select \in {0, 1}

\* The serializer's dependency sets over-approximate the true ones.
DepsCover == S!DepsCover

\* The trees partition the offsets they cover.
TreesPartition == A!TreesPartition

(***************************************************************************)
(* A B_FLIPPED label is never looked at again, so with __solver_select 0   *)
(* its constraint must already be in the tree of every input offset the    *)
(* index really depends on: whatever the order of geps, cache hits,       *)
(* exceptions and merges before it, for some r the expression             *)
(* "index == r" is reachable from each of those offsets.                  *)
(***************************************************************************)
IndexConstraintReachable ==
    select = 0 =>
        \A l \in flipped : \A o \in S!TrueDeps(l) :
            ptr[o] # 0 /\ \E r \in Indices : <<l, r>> \in trees[ptr[o]].exprs

(***************************************************************************)
(* The trees implement the union-find of spec 4.6: every trace_gep, with   *)
(* its merges in whatever order the unordered_set yields the inputs and   *)
(* its leaked and reused trees, is one Record of ConstraintGroups over the *)
(* inputs serialize reported, or no change at all.                         *)
(***************************************************************************)
ImplementsConstraintGroups == G!Spec

=============================================================================

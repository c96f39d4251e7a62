---------------------------- MODULE Accumulator ----------------------------
(***************************************************************************)
(* Path-constraint accumulator of the taint runtime                        *)
(* (src/llvm_mode/dfsan_rt/dfsan/dfsan.cc): the per-offset dependency      *)
(* trees __branch_deps, as __taint_trace_gep builds them with              *)
(* RESTRICT_CONSTRAINT on.  The module is the state of the trees and the   *)
(* operator RecordGep that one trace_gep applies to it; GepPipeline        *)
(* composes it with the serializer that supplies the inputs.               *)
(*                                                                         *)
(* A tree is named by an identifier; a tree no offset points to any more  *)
(* (the code leaks it) is dropped, and its identifier may name a new one. *)
(* A z3 expression is named by what it asserts: <<label, index>> for a    *)
(* gep's "index == result".  The iteration order of the unordered_set of  *)
(* inputs is unspecified, so every order is explored.                      *)
(***************************************************************************)
EXTENDS Naturals, FiniteSets, SequencesExt

CONSTANTS
    Offsets,        \* input-file offsets (indices of __branch_deps)
    Labels,         \* labels of tainted GEP indices
    Indices         \* concrete index values r

VARIABLES
    ptr,        \* __branch_deps: offset -> tree id, 0 for nullptr
    trees       \* tree id -> [exprs, deps]

TreeIds == 1..Cardinality(Offsets)
Empty == [exprs |-> {}, deps |-> {}]
Expr == Labels \X Indices

\* A tree id no offset points to, for a tree the code allocates.
FreeId(p) == CHOOSE i \in TreeIds : \A o \in Offsets : p[o] # i

(***************************************************************************)
(* One iteration of the tree-building loop over the inputs (lines         *)
(* 1389-1406): take the offset's tree or a new one; the first becomes      *)
(* the_tree, a later one is merged into it and every offset of its deps   *)
(* is pointed at the_tree; the offset itself is pointed at the_tree.       *)
(***************************************************************************)
\* Seeded fault: the merged tree's offsets are not pointed at the_tree.
MergeStepNoRepoint(acc, off) ==
    LET c == acc.ptr[off] IN
    IF acc.the = 0
    THEN LET id == IF c = 0 THEN FreeId(acc.ptr) ELSE c IN
         [acc EXCEPT !.the = id, !.ptr[off] = id,
                     !.trees[id] = IF c = 0 THEN Empty ELSE @]
    ELSE LET ct == IF c = 0 THEN Empty ELSE acc.trees[c] IN
         [acc EXCEPT !.trees[acc.the] = [exprs |-> @.exprs \cup ct.exprs,
                                         deps |-> @.deps \cup ct.deps],
                     !.ptr[off] = acc.the]

MergeStep(acc, off) ==
    LET c == acc.ptr[off] IN
    IF acc.the = 0
    THEN LET id == IF c = 0 THEN FreeId(acc.ptr) ELSE c IN
         [acc EXCEPT !.the = id, !.ptr[off] = id,
                     !.trees[id] = IF c = 0 THEN Empty ELSE @]
    ELSE LET ct == IF c = 0 THEN Empty ELSE acc.trees[c] IN
         [acc EXCEPT !.trees[acc.the] = [exprs |-> @.exprs \cup ct.exprs,
                                         deps |-> @.deps \cup ct.deps],
                     !.ptr = [o \in Offsets |->
                                 IF o \in ct.deps \/ o = off THEN acc.the
                                 ELSE acc.ptr[o]]]

(***************************************************************************)
(* The RESTRICT_CONSTRAINT block of __taint_trace_gep (lines 1386-1413),   *)
(* run with __solver_select 0 after serialize(label) returned the inputs  *)
(* D: build the_tree over the inputs in the unordered_set's order, insert  *)
(* "index == r" into it and add the inputs to its deps.  With no inputs    *)
(* the_tree stays null and nothing is recorded.                           *)
(***************************************************************************)
\* Seeded fault: the inputs are not added to the_tree's deps (1410-1412).
RecordGepNoDeps(l, r, D) ==
    \E order \in SetToSeqs(D) :
        LET acc == FoldLeft(MergeStep, [ptr |-> ptr, trees |-> trees, the |-> 0], order)
        IN  /\ ptr' = acc.ptr
            /\ trees' = IF acc.the = 0 THEN acc.trees
                        ELSE [acc.trees EXCEPT ![acc.the].exprs = @ \cup {<<l, r>>}]

RecordGep(l, r, D) ==
    \E order \in SetToSeqs(D) :
        LET acc == FoldLeft(MergeStep, [ptr |-> ptr, trees |-> trees, the |-> 0], order)
        IN  /\ ptr' = acc.ptr
            /\ trees' = IF acc.the = 0 THEN acc.trees
                        ELSE [acc.trees EXCEPT ![acc.the] =
                                [exprs |-> @.exprs \cup {<<l, r>>},
                                 deps |-> @.deps \cup D]]

\* __branch_deps as InitializeTaintFile creates it: every entry nullptr.
InitTrees ==
    /\ ptr = [o \in Offsets |-> 0]
    /\ trees = [i \in TreeIds |-> Empty]

-----------------------------------------------------------------------------
TypeOK ==
    /\ ptr \in [Offsets -> TreeIds \cup {0}]
    /\ trees \in [TreeIds -> [exprs : SUBSET Expr, deps : SUBSET Offsets]]

(***************************************************************************)
(* The trees form a partition (spec 4.6): an offset belongs to the deps of *)
(* the tree it points to, and every offset in a tree's deps points back to *)
(* that tree, however the merges of trace_gep interleave.                  *)
(***************************************************************************)
TreesPartition ==
    \A o \in Offsets :
        ptr[o] # 0 =>
            /\ o \in trees[ptr[o]].deps
            /\ \A i \in trees[ptr[o]].deps : ptr[i] = ptr[o]

=============================================================================

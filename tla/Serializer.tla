----------------------------- MODULE Serializer -----------------------------
(***************************************************************************)
(* The expression serializer of the taint runtime                          *)
(* (src/llvm_mode/dfsan_rt/dfsan/dfsan.cc, serialize and cache_expr) as    *)
(* far as the dependency sets go: which input offsets serialize reports    *)
(* for a label, and what it memoises in the label's record (info->expr,   *)
(* info->deps).  The z3 expression itself is abstracted away; only         *)
(* whether serialize returns or throws is kept.                           *)
(*                                                                         *)
(* The label store is fixed while serialize runs: Init picks any DAG of    *)
(* records over the derived labels, each of whose operands is an earlier   *)
(* label, on top of the input labels InitializeTaintFile creates (label    *)
(* o + 1 for offset o); a Load covers consecutive input labels of the     *)
(* file, as the load path builds it.  The only caller live in the build   *)
(* is __taint_trace_gep, which serializes any nonzero index label with a  *)
(* fresh dependency set, and not again once the label is B_FLIPPED.       *)
(***************************************************************************)
EXTENDS Naturals, FiniteSets, TLC

CONSTANTS
    FileSize,       \* input labels 1..FileSize, for offsets 0..FileSize-1
    NDerived,       \* derived labels FileSize+1..FileSize+NDerived
    Ops,            \* operators the derived records may carry
    MaxLoad         \* longest Load record

InputLabels == 1..FileSize
Derived == FileSize + 1..FileSize + NDerived
Labels == InputLabels \cup Derived
Offsets == 0..FileSize - 1

\* "Bad" is an operator serialize does not support (its default case).
AllOps == {"Load", "ZExt", "Neg", "Add", "fmemcmp", "fsize", "Bad"}
ASSUME Ops \subseteq AllOps /\ MaxLoad \in Nat \ {0}

\* Record of the input label of offset o (InitializeTaintFile).
InputRec(o) == [op |-> "Input", l1 |-> 0, l2 |-> 0, op1 |-> o]

(* The records a derived label l can hold: operands are earlier labels,    *)
(* 0 stands for a concrete operand.  A Load's l2 is its length and l1 the  *)
(* input label of its first byte; its bytes lie within the file.           *)
Records(l) ==
    LET B == 1..l - 1  B0 == {0} \cup B
        R(op, a, b) == [op |-> op, l1 |-> a, l2 |-> b, op1 |-> 0]
    IN  UNION {{R("Load", i, n) : n \in 1..MaxLoad \cap 1..FileSize - i + 1} : i \in InputLabels}
          \cup {R("ZExt", a, 0) : a \in B} \cup {R("Neg", 0, b) : b \in B}
          \cup ({R("Add", a, b) : a, b \in B0} \ {R("Add", 0, 0)})
          \cup {R("fmemcmp", a, b) : a \in B0, b \in B}
          \cup {R("fsize", 0, 0)} \cup {R("Bad", a, 0) : a \in B}

VARIABLES
    info,       \* the label store: label -> record
    cache,      \* memoised label -> info->deps (outside the domain: info->expr null)
    flipped,    \* labels trace_gep serialized without an exception
    results     \* history: <<label, deps>> of every successful top-level call

vars == <<info, cache, flipped, results>>

(***************************************************************************)
(* serialize(label, deps) returns the record [cache, deps, ok]: the memo   *)
(* table after the call, the caller's set with the label's dependencies   *)
(* added, and FALSE when a z3::exception was thrown.                       *)
(***************************************************************************)
Ok(c, D) == [cache |-> c, deps |-> D, ok |-> TRUE]

\* Seeded fault: a cache hit returns the cached expression without its deps.
HitNoDeps(c, l, D) == Ok(c, D)

\* A memoised label: insert the cached deps into the caller's set (673-677).
Hit(c, l, D) == Ok(c, D \cup c[l])

\* cache_expr(info, e, deps): store a copy of the caller's whole set.
CacheExpr(s, l) == [s EXCEPT !.cache = (l :> s.deps) @@ @]

\* Seeded fault: the Load loop runs to i <= l2, one byte past the load.
LoadDepsPastEnd(r) == {info[r.l1].op1 + i : i \in 0..r.l2}

\* The offsets of a Load's bytes (lines 688-697): op1 of its first label on.
LoadDeps(r) == {info[r.l1].op1 + i : i \in 0..r.l2 - 1}

RECURSIVE serialize(_, _, _)

(* The two operands of a common op (lines 775-792): op1 is serialized into *)
(* the caller's set, op2 into a fresh deps2 that is then merged in.        *)
Operands(c, r, D) ==
    LET s1 == IF r.l1 # 0 THEN serialize(c, r.l1, D) ELSE Ok(c, D)
        s2 == IF r.l2 # 0 THEN serialize(s1.cache, r.l2, {}) ELSE Ok(s1.cache, {})
    IN  IF ~s1.ok THEN s1 ELSE [s2 EXCEPT !.deps = s1.deps \cup @]

serialize(c, l, D) ==
    LET r == info[l] IN
    IF l \in DOMAIN c THEN Hit(c, l, D)
    ELSE CASE r.op = "Input" -> Ok(c, D \cup {r.op1})
           [] r.op = "Load"  -> CacheExpr(Ok(c, D \cup LoadDeps(r)), l)
           [] r.op = "ZExt"  -> LET s == serialize(c, r.l1, D)
                                IN  IF s.ok THEN CacheExpr(s, l) ELSE s
           [] r.op = "Neg"   -> LET s == serialize(c, r.l2, D)
                                IN  IF s.ok THEN CacheExpr(s, l) ELSE s
           \* fmemcmp: both operands into the caller's set, nothing cached
           [] r.op = "fmemcmp" ->
                LET s1 == IF r.l1 # 0 THEN serialize(c, r.l1, D) ELSE Ok(c, D)
                IN  IF s1.ok THEN serialize(s1.cache, r.l2, s1.deps) ELSE s1
           \* fsize: a fresh symbol, no input offsets, nothing cached
           [] r.op = "fsize" -> Ok(c, D)
           [] OTHER ->
                LET s == Operands(c, r, D) IN
                IF ~s.ok THEN s
                ELSE IF r.op = "Bad" THEN [s EXCEPT !.ok = FALSE]
                ELSE CacheExpr(s, l)

(* __taint_trace_gep(label, r) for a label not yet B_FLIPPED: serialize it *)
(* with an empty set; on success set B_FLIPPED.  The memo entries written  *)
(* before an exception stay.                                               *)
SerializeIndex(l) ==
    /\ l \notin flipped
    /\ LET s == serialize(cache, l, {}) IN
       /\ cache' = s.cache
       /\ IF s.ok
          THEN /\ flipped' = flipped \cup {l}
               /\ results' = results \cup {<<l, s.deps>>}
          ELSE UNCHANGED <<flipped, results>>
    /\ UNCHANGED info

Init ==
    /\ \E g \in [Derived -> UNION {Records(l) : l \in Derived}] :
          /\ \A l \in Derived : g[l] \in Records(l) /\ g[l].op \in Ops
          /\ info = [l \in Labels |-> IF l \in InputLabels THEN InputRec(l - 1) ELSE g[l]]
    /\ cache = <<>>
    /\ flipped = {}
    /\ results = {}

\* Every index label has been serialized, or throws whenever it is.
Done ==
    /\ \A l \in Labels : l \in flipped \/ ~serialize(cache, l, {}).ok
    /\ UNCHANGED vars

Next == (\E l \in Labels : SerializeIndex(l)) \/ Done

Spec == Init /\ [][Next]_vars

-----------------------------------------------------------------------------
TypeOK ==
    /\ DOMAIN cache \subseteq Derived
    /\ \A l \in DOMAIN cache : cache[l] \subseteq Offsets
    /\ flipped \subseteq Labels
    /\ results \subseteq Labels \X SUBSET Offsets

\* The input offsets a label's value depends on, by the meaning of its record.
RECURSIVE TrueDeps(_)
TrueDeps(l) ==
    LET r == info[l] IN
    CASE r.op = "Input" -> {r.op1}
      [] r.op = "Load"  -> LoadDeps(r)
      [] r.op = "fsize" -> {}
      [] OTHER -> (IF r.l1 # 0 THEN TrueDeps(r.l1) ELSE {})
                  \cup (IF r.l2 # 0 THEN TrueDeps(r.l2) ELSE {})

(***************************************************************************)
(* Whatever order trace_gep serializes labels in, and whatever earlier    *)
(* calls memoised or threw, a serialized label's reported dependencies    *)
(* include every input offset it depends on: trace_gep never misses a   *)
(* tree it must merge.                                                     *)
(***************************************************************************)
DepsCover ==
    /\ \A res \in results : TrueDeps(res[1]) \subseteq res[2]
    /\ \A l \in Labels : l \in DOMAIN cache => TrueDeps(l) \subseteq cache[l]

(***************************************************************************)
(* Spec section 3 and 4.5: info->deps is the set of input offsets the      *)
(* label depends on, and serialize reports exactly that set.               *)
(***************************************************************************)
DepsExact ==
    /\ \A res \in results : res[2] = TrueDeps(res[1])
    /\ \A l \in Labels : l \in DOMAIN cache => cache[l] = TrueDeps(l)

=============================================================================

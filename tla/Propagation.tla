---------------------------- MODULE Propagation ----------------------------
(***************************************************************************)
(* Label store, union hash-cons, shadow memory and the propagation         *)
(* protocol of the taint runtime (src/llvm_mode/dfsan_rt/dfsan/dfsan.cc):  *)
(* __taint_union, __taint_union_load, __taint_union_store,                 *)
(* dfsan_create_label, dfsan_check_label and __dfsan_set_label.            *)
(*                                                                         *)
(* The environment is the instrumented program of one thread: each step   *)
(* is one instrumented instruction sequence (a taint source marking a     *)
(* byte, a constant store, an integer load followed by a store of the     *)
(* loaded, added-to or zero-extended value).  A runtime operation is      *)
(* computed as a function of the runtime state, passed along as a record  *)
(* st = [info, last, table, dead], so that nested unions, recursion and   *)
(* allocation order are those of the code.                                *)
(*                                                                         *)
(* Data is abstracted to what the byte-level meaning of a label tells     *)
(* apart: Bytes(st, l) is the little-endian sequence of byte terms a      *)
(* label denotes, as serialize() would build it: an input byte, a         *)
(* concrete byte, or byte j of an opaque arithmetic result.               *)
(***************************************************************************)
EXTENDS Naturals, Sequences, FiniteSets

CONSTANTS
    CONST_OFFSET,   \* first non-constant label (dfsan.h)
    FileSize,       \* bytes of the tainted input file
    LabelCap,       \* last label index below UnusedAddr() (dfsan_check_label)
    MemSize,        \* application bytes whose shadow cells are modelled
    AccessSizes,    \* byte widths of the program's integer loads and stores
    ByteVal,        \* concrete byte values the program may hold
    AddConsts,      \* constant right operands of the program's additions
    AddLabelSizes,  \* byte counts of the program's dfsan_add_label calls
    MaxSteps        \* length bound of the instrumented program's run

ASSUME CONST_OFFSET = 1 /\ FileSize \in Nat \ {0}
ASSUME LabelCap \in Nat /\ LabelCap >= CONST_OFFSET + FileSize
ASSUME AccessSizes \subseteq 1..MemSize /\ AddLabelSizes \subseteq AccessSizes

VARIABLES
    info,       \* __dfsan_label_info: label -> record (l1, l2, op, size, op1, op2)
    last,       \* __dfsan_last_label
    table,      \* labels inserted into __union_table
    dead,       \* the process has died on label exhaustion (Die())
    shadow,     \* shadow memory: application byte -> label
    mem,        \* concrete application bytes (read by app_for in union_load)
    steps       \* instrumented steps taken so far (bounded by MaxSteps)

vars == <<info, last, table, dead, shadow, mem, steps>>

Labels == 0..LabelCap
Addr == 0..(MemSize - 1)
Ops == {"Input", "Load", "ZExt", "Trunc", "Extract", "Concat", "Add", "fsize"}
Commutative == {"Add"}

\* Zero-filled record of the mmap'ed label store: op 0 is Input.
ZeroRecord == [l1 |-> 0, l2 |-> 0, op |-> "Input", size |-> 0, op1 |-> 0, op2 |-> 0]

\* Label of the input byte at file offset o (InitializeTaintFile seeds them in order).
InputLabel(o) == CONST_OFFSET + o

St == [info |-> info, last |-> last, table |-> table, dead |-> dead]

(***************************************************************************)
(* dfsan_create_label(offset): bump-allocate a zeroed, size-8 Input record *)
(* whose op1 is the file offset.  InitializeTaintFile seeds labels         *)
(* 1..CONST_OFFSET-1 with offset i, then one label per file byte.          *)
(***************************************************************************)
InitInfo ==
    [l \in Labels |->
        CASE l = 0 -> [ZeroRecord EXCEPT !.size = 8]
          [] l < CONST_OFFSET -> [ZeroRecord EXCEPT !.size = 8, !.op1 = l]
          [] l < CONST_OFFSET + FileSize ->
                [ZeroRecord EXCEPT !.size = 8, !.op1 = l - CONST_OFFSET]
          [] OTHER -> ZeroRecord]

(***************************************************************************)
(* __taint_union: canonicalise commutative operands, return the constant   *)
(* label for constant operands, zero concrete operands that are symbolic,  *)
(* return a hash-consed equal record, or allocate the next label and      *)
(* insert it into the union table.  fetch_add bumps the counter before    *)
(* dfsan_check_label, so past the label store Die() leaves last one past   *)
(* it.  The structural hash is a function of the record and is left out;  *)
(* the table's lookup (union_hashtable.h) finds an equal record.           *)
(***************************************************************************)
\* Seeded fault: the record is written at last + 1 but the counter is not bumped.
TaintUnionNoBump(s, a1, a2, op, size, c1, c2) ==
    LET swap == a1 > a2 /\ op \in Commutative
        l1 == IF swap THEN a2 ELSE a1
        l2 == IF swap THEN a1 ELSE a2
        rec == [l1 |-> l1, l2 |-> l2, op |-> op, size |-> size,
                op1 |-> IF l1 >= CONST_OFFSET THEN 0 ELSE IF swap THEN c2 ELSE c1,
                op2 |-> IF l2 >= CONST_OFFSET THEN 0 ELSE IF swap THEN c1 ELSE c2]
        found == {l \in s.table : s.info[l] = rec}
        new == s.last + 1
    IN  CASE s.dead -> [st |-> s, l |-> 0]
          [] l1 = 0 /\ l2 < CONST_OFFSET /\ op # "fsize" -> [st |-> s, l |-> 0]
          [] found # {} -> [st |-> s, l |-> CHOOSE l \in found : TRUE]
          [] new > LabelCap -> [st |-> [s EXCEPT !.dead = TRUE], l |-> 0]
          [] OTHER -> [st |-> [s EXCEPT !.info[new] = rec, !.table = @ \cup {new}],
                       l |-> new]

TaintUnion(s, a1, a2, op, size, c1, c2) ==
    LET swap == a1 > a2 /\ op \in Commutative
        l1 == IF swap THEN a2 ELSE a1
        l2 == IF swap THEN a1 ELSE a2
        o1 == IF swap THEN c2 ELSE c1
        o2 == IF swap THEN c1 ELSE c2
        rec == [l1 |-> l1, l2 |-> l2, op |-> op, size |-> size,
                op1 |-> IF l1 >= CONST_OFFSET THEN 0 ELSE o1,
                op2 |-> IF l2 >= CONST_OFFSET THEN 0 ELSE o2]
        found == {l \in s.table : s.info[l] = rec}
        new == s.last + 1
    IN  CASE s.dead -> [st |-> s, l |-> 0]
          [] l1 = 0 /\ l2 < CONST_OFFSET /\ op # "fsize" -> [st |-> s, l |-> 0]
          [] found # {} -> [st |-> s, l |-> CHOOSE l \in found : TRUE]
          [] new > LabelCap -> [st |-> [s EXCEPT !.last = new, !.dead = TRUE], l |-> 0]
          [] OTHER -> [st |-> [s EXCEPT !.info[new] = rec, !.last = new,
                                        !.table = @ \cup {new}],
                       l |-> new]

(***************************************************************************)
(* union_store fall-through: byte i of the store gets Extract(l, i*8, 8),  *)
(* allocated in increasing i.                                              *)
(***************************************************************************)
RECURSIVE Extracts(_, _, _, _)
Extracts(s, l, i, n) ==
    IF i >= n THEN [st |-> s, cells |-> <<>>]
    ELSE LET e == TaintUnion(s, l, 0, "Extract", 8, 0, i * 8)
             rest == Extracts(e.st, l, i + 1, n)
         IN  [st |-> rest.st, cells |-> <<e.l>> \o rest.cells]

(***************************************************************************)
(* __taint_union_store(l, ls, n): the n labels written to the shadow       *)
(* cells, in the order of its fast paths: constant, single byte, Load      *)
(* (write back the loaded input labels), Concat of the full width (store   *)
(* the high part l2 then the low part l1), ZExt of a whole-byte base       *)
(* (zero the extension, store the base), else per-byte Extracts.           *)
(***************************************************************************)
RECURSIVE UnionStore(_, _, _)

\* Seeded fault: a full-width Concat stores its high part in the low cells.
UnionStoreConcatSwapped(s, l, n) ==
    LET inf == s.info[l] IN
    CASE l = 0 -> [st |-> s, cells |-> [i \in 1..n |-> 0]]
      [] n = 1 /\ inf.size = 8 -> [st |-> s, cells |-> <<l>>]
      [] inf.op = "Load" -> [st |-> s, cells |-> [i \in 1..n |-> inf.l1 + (i - 1)]]
      [] inf.op = "Concat" /\ n * 8 = inf.size ->
            LET k == s.info[inf.l2].size \div 8
                hi == UnionStore(s, inf.l2, k)
                lo == UnionStore(hi.st, inf.l1, n - k)
            IN  [st |-> lo.st, cells |-> hi.cells \o lo.cells]
      [] inf.op = "ZExt" /\ s.info[inf.l1].size % 8 = 0 ->
            LET k == s.info[inf.l1].size \div 8
                base == UnionStore(s, inf.l1, k)
            IN  [st |-> base.st, cells |-> base.cells \o [i \in 1..(n - k) |-> 0]]
      [] OTHER -> Extracts(s, l, 0, n)

UnionStore(s, l, n) ==
    LET inf == s.info[l] IN
    CASE l = 0 -> [st |-> s, cells |-> [i \in 1..n |-> 0]]
      [] n = 1 /\ inf.size = 8 -> [st |-> s, cells |-> <<l>>]
      [] inf.op = "Load" -> [st |-> s, cells |-> [i \in 1..n |-> inf.l1 + (i - 1)]]
      [] inf.op = "Concat" /\ n * 8 = inf.size ->
            LET k == s.info[inf.l2].size \div 8
                hi == UnionStore(s, inf.l2, k)
                lo == UnionStore(hi.st, inf.l1, n - k)
            IN  [st |-> lo.st, cells |-> lo.cells \o hi.cells]
      [] inf.op = "ZExt" /\ s.info[inf.l1].size % 8 = 0 ->
            LET k == s.info[inf.l1].size \div 8
                base == UnionStore(s, inf.l1, k)
            IN  [st |-> base.st, cells |-> base.cells \o [i \in 1..(n - k) |-> 0]]
      [] OTHER -> Extracts(s, l, 0, n)

(***************************************************************************)
(* Fast path 2 of union_load: the bits covered by the longest prefix of    *)
(* cells that are consecutive Extracts of parent (the loop's break).       *)
(***************************************************************************)
RECURSIVE ExtractRun(_, _, _, _, _)
ExtractRun(s, ls, parent, i, off) ==
    IF i > Len(ls) THEN off
    ELSE LET inf == s.info[ls[i]] IN
         IF inf.op = "Extract" /\ inf.op2 = off /\ inf.l1 = parent
         THEN ExtractRun(s, ls, parent, i + 1, off + inf.size)
         ELSE off

(***************************************************************************)
(* Shape fast path: Load(label0, load_size) when more than one byte, then  *)
(* one Concat per constant cell with that cell's concrete byte, taking     *)
(* the constants to sit at positions load_size, load_size+1, ...          *)
(***************************************************************************)
RECURSIVE ShapeExt(_, _, _, _, _, _)
ShapeExt(s, ret, cs, loadSize, i, ext) ==
    IF i >= ext THEN [st |-> s, l |-> ret]
    ELSE LET c == TaintUnion(s, ret, 0, "Concat", (loadSize + i + 1) * 8,
                             0, cs[loadSize + i + 1])
         IN  ShapeExt(c.st, c.l, cs, loadSize, i + 1, ext)

ShapeLoad(s, l0, cs, loadSize, ext) ==
    LET base == IF loadSize > 1
                THEN TaintUnion(s, l0, loadSize, "Load", loadSize * 8, 0, 0)
                ELSE [st |-> s, l |-> l0]
    IN  ShapeExt(base.st, base.l, cs, loadSize, 0, ext)

(***************************************************************************)
(* Slow path of union_load from cell i (0-based): a labelled cell that     *)
(* fits is concatenated whole, one that does not is truncated and ends    *)
(* the load, a constant cell is concatenated with its concrete byte.  A    *)
(* union that exhausts the store ends the process (Die()).                 *)
(***************************************************************************)
RECURSIVE SlowLoad(_, _, _, _, _)
SlowLoad(s, ls, cs, label, i) ==
    LET n == Len(ls) IN
    IF i >= n \/ s.dead THEN [st |-> s, l |-> label]
    ELSE LET next == ls[i + 1]
             nsize == s.info[next].size
         IN  IF next # 0
             THEN IF nsize <= (n - i) * 8
                  THEN LET j == i + nsize \div 8
                           c == TaintUnion(s, label, next, "Concat", j * 8, 0, 0)
                       IN  SlowLoad(c.st, ls, cs, c.l, j)
                  ELSE LET t == TaintUnion(s, next, 0, "Trunc", (n - i) * 8, 0, 0)
                       IN  TaintUnion(t.st, label, t.l, "Concat", n * 8, 0, 0)
             ELSE LET c == TaintUnion(s, label, 0, "Concat", (i + 1) * 8, 0, cs[i + 1])
                  IN  SlowLoad(c.st, ls, cs, c.l, i + 1)

(***************************************************************************)
(* __taint_union_load(ls, n): all-constant, shape, common-Extract and slow *)
(* paths in that order.  The shape test compares op1 of every labelled     *)
(* cell with the file offset of label0 + i, and counts every constant      *)
(* cell as an extension byte.                                              *)
(***************************************************************************)
UnionLoad(s, ls, cs) ==
    LET n == Len(ls)
        l0 == ls[1]
        i0 == s.info[l0]
        shape == /\ i0.op = "Input"
                 /\ \A i \in 2..n : ls[i] = 0 \/ s.info[ls[i]].op1 = i0.op1 + (i - 1)
        ext == Cardinality({i \in 2..n : ls[i] = 0})
    IN  CASE \A i \in 1..n : ls[i] = 0 -> [st |-> s, l |-> 0]
          [] shape /\ n = 1 -> [st |-> s, l |-> l0]
          [] shape -> ShapeLoad(s, l0, cs, n - ext, ext)
          [] i0.op = "Extract" /\ s.info[i0.l1].size = ExtractRun(s, ls, i0.l1, 1, 0)
                -> [st |-> s, l |-> i0.l1]
          [] OTHER -> SlowLoad(s, ls, cs, l0, i0.size \div 8)

-----------------------------------------------------------------------------
(***************************************************************************)
(* Meaning of labels: the byte terms serialize() builds for a label.       *)
(***************************************************************************)
In(o) == [k |-> "in", v |-> o]
Cst(v) == [k |-> "const", v |-> v]
Opq(l, j) == [k |-> "op", v |-> <<l, j>>]
Bad == [k |-> "bad", v |-> 0]

ConstBytes(v, k) == [i \in 1..k |-> Cst((v \div (256 ^ (i - 1))) % 256)]

RECURSIVE Bytes(_, _)
Bytes(s, l) ==
    LET r == s.info[l]
        Part(x, c, w) == IF x >= CONST_OFFSET THEN Bytes(s, x) ELSE ConstBytes(c, w)
    IN  CASE r.op = "Input" -> <<In(r.op1)>>
          [] r.op = "Load" -> [i \in 1..r.l2 |-> In(s.info[r.l1].op1 + (i - 1))]
          [] r.op = "Concat" ->
                Part(r.l1, r.op1, (r.size - s.info[r.l2].size) \div 8)
                  \o Part(r.l2, r.op2, (r.size - s.info[r.l1].size) \div 8)
          [] r.op = "Extract" ->
                LET b == Bytes(s, r.l1) IN
                IF r.op2 % 8 = 0 /\ r.op2 \div 8 < Len(b) THEN <<b[r.op2 \div 8 + 1]>>
                ELSE <<Bad>>
          [] r.op = "Trunc" -> SubSeq(Bytes(s, r.l1), 1, r.size \div 8)
          [] r.op = "ZExt" ->
                Bytes(s, r.l1) \o [i \in 1..((r.size - s.info[r.l1].size) \div 8) |-> Cst(0)]
          [] OTHER -> [j \in 1..(r.size \div 8) |-> Opq(l, j)]

\* What the application bytes a..a+n-1 hold: their label's bytes, or the concrete byte
\* (Bad for a label narrower than a byte).
CellBytes(s, sh, m, a, n) ==
    [i \in 1..n |-> LET b == Bytes(s, sh[a + i - 1]) IN
                    CASE sh[a + i - 1] = 0 -> Cst(m[a + i - 1])
                      [] b = <<>> -> Bad
                      [] OTHER -> b[1]]


\* What label l, or the concrete bytes conc of a wholly concrete value, mean.
Meaning(s, l, conc) == IF l = 0 THEN [i \in 1..Len(conc) |-> Cst(conc[i])] ELSE Bytes(s, l)

-----------------------------------------------------------------------------
ShadowSeq(a, n) == [i \in 1..n |-> shadow[a + i - 1]]
MemSeq(a, n) == [i \in 1..n |-> mem[a + i - 1]]
Put(f, a, vals) == [x \in DOMAIN f |-> IF a <= x /\ x < a + Len(vals)
                                       THEN vals[x - a + 1] ELSE f[x]]

(***************************************************************************)
(* The program stores value l (concrete bytes conc when l = 0) at          *)
(* a..a+n-1: the instrumented store calls __taint_union_store(l,           *)
(* shadow_for(a), n), which writes the shadow cells through ls (for l = 0  *)
(* its constant fast path zeroes them), and the store writes the concrete  *)
(* bytes; a byte whose cell is now constant holds the constant the label   *)
(* denotes there.                                                          *)
(***************************************************************************)
Commit(s, l, a, n, conc) ==
    LET w == UnionStore(s, l, n)
        b == Meaning(w.st, l, conc)
        byte(i) == IF w.cells[i] = 0 /\ i <= Len(b) /\ b[i].k = "const"
                   THEN b[i].v ELSE mem[a + i - 1]
    IN  /\ info' = w.st.info
        /\ last' = w.st.last
        /\ table' = w.st.table
        /\ dead' = w.st.dead
        /\ shadow' = IF w.st.dead THEN shadow ELSE Put(shadow, a, w.cells)
        /\ mem' = Put(mem, a, [i \in 1..n |-> byte(i)])

Fits(a, n) == a + n <= MemSize

(* A taint source (read interceptor) marks byte a with input offset o:    *)
(* __dfsan_set_label(label, addr, 1) writes the cell unless already equal. *)
TaintByte(a, o) ==
    /\ ~dead
    /\ shadow' = [shadow EXCEPT ![a] = InputLabel(o)]
    /\ UNCHANGED <<info, last, table, dead, mem>>

(***************************************************************************)
(* dfsan_add_label(label, op, addr, n): each of the n cells becomes        *)
(* __taint_union(cell, label, op, 1, 0, 0), a label of size 1, in          *)
(* increasing address order.  The operator is the caller's; Add stands     *)
(* for it (any operator other than Concat, Extract and Load behaves the   *)
(* same in the runtime).                                                   *)
(***************************************************************************)
RECURSIVE AddUnions(_, _, _, _)
AddUnions(s, cur, label, i) ==
    IF i > Len(cur) THEN [st |-> s, cells |-> <<>>]
    ELSE LET u == TaintUnion(s, cur[i], label, "Add", 1, 0, 0)
             rest == AddUnions(u.st, cur, label, i + 1)
         IN  [st |-> rest.st, cells |-> <<u.l>> \o rest.cells]

AddLabel(label, a, n) ==
    /\ ~dead
    /\ LET u == AddUnions(St, ShadowSeq(a, n), label, 1) IN
       /\ info' = u.st.info
       /\ last' = u.st.last
       /\ table' = u.st.table
       /\ dead' = u.st.dead
       /\ shadow' = IF u.st.dead THEN shadow ELSE Put(shadow, a, u.cells)
    /\ UNCHANGED mem

(* dfsan_read_label(addr, n): union_load of the n cells; the label goes    *)
(* to the caller, the allocations it made stay.                            *)
ReadLabel(a, n) ==
    /\ ~dead
    /\ LET ld == UnionLoad(St, ShadowSeq(a, n), MemSeq(a, n)) IN
       /\ info' = ld.st.info
       /\ last' = ld.st.last
       /\ table' = ld.st.table
       /\ dead' = ld.st.dead
    /\ UNCHANGED <<shadow, mem>>

(* An n-byte store of a concrete value: union_store(0, ls, n).              *)
StoreConst(a, n, conc) ==
    /\ ~dead
    /\ Commit(St, 0, a, n, conc)

(* An n-byte integer load followed by a store of the loaded value.          *)
LoadStore(src, dst, n) ==
    /\ ~dead
    /\ LET ld == UnionLoad(St, ShadowSeq(src, n), MemSeq(src, n))
       IN  Commit(ld.st, ld.l, dst, n, MemSeq(src, n))

(* An n-byte load, an addition of constant c (__taint_union(v, 0, Add,     *)
(* n*8, 0, c)) and a store of the sum; a concrete sum is any byte string.  *)
AddStore(src, dst, n, c) ==
    /\ ~dead
    /\ LET ld == UnionLoad(St, ShadowSeq(src, n), MemSeq(src, n))
           r == TaintUnion(ld.st, ld.l, 0, "Add", n * 8, 0, c)
       IN  \E conc \in IF r.l = 0 THEN [1..n -> ByteVal] ELSE {MemSeq(dst, n)} :
              Commit(r.st, r.l, dst, n, conc)

(* A one-byte load zero-extended to two bytes and stored.                   *)
ZExtStore(src, dst) ==
    /\ ~dead
    /\ LET ld == UnionLoad(St, ShadowSeq(src, 1), MemSeq(src, 1))
           z == TaintUnion(ld.st, ld.l, 0, "ZExt", 16, 0, 0)
       IN  Commit(z.st, z.l, dst, 2, <<mem[src], 0>>)

(* After Die() on label exhaustion, or at the end of the bounded run,       *)
(* nothing more happens.                                                    *)
Halted ==
    /\ dead \/ steps = MaxSteps
    /\ UNCHANGED vars

Init ==
    /\ info = InitInfo
    /\ last = CONST_OFFSET + FileSize - 1
    /\ table = {}
    /\ dead = FALSE
    /\ shadow = [a \in Addr |-> 0]
    /\ mem = [a \in Addr |-> 0]
    /\ steps = 0

Step ==
    \/ \E a \in Addr, o \in 0..(FileSize - 1) : TaintByte(a, o)
    \/ \E n \in AccessSizes, a \in Addr :
          /\ Fits(a, n)
          /\ \E conc \in [1..n -> ByteVal] : StoreConst(a, n, conc)
    \/ \E n \in AccessSizes, src, dst \in Addr :
          /\ Fits(src, n) /\ Fits(dst, n)
          /\ \/ LoadStore(src, dst, n)
             \/ \E c \in AddConsts : AddStore(src, dst, n, c)
    \/ \E src, dst \in Addr : Fits(dst, 2) /\ ZExtStore(src, dst)
    \/ \E n \in AccessSizes, a \in Addr :
          /\ Fits(a, n)
          /\ \/ n \in AddLabelSizes /\ \E o \in 0..(FileSize - 1) : AddLabel(InputLabel(o), a, n)
             \/ ReadLabel(a, n)

Next ==
    \/ steps < MaxSteps /\ Step /\ steps' = steps + 1
    \/ Halted

Spec == Init /\ [][Next]_vars

-----------------------------------------------------------------------------
Record == [l1 : Labels, l2 : Labels, op : Ops, size : {0, 1, 8, 16, 24, 32},
           op1 : Nat, op2 : Nat]

TypeOK ==
    /\ info \in [Labels -> Record]
    /\ last \in CONST_OFFSET + FileSize - 1..LabelCap + 1
    /\ table \subseteq CONST_OFFSET + FileSize..last
    /\ \A l \in (last + 1)..LabelCap : info[l] = ZeroRecord
    /\ dead \in BOOLEAN
    /\ shadow \in [Addr -> 0..LabelCap]
    /\ mem \in [Addr -> ByteVal]
    /\ steps \in 0..MaxSteps

(* Result of a union_load of a..a+n-1 done now, and what it denotes.        *)
LoadNow(a, n) == UnionLoad(St, ShadowSeq(a, n), MemSeq(a, n))
LoadMeaning(a, n) ==
    LET ld == LoadNow(a, n) IN Meaning(ld.st, ld.l, MemSeq(a, n))

(***************************************************************************)
(* A label is well formed (spec section 3) when its operands are well      *)
(* formed, a Load starts at an input-byte label and stays inside the file, *)
(* and its bytes have the label's width with no extract out of range.      *)
(***************************************************************************)
RECURSIVE WellFormed(_, _)
WellFormed(s, l) ==
    LET r == s.info[l]
        Sub(x) == x < CONST_OFFSET \/ WellFormed(s, x)
        b == Bytes(s, l)
    IN  /\ Len(b) * 8 = r.size
        /\ \A i \in 1..Len(b) : b[i] # Bad
        /\ CASE r.op = "Input" -> l >= CONST_OFFSET
             [] r.op = "Load" -> /\ r.l1 >= CONST_OFFSET
                                 /\ s.info[r.l1].op = "Input"
                                 /\ s.info[r.l1].op1 + r.l2 <= FileSize
             [] OTHER -> Sub(r.l1) /\ Sub(r.l2)

(***************************************************************************)
(* Round trip (spec 8.4): storing any well-formed label of n bytes with    *)
(* union_store and loading the n cells it wrote with union_load gives a    *)
(* label that denotes the same bytes, through all of union_store's and     *)
(* union_load's fast paths.                                                *)
(***************************************************************************)
ConstsOf(b) == [i \in 1..Len(b) |-> IF b[i].k = "const" THEN b[i].v ELSE 0]

RoundTrip ==
    ~dead =>
        \A l \in CONST_OFFSET..last, n \in AccessSizes :
            info[l].size = n * 8 /\ WellFormed(St, l) =>
                LET cs == ConstsOf(Bytes(St, l))
                    w == UnionStore(St, l, n)
                    ld == UnionLoad(w.st, w.cells, cs)
                IN  ld.st.dead \/ Meaning(ld.st, ld.l, cs) = Bytes(St, l)

(***************************************************************************)
(* union_store distributes a value over its cells (spec 4.4): for every    *)
(* well-formed label of n bytes, the n cells union_store writes, read with *)
(* the concrete bytes the program stores alongside, denote the label's     *)
(* bytes, through the Load, Concat, ZExt and Extract paths and their       *)
(* recursion.                                                              *)
(***************************************************************************)
StoreSound ==
    ~dead =>
        \A l \in CONST_OFFSET..last, n \in AccessSizes :
            info[l].size = n * 8 /\ WellFormed(St, l) =>
                LET cs == ConstsOf(Bytes(St, l))
                    w == UnionStore(St, l, n)
                IN  w.st.dead \/
                    [i \in 1..n |-> IF w.cells[i] = 0 THEN Cst(cs[i])
                                    ELSE Bytes(w.st, w.cells[i])[1]] = Bytes(St, l)

(***************************************************************************)
(* Which path of union_load a load of a..a+n-1 done now takes.            *)
(***************************************************************************)
LoadPath(a, n) ==
    LET ls == ShadowSeq(a, n)
        i0 == info[ls[1]]
    IN  CASE \A i \in 1..n : ls[i] = 0 -> "const"
          [] i0.op = "Input" /\ \A i \in 2..n : ls[i] = 0 \/ info[ls[i]].op1 = i0.op1 + (i - 1)
                -> "shape"
          [] i0.op = "Extract" /\ info[i0.l1].size = ExtractRun(St, ls, i0.l1, 1, 0)
                -> "extract"
          [] OTHER -> "slow"

\* A load of a..a+n-1 done now along path p denotes the n cells' bytes
\* (along the shape path, for loads whose first cell is labelled).
PathSound(p) ==
    ~dead =>
        \A n \in AccessSizes, a \in Addr :
            /\ Fits(a, n)
            /\ LoadPath(a, n) = p
            /\ p = "shape" => shadow[a] # 0
            /\ ~LoadNow(a, n).st.dead
            =>
                LoadMeaning(a, n) = CellBytes(St, shadow, mem, a, n)

(***************************************************************************)
(* Shape fast path (spec 4.4): a load whose first cell is labelled         *)
(* collapses to Load(base, k) only when its cells are consecutive input    *)
(* bytes, with constant bytes only after them; the result denotes the     *)
(* loaded bytes.  (A constant first cell is RoundTrip's case.)             *)
(***************************************************************************)
ShapePathSound == PathSound("shape")

(***************************************************************************)
(* Common-extract fast path (spec 4.4): a load returns the parent of its   *)
(* Extract cells only when they cover the parent's full width, so the      *)
(* result denotes the n loaded bytes.                                      *)
(***************************************************************************)
ExtractPathSound == PathSound("extract")

(***************************************************************************)
(* Slow path (spec 4.4): concatenating labelled cells and the concrete     *)
(* bytes of constant cells denotes the loaded bytes.                       *)
(***************************************************************************)
SlowPathSound == PathSound("slow")

(***************************************************************************)
(* Spec 4.4: union_load consumes the cells, each Concat of the slow path   *)
(* taking in at least one whole cell, so a load of n cells allocates at    *)
(* most n labels, and dies of exhaustion only when fewer than n are left.  *)
(* A load that went on allocating without consuming a cell would exhaust   *)
(* the label store by itself.                                              *)
(***************************************************************************)
LoadBounded ==
    ~dead =>
        \A n \in AccessSizes, a \in Addr :
            Fits(a, n) =>
                LET ld == LoadNow(a, n) IN
                IF ld.st.dead THEN last + n > LabelCap ELSE ld.st.last <= last + n

=============================================================================

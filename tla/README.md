# TLA+ models of the fastgen taint runtime

These modules model the taint-tracking runtime in
`src/llvm_mode/dfsan_rt/dfsan/dfsan.cc`. It is a DataFlowSanitizer runtime
extended with symbolic labels, a branch filter and a hand-off to an external
solver. They are checked with TLC. `PROJECT.json` lists:

- every component;
- every run and what it shows;
- the seeded faults (mutants) that show each checked property can fail;
- the source lines each definition translates;
- the findings;
- the hazards of the code.

## The system

One file holds the whole runtime. Its parts, using the numbering of `spec.md`:

| Part | Code | State |
|------|------|-------|
| C1 label store | `__dfsan_label_info` (a SysV shared segment, `shmget(0x1234)`), `__dfsan_last_label`, `dfsan_create_label`, `dfsan_check_label` | records `(l1, l2, op, size, op1, op2, flags, expr, deps)` |
| C2 union hash-cons | `__taint_union`, `__union_table` | table of allocated records |
| C3/C4 shadow memory, propagation | `__taint_union_load`, `__taint_union_store`, `__dfsan_set_label`, `dfsan_add_label` | one label per application byte |
| C9 exploration filter | `__taint_trace_cond`, `__taint_trace_cmp`, `__branches`, redis `CTX_FILTER` | per-process counters, a key/value store shared by all runs |
| solver hand-off | `__solve_cond` up to its `return` at line 998 | the `/tmp/wp` pipe |
| C6 accumulator | `__branch_deps`, built by `__taint_trace_gep` | per-offset dependency trees |
| C5 serializer | `serialize`, `cache_expr` | memoised `expr`/`deps` in the records |
| C7/C8 solver and synthesis | rest of `__solve_cond`, `generate_input` | dead code in the build |
| C10 lifecycle | `dfsan_init`, `InitializeTaintFile`, `dfsan_fini` | seeding of input labels, pipe, shm |
| taint source | `tainted`, `taint_set_file`, `taint_get_file`, `taint_close_file`, `is_taint_file`, utmp setters | which descriptor reads as the input file |

How the parts interact:

- The instrumented program calls `union`, `union_load`, `union_store` and
  `set_label` on every operation, load and store.
- A tainted branch calls `trace_cond`/`trace_cmp`. These count occurrences per
  (callstack, site), consult the redis key `hash(site, callstack, order) +
  "sqlite"`, set it and hand the label to `__solve_cond`.
- As built, `__solve_cond` prints the label, writes its id to the pipe and
  returns. An external reader (not in the repository) reads the record from the
  shared label store.
- `trace_gep` serializes its index label and merges the trees of the offsets it
  depends on.
- The libc interceptors (not in the repository) call `taint_set_file` on
  `open`, `taint_close_file` on `close` and `taint_get_file` on `read`. A
  nonzero `taint_get_file` makes the read label the bytes it returns.

The hard behaviours:

- several application threads call the callbacks with no lock;
- successive runs share the redis store and the label segment;
- a run may die (label exhaustion) between two steps of a callback;
- the fast paths of `union_load`/`union_store` must agree with each other and
  with the byte meaning of labels;
- the tree merge must keep the trees a partition while re-pointing offsets.

## Modules

### Propagation (C1, C2, C3/C4, the meaning part of C5)

**State.** The variables are:

| Variable | Code |
|----------|------|
| `info` | `__dfsan_label_info` |
| `last` | `__dfsan_last_label` |
| `table` | the labels inserted into `__union_table` |
| `dead` | `Die()` was called |
| `shadow` | the shadow cells |
| `mem` | concrete application bytes, which `app_for` reads in `union_load` |
| `steps` | the run bound |

**Operators.** The runtime operations are operators over a record
`st = [info, last, table, dead]`:

- `TaintUnion` is `__taint_union`.
- `UnionStore` and `Extracts` are `__taint_union_store`.
- `UnionLoad`, `ShapeLoad`, `ShapeExt`, `ExtractRun` and `SlowLoad` are
  `__taint_union_load`.

Nested unions, recursion and allocation order are therefore those of the code.

**Actions.** Each action is one instrumented instruction sequence of a single
application thread:

- `TaintByte` (a read interceptor calling `__dfsan_set_label`);
- `StoreConst`;
- `LoadStore`;
- `AddStore`;
- `ZExtStore`;
- `AddLabel` (`dfsan_add_label`: each cell becomes a size-1 union of the
  cell's label and the given label, through `AddUnions`);
- `ReadLabel` (`dfsan_read_label`: a `union_load` whose result goes to the
  caller and whose allocations stay);
- `Halted` (after `Die()`, or at the end of the bounded run).

Every store goes through `Commit`. It is the instrumented store, which calls
`__taint_union_store(l, shadow_for(addr), n)` directly (lines 409-427 write
the cells through `ls`; the constant label zeroes them), and it writes the
concrete bytes. This is not `dfsan_store_label`, which returns early for
label 0 (line 481).

**Meaning of labels.** `Bytes(st, l)` is the little-endian list of byte terms a
label denotes, as `serialize` builds its expression. A byte term is an input
byte, a constant byte, or byte j of an opaque arithmetic result. `WellFormed`
is the label invariant of spec section 3.

**Properties.** Most are checked on hypothetical operations evaluated in the
current state (store every label, load every range):

| Property | Says |
|----------|------|
| `TypeOK` | includes that the bump allocator never writes a record past `last` and that the table holds only allocated labels |
| `StoreSound` | the cells `union_store` writes denote the stored label's bytes |
| `RoundTrip` | storing then loading a label gives the same bytes (spec 8.4) |
| `ShapePathSound`, `ExtractPathSound`, `SlowPathSound` | a load along that fast path denotes the loaded cells |
| `LoadBounded` | a load of n cells allocates at most n labels, and dies of exhaustion only when fewer than n are free (spec 4.4: the slow path consumes whole sub-labels) |

A union that exhausts the store ends the process, so `SlowLoad` stops once the
state is dead, as `Die()` does. `fetch_add` has already bumped the counter,
so `last` is left at `LabelCap + 1`. The `Die` callback `dfsan_fini` dumps
labels `1..last` when `dump_labels_at_exit` is set, and so reads one record
past the store. That read changes no state, and no property checks it.

### UnionRace (C2 under threads)

One `__taint_union` call that misses the constant shortcut is split into the
steps other threads can run between. No lock is taken in any of them:

| Action | Code | Effect |
|--------|------|--------|
| `Lookup` | lines 256-277, `__union_table.lookup` | a hit returns the label found |
| `Alloc` | `atomic_fetch_add` and `dfsan_check_label` | takes `last + 1`; past `LabelCap` the process dies |
| `Write` | `internal_memcpy` of the record | fills the label's slot |
| `Insert` | `__union_table.insert` | publishes the label |
| `Return` | the caller resumes | the thread may call again |

A record is a model value. Lookup and insert (in `union_hashtable.h`, which is
not in the repository) follow spec 4.2.

**Properties.**

- `ResultFaithful` is spec 4.2's minimum contract: a returned label names the
  caller's record. It holds because `fetch_add` never hands out a label twice
  and the insert comes after the copy.
- `ImplementsLabelStore` is a refinement. `LabelStore` is the abstract store
  of spec 4.1-4.2, in which a call is one atomic step: find a label that holds
  the record, or give a fresh label the record, or die on exhaustion. Records
  are never overwritten.
  - `UnionRace` instantiates it with a refinement mapping. A thread in `alloc`
    or `write` is a call waiting for a fresh label, and the record copy
    (`Write`) is the step that gives it one. `Alloc` and `Insert` are
    invisible to callers.
  - `LabelStore` requires a waiting call to be served while fresh labels
    remain (`WF` of `Create`). So the refinement also checks liveness: every
    call that missed in the table returns a label or the process dies.

Duplicate labels for equal records are allowed by spec 4.2's minimum
contract, and two threads do produce them. Spec section 5 asks for them to be
avoided; this is not checked by a run, because every caller still receives
its own record.

### BranchFilter (C9 and the hand-off)

One callback, `trace_cond` or `trace_cmp` with a nonzero label, is split into
the steps that are separate memory or network operations:

| Action | Code | Effect |
|--------|------|--------|
| `Enter` | `__branches.find` | reads the counter |
| `Count` | `insert` or `++`, or return at the cap | writes the counter and takes the order |
| `KvGet` | `redis.get` | a present key returns |
| `KvSet` | `redis.set` | sets the key to explored |
| `Solve` | `__solve_cond` | writes to the pipe |
| `NewRun` | process exit and restart | a fresh `__branches`; the store survives; in-flight callbacks are lost |

`pc` and `ctx` are the thread-local control state. `sent` counts
pipe writes per context over all runs. The 64-bit context
hash is taken as injective.

**Property.** `SolvedOnce`: across runs, a context reaches the solver at
most once (spec 4.9, scenario 6). The per-run cap of `MAX_BRANCH_COUNT` at
line 1285 is part of `TypeOK` (the counter's range). With one thread it
cannot be broken otherwise, and with two threads the race breaks
`SolvedOnce` first.

### Serializer (C5, the dependency sets)

`serialize` is the RECURSIVE operator `serialize(c, l, D)`, where:

- `c` is the memo: a partial function from label to `info->deps`, whose domain
  is the labels with `info->expr` set;
- `D` is the caller's `deps` set;
- the result is `[cache, deps, ok]`, with `ok` FALSE for a `z3::exception`.

Every branch keeps the code's order and sharing of sets:

- Input labels are not memoised.
- Load, ZExt and Neg pass the caller's set through and memoise it with
  `CacheExpr` (`cache_expr`).
- `fmemcmp` serializes both operands into the caller's set and memoises
  nothing.
- A common op (`Operands`) serializes `op1` into the caller's set and `op2`
  into a fresh `deps2`.
- An unsupported operator throws after its operands were memoised.

The z3 terms are abstracted away.

Init picks every DAG of derived records over earlier labels. A Load covers
consecutive input labels of the file, as the load path builds it. The action
`SerializeIndex` is `trace_gep`'s call with a fresh set, for any nonzero label
(input labels included) until it is B_FLIPPED, in any order. `TrueDeps` is the reference definition: the
input offsets a record's meaning depends on.

**Properties.**

- `DepsCover`: reported and memoised deps include `TrueDeps`, so trace_gep
  never misses a tree it must merge.
- `DepsExact`: they equal `TrueDeps` (spec section 3). It fails: `fmemcmp`
  serializes its second operand into the set that already holds the first
  operand's offsets (line 747), and the operand memoises that set.

### Accumulator (C6, the trees)

**State.** The variables are:

| Variable | Code |
|----------|------|
| `ptr` | `__branch_deps`, offset to tree id |
| `trees` | id to `[exprs, deps]` |

**Operators.**

- `MergeStep` is one iteration of the tree-building loop (lines 1389-1406).
- `RecordGep(l, r, D)` is the whole `RESTRICT_CONSTRAINT` block (lines
  1386-1413). It folds `MergeStep` over every order in which the
  `unordered_set` of inputs can be visited (`SetToSeqs`, `FoldLeft`). It then
  inserts `index == r` into `the_tree` and adds the inputs to its deps. With no
  inputs `the_tree` stays null.
- `InitTrees` is the vector of null pointers `InitializeTaintFile` creates.

The module has no `Next` of its own. GepPipeline drives it.

**Property.** `TreesPartition`: the trees form a partition of the offsets.
What the trees must mean is stated against ConstraintGroups (below).

### ConstraintGroups (the promise of C6, spec 4.6)

The abstract specification of the accumulator, with no trees or pointers.
`group[o]` is the set of offsets `o` has been merged with, `cons[o]` the
constraints that group holds. `Record(e, D)` unions the groups of the offsets
in `D` and gives the result every constraint of the merged groups plus `e`.
It is written from the spec, not from code, and has no map entry.

### GepPipeline (C5 and C6 composed: `__taint_trace_gep`)

`GepPipeline` instantiates Serializer (`S`) and Accumulator (`A`, with the
file's offsets and labels) over shared variables. `TraceGep(l, r)` is lines
1326-1430:

1. The label must not be B_FLIPPED. Labels start at 1, so label 0's early
   return never applies.
2. `S!serialize(cache, l, {})` runs, and its memo entries are kept whatever
   happens.
3. On a `z3::exception` nothing else changes: the `catch` only reports.
4. Otherwise, with `__solver_select` 0, `A!RecordGep` records the constraint.
   With it set, the hand-off is commented out and nothing is recorded.
5. `B_FLIPPED` is set last, inside the `try`.

`select` is chosen at Init and never changes (`flags().solver_select`).

**Property.** `IndexConstraintReachable` states the end-to-end promise. A
B_FLIPPED label is never looked at again, so with `__solver_select` 0 its
`index == r` must already be in the tree of every input offset it truly
depends on (`S!TrueDeps`). This holds whatever geps, memo hits, exceptions and
merges came before. It needs the serializer (deps cover), the merge (nothing
lost) and the `B_FLIPPED` placement (not set on a throw) to be right together.

**Refinement.** `ImplementsConstraintGroups` checks `G!Spec`, where `G`
instantiates ConstraintGroups with the mapping
`group[o] = trees[ptr[o]].deps` and `cons[o] = trees[ptr[o]].exprs`, or `{o}`
and `{}` for a null pointer. Every `TraceGep` must be one `Record` over the
inputs `serialize` reported, or a stutter. This has to hold in whatever order
the `unordered_set` is visited and with the leaked trees whose ids are reused.
A merge that forgets to re-point one offset of a merged tree leaves that
offset's group stale, and the next step is no `Record`.

### TaintFile (the taint source)

**State.** The variables are:

| Variable | Code |
|----------|------|
| `mode` | the `taint_file` flag: "stdin", "" or a path |
| `tainted` | `static struct taint_file tainted` (line 78): `fd`, `size`, `is_stdin`, `is_utmp`, `offset`, `offset_label`, plus `named` for a `filename` that holds the real path |
| `os` | the process's descriptor table: each one is open on the input, on stdin, on another file, or closed |

**Init and actions.**

- Init is `InitializeTaintFile` for each flag value. For "stdin", stdin is
  either a regular file or closed (fstat fails). When fstat succeeds the
  runtime maps a copy of fd 0. For a pipe or an empty file that `mmap` fails
  and the process dies (line 1549), so those states never run. For a path,
  realpath may fail.
- The struct starts zeroed, as static storage is. The path branch never
  assigns `fd`, so it stays 0.
- Each action is an OS call together with the runtime entry point its
  interceptor calls:
  - `Open(obj)`: the kernel's lowest free descriptor, then `taint_set_file`;
  - `Close(d)`: `close`, then `taint_close_file`;
  - `IsTaintFile`, `SetUtmpOffset`, `SetOffsetLabel`.
- The interceptors are not in the repository. The model assumes only this
  protocol, which is the one the entry points' names and arguments imply.

A path is "input", "other" or "vanished". A vanished path is another file
that was unlinked between the `open` and the runtime's `realpath`.
`taint_set_file` and `is_taint_file` ignore realpath's result, so for such a
path they compare the uninitialised `path[]` buffer. That buffer may still
hold the taint file's real path from an earlier call, or an empty string
equal to a filename that was never set. `Matches` gives both outcomes.

**Property.** `TaintSourceExact`: an open descriptor reads as tainted
(`taint_get_file` nonzero) exactly when it is open on the taint source. It
fails in several ways:

- It fails in the initial state of path mode: `fd` is 0, so stdin reads as
  the file (the run's trace, line 1558).
- With stdin closed in stdin mode, the first `open` gets descriptor 0 and
  reads as tainted (fd 0 at line 1539, size 1 at line 1553).
- If realpath of the flag fails, the size stays 0 and the file is never
  recognised when it is opened (line 1559).
- A second open of the file overwrites `fd`, so the first descriptor loses
  taint (line 1443).
- The `open` of a vanished file can be recorded as the taint file (line 1441).

TLC reports only the first. With the `fd` bug patched (path mode sets `fd`
to -1), each of the other four is still found when the ones before it are
excluded from Init or from the paths.

## Runs and what they show

| Run | Expect | Shows |
|-----|--------|-------|
| `propagation` | pass | `TypeOK`, `StoreSound` hold for every 4-step program, `dfsan_add_label` and `dfsan_read_label` included (62,984 states) |
| `roundtrip` | violation | store/load of `Concat(0, in1)` loads back `Load(0, 2)`: constant label 0 is taken as a shape base (line 327) |
| `shape_hole` | violation | cells `[in0, 0, in2]` load as `in0, in1, C`: a constant hole is counted as a trailing byte (line 335) |
| `extract_partial` | violation | a 3-byte load over two extracts of a 16-bit label returns the 16-bit label (line 375) |
| `slow_const_first` | violation | a constant first cell's concrete byte is dropped by the slow path (line 383) |
| `add_label_load` | violation | after `dfsan_add_label` on one cell, a 1-byte read of it allocates Concat labels until `Die()` with 3 of 4 labels free: `i += 1 / 8` never advances (line 390) |
| `filter` | pass | one thread, three runs sharing the store: `SolvedOnce` holds (525k states) |
| `filter_threads` | violation | two threads, no lock: the same context is sent twice (spec section 5 requires a mutex) |
| `union_race` | pass | two threads, two records, room for 3 labels: `ResultFaithful` and the refinement `ImplementsLabelStore`, liveness included (1,507 states) |
| `serializer_memcmp` | violation | `fmemcmp(in1, Load(in0, 1))` makes the Load memoise `{0, 1}` (lines 747, 659) |
| `gep_pipeline` | pass | `__taint_trace_gep` end to end over every label store of a 3-byte file with 2 derived labels, every call order, both `__solver_select` values: `DepsCover`, `TreesPartition`, `IndexConstraintReachable`, and the refinement `ImplementsConstraintGroups` (322,468 states, about 75 s) |
| `taint_file` | violation | `TaintSourceExact`: with a path, `tainted.fd` is left 0, so `taint_get_file(0)` returns the file's size while descriptor 0 is stdin (line 1558) |

Every property of a passing run has a mutant in `PROJECT.json`. Each is an
operator placed just before the definition it replaces and marked "Seeded
fault", and TLC finds the property violated with it:

- a Concat stored with high and low parts swapped;
- a memo hit that does not add the cached deps;
- a union that does not bump the counter (in Propagation and in UnionRace);
- the branch cap tested with `<=`;
- the redis reply ignored;
- offsets of a merged tree not re-pointed (breaks `ImplementsConstraintGroups`);
- inputs not added to the tree's deps;
- B_FLIPPED set on an exception (breaks `IndexConstraintReachable`).

## Bounds and why they are enough

**Propagation** uses:

- a 2-byte file and 3 shadow cells;
- access widths 1 to 3 bytes and byte values {0, 1};
- additions of the constant 1;
- room for 4 labels beyond the input labels;
- runs of 4 instrumented steps in the `propagation` run, and of 5 in the
  violation runs that use the `MC_` constants.

Three cells with 3-byte loads reach every path of `union_load`: all-constant,
shape with and without extension, the extract path, and the slow path with
whole, truncated and constant cells. They also reach every fast path of
`union_store`, including a Concat whose parts recurse into Load and Extract
stores.

The constant 1 equals an input offset, which is what the op1 collision needs.
That collision (cells `[in0, Add(in0, 1)]` loading as `Load(in0, 2)`, line
336) is a second violation of `ShapePathSound` under these bounds. It is
reached by running `MC_Propagation_ShapeHole.cfg` with the `MC_` constants
instead of the `MC_Hole*` ones. Only the hole bug has a run of its own, because
of the run budget.

`dfsan_add_label` is explored on one cell at a time (`AddLabelSizes` {1}). Its
loop treats each cell alone, and wider calls multiply the state space without
new paths. With the action disabled, `LoadBounded` holds over the whole space
(216,392 states at 5 steps). The violation comes from size-1 labels alone.
With 4 steps, labels built by a load, an addition and a store are loaded and
stored again.

`LabelCap` 6 makes `Die()` on exhaustion reachable, so `Halted` and the
exhaustion branch of `TaintUnion` both fire.

Memory starts at zero. The data the properties compare are label meanings,
and `StoreConst` writes any byte string.

`MC_Hole*` uses a 3-byte file with no additions, which isolates the hole bug
from the op1 collision.

**UnionRace** uses two threads and two distinct records. With two calls per
thread and room for 3 labels, a duplicate allocation runs the store out, so
`Die()` interrupts calls in flight. No symmetry is used, because the run
checks liveness.

**Serializer** (the `serializer_memcmp` run) uses a 2-byte file, Loads of up to
2 bytes and every operator kind. Two derived labels are enough for
`fmemcmp(x, y)` over a memoising `y`, and for a memoised label reached both at
the top level and as an operand.

**BranchFilter** uses a cap of 2 instead of 16. The comparisons are the same,
and 4 callbacks per run exceed it at one site. Three runs show that every
context of a run is filtered in later runs. Two sites and two callstacks make
keys differ in each component.

**GepPipeline** uses a 3-byte file, Loads of up to 2 bytes, two derived labels
and one index value, over every operator but Neg (Neg passes deps through
like ZExt). Every label store is explored (4,524 initial states). Three
offsets are the fewest for a merge that must re-point an offset the current
index does not touch: `Load(in1, 2)` builds the tree {1, 2}, and then
`Add(in0, in1)` merges it into the tree of offset 0. "Bad" makes `serialize`
throw after memoising operands. One index value suffices because the
properties do not compare values of `r`.

**TaintFile** uses descriptors 0..2, a file of size 2, and two utmp offsets
and labels. Three descriptors allow stdin plus two opens, or the taint file
opened twice.

## Fairness

`UnionRace` assumes weak fairness of each thread's steps inside
`__taint_union` (`Alloc`, `Write`, `Insert`, `Return`). A thread in there
holds no lock and waits on nothing, so an OS scheduler keeps running it.

Starting a call (`Lookup`) is the application's choice, and it is not fair.
The liveness this buys is the `WF` of `LabelStore`'s `Create`: a call that
missed gets a label or the process dies. Without the fairness the refinement
fails.

The other modules check safety only:

- Their operations return synchronously, and no callback waits on another.
- What else could be argued to happen eventually depends on the external pipe
  reader and on the fuzzer restarting the target. Neither is in the
  repository.

## Not modelled, and the plan for later work

Planned, in this order:

1. **SolverPipe.** Runs writing label ids into the pipe while a reader reads
   records from the shared segment that the next run rewrites.
2. **A second target program** sharing the redis store under the same
   `"sqlite"` suffix.

Not modelled, and why:

- **Solver driver and input synthesis** (`__solve_cond` after line 998,
  `generate_input`, the `#if 0` solving in `trace_gep`): dead code in the build.
- **Flag parsing, memory mapping, printing:** I/O with no state that the
  properties tell apart. The taint-file getters read one field.
- **`__solve_cond`'s early return (line 998)** is in BranchFilter's `Solve`.
  Branch constraints therefore never reach the trees. This is plain in the
  code and needs no run.
- **`std::out_of_range` from `__branch_deps->at(off)`:** the model's Loads lie
  within the file, as the load path builds them. An out-of-file offset comes
  only from the shape-path bug, which `ShapePathSound` catches.
- **`union_hashtable.h` and `taint_allocator.h`:** not in the repository. The
  table is modelled as finding an equal record.
- **The `PATH_PREFIX` blocks:** compiled out.
- **`dfsan_get_label`, `__dfsw_dfsan_get_label`, `dfsan_has_label`,
  `dfsan_get_label_count`, `dfsan_dump_labels`:** they
  change no state. `dfsan_has_label` follows only `l1` when it is nonzero, and
  follows `l2` even for Load labels, where `l2` is a length. Nothing in the
  repository states its contract or calls it, so no property about it is
  checked.
- **Runs after the first, in Propagation:** the shared label segment holds an
  earlier run's records past `last`. The runtime only reads labels at or below
  `last`, and those are rewritten each run, so Propagation models the first
  run.

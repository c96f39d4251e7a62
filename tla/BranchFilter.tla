---------------------------- MODULE BranchFilter ----------------------------
(***************************************************************************)
(* Exploration filter and branch callbacks of the taint runtime            *)
(* (src/llvm_mode/dfsan_rt/dfsan/dfsan.cc): __taint_trace_cond and         *)
(* __taint_trace_cmp with CTX_FILTER on and PATH_PREFIX off, as built.     *)
(*                                                                         *)
(* A callback for a tainted branch at call site `site` under callstack id  *)
(* `cs` (1) finds or inserts the per-process counter __branches[(cs,site)] *)
(* and takes the incremented count as the occurrence order, or returns     *)
(* once the count is MAX_BRANCH_COUNT; (2) looks the context key           *)
(* hash(site, cs, order) + PROGRAM up in the shared key/value store and    *)
(* returns if present; (3) sets the key to "explored"; (4) hands the       *)
(* branch label to __solve_cond, which as built writes it to the solver    *)
(* pipe and returns.  Callbacks of a multithreaded target run these steps  *)
(* with no lock, so each step is an action of its own: the counter is read *)
(* and written back (a data race on the unordered_map, modelled as the     *)
(* lost update it can produce), and the store's get and set are separate   *)
(* requests.                                                               *)
(*                                                                         *)
(* Runs of the target follow one another: a run's __branches dies with its *)
(* process, the key/value store and the pipe's reader outlive it.  A run  *)
(* may end (exit, crash, kill) while callbacks are in flight.  The 64-bit *)
(* context hash is taken to be injective: a key is the triple itself.     *)
(***************************************************************************)
EXTENDS Naturals, FiniteSets

CONSTANTS
    Threads,            \* threads of the target that execute callbacks
    Sites,              \* call-site addresses of tainted branches
    Callstacks,         \* values of the thread-local __taint_trace_callstack
    MAX_BRANCH_COUNT,   \* per-site occurrence cap (16 in the code)
    MaxRuns,            \* number of target runs explored
    MaxEvents           \* tainted branch callbacks per run explored

ASSUME MAX_BRANCH_COUNT \in Nat \ {0}
ASSUME MaxRuns \in Nat \ {0} /\ MaxEvents \in Nat

VARIABLES
    branches,   \* __branches of the current process: (cs, site) -> count (0 = absent)
    kv,         \* keys present in the key/value store (persist across runs)
    pc,         \* thread -> step of its callback in flight
    ctx,        \* thread -> [site, cs, cnt, order] of its callback
    sent,       \* context -> number of times its label was written to the pipe
    run,        \* current run number
    events      \* callbacks begun in the current run

vars == <<branches, kv, pc, ctx, sent, run, events>>

Keys == Sites \X Callstacks \X (1..MAX_BRANCH_COUNT)
Ctx == [site : Sites, cs : Callstacks, cnt : 0..MAX_BRANCH_COUNT,
        order : 0..MAX_BRANCH_COUNT]
NoCtx == [site |-> CHOOSE s \in Sites : TRUE, cs |-> CHOOSE c \in Callstacks : TRUE,
          cnt |-> 0, order |-> 0]

Key(c) == <<c.site, c.cs, c.order>>

Init ==
    /\ branches = [p \in Callstacks \X Sites |-> 0]
    /\ kv = {}
    /\ pc = [t \in Threads |-> "idle"]
    /\ ctx = [t \in Threads |-> NoCtx]
    /\ sent = [k \in Keys |-> 0]
    /\ run = 1
    /\ events = 0

(* A tainted branch callback begins: __branches.find({callstack, addr})     *)
(* reads the counter (a label-0 branch returns at once and changes nothing).*)
Enter(t, site, cs) ==
    /\ pc[t] = "idle"
    /\ events < MaxEvents
    /\ ctx' = [ctx EXCEPT ![t] = [site |-> site, cs |-> cs,
                                  cnt |-> branches[<<cs, site>>], order |-> 0]]
    /\ pc' = [pc EXCEPT ![t] = "count"]
    /\ events' = events + 1
    /\ UNCHANGED <<branches, kv, sent, run>>

(* Seeded fault: the cap test written `<=`, one occurrence past the cap.    *)
CountPastCap(t) ==
    LET c == ctx[t] IN
    /\ pc[t] = "count"
    /\ IF c.cnt <= MAX_BRANCH_COUNT
       THEN /\ branches' = [branches EXCEPT ![<<c.cs, c.site>>] = c.cnt + 1]
            /\ ctx' = [ctx EXCEPT ![t].order = c.cnt + 1]
            /\ pc' = [pc EXCEPT ![t] = "get"]
       ELSE /\ pc' = [pc EXCEPT ![t] = "idle"]
            /\ UNCHANGED <<branches, ctx>>
    /\ UNCHANGED <<kv, sent, run, events>>

(* Insert with count 1, or increment below MAX_BRANCH_COUNT and take the    *)
(* count as the order; at the cap, return (skip).                           *)
Count(t) ==
    LET c == ctx[t] IN
    /\ pc[t] = "count"
    /\ IF c.cnt < MAX_BRANCH_COUNT
       THEN /\ branches' = [branches EXCEPT ![<<c.cs, c.site>>] = c.cnt + 1]
            /\ ctx' = [ctx EXCEPT ![t].order = c.cnt + 1]
            /\ pc' = [pc EXCEPT ![t] = "get"]
       ELSE /\ pc' = [pc EXCEPT ![t] = "idle"]
            /\ UNCHANGED <<branches, ctx>>
    /\ UNCHANGED <<kv, sent, run, events>>

(* Seeded fault: the reply of the lookup is ignored.                         *)
KvGetIgnored(t) ==
    /\ pc[t] = "get"
    /\ pc' = [pc EXCEPT ![t] = "set"]
    /\ UNCHANGED <<branches, kv, ctx, sent, run, events>>

(* redis.get(hash + PROGRAM): a present key ends the callback.              *)
KvGet(t) ==
    /\ pc[t] = "get"
    /\ pc' = [pc EXCEPT ![t] = IF Key(ctx[t]) \in kv THEN "idle" ELSE "set"]
    /\ UNCHANGED <<branches, kv, ctx, sent, run, events>>

(* redis.set(hash + PROGRAM, "explored").                                   *)
KvSet(t) ==
    /\ pc[t] = "set"
    /\ kv' = kv \cup {Key(ctx[t])}
    /\ pc' = [pc EXCEPT ![t] = "solve"]
    /\ UNCHANGED <<branches, ctx, sent, run, events>>

(* __solve_cond: print the label and write it to the solver pipe, return.   *)
Solve(t) ==
    LET c == ctx[t] IN
    /\ pc[t] = "solve"
    /\ sent' = [sent EXCEPT ![Key(c)] = @ + 1]
    /\ pc' = [pc EXCEPT ![t] = "idle"]
    /\ UNCHANGED <<branches, kv, ctx, run, events>>

(* The run ends (exit, crash or kill), in-flight callbacks included; the    *)
(* next run starts with an empty __branches.                                *)
NewRun ==
    /\ run < MaxRuns
    /\ run' = run + 1
    /\ branches' = [p \in Callstacks \X Sites |-> 0]
    /\ pc' = [t \in Threads |-> "idle"]
    /\ ctx' = [t \in Threads |-> NoCtx]
    /\ events' = 0
    /\ UNCHANGED <<kv, sent>>

(* The last run explored has run all its callbacks.                         *)
Finished ==
    /\ run = MaxRuns
    /\ events = MaxEvents
    /\ \A t \in Threads : pc[t] = "idle"
    /\ UNCHANGED vars

Next ==
    \/ \E t \in Threads, site \in Sites, cs \in Callstacks : Enter(t, site, cs)
    \/ \E t \in Threads : Count(t) \/ KvGet(t) \/ KvSet(t) \/ Solve(t)
    \/ NewRun
    \/ Finished

Spec == Init /\ [][Next]_vars

-----------------------------------------------------------------------------
TypeOK ==
    /\ branches \in [Callstacks \X Sites -> 0..MAX_BRANCH_COUNT]
    /\ kv \subseteq Keys
    /\ pc \in [Threads -> {"idle", "count", "get", "set", "solve"}]
    /\ ctx \in [Threads -> Ctx]
    /\ sent \in [Keys -> Nat]
    /\ run \in 1..MaxRuns
    /\ events \in 0..MaxEvents

(***************************************************************************)
(* Cross-run deduplication (spec 4.9, scenario 6): the label of a context  *)
(* (site, callstack, order) is handed to the solver at most once over all  *)
(* runs, once its key is in the store no run solves it again.              *)
(***************************************************************************)
SolvedOnce == \A k \in Keys : sent[k] <= 1

=============================================================================

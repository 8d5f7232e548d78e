------------------------------- MODULE PoolJobs -------------------------------
(****************************************************************************)
(* Parallel programs that lease from the shared pool: those of the examples *)
(* and of the pool's own tests. Main builds the pool, forks a set of items  *)
(* over the workers, joins them, and uses what they left behind. Every item *)
(* leases one buffer, works in it, and drops or detaches the guard.         *)
(*                                                                          *)
(* The pool is that of BufferPool with the counters of PoolStatistics. What *)
(* a buffer contains is the set of items whose data is in it; a buffer the  *)
(* initializer has made, or the reset hook restored, contains none. An item *)
(* may unwind: in the initializer, in its body, or in the hook.             *)
(****************************************************************************)
EXTENDS PoolStatistics

CONSTANTS
  Main,        \* the thread that forks and joins
  Items,       \* the parallel items
  NoItem,
  Jobs,        \* the programs this instance runs
  NumItems,    \* items of a loop
  PerThread,   \* items of each spawned thread that loops
  MinShards,   \* MIN_SHARDS
  Parallelism  \* available_parallelism(), 0 where it is not known

Workers == Threads \ {Main}

-----------------------------------------------------------------------------
(* Shard sizing.                                                            *)

NextPowerOfTwo(n) == Min({p \in {2^k : k \in 0 .. n} : p >= n})

\* shard_count: next_power_of_two().max(MIN_SHARDS).
ShardCount(n) == Max({NextPowerOfTwo(n), MinShards})

ASSUME JobsAssumption ==
  /\ Main \in Threads
  /\ IsFiniteSet(Items) /\ NoItem \notin Items
  /\ Parallelism \in Nat /\ MinShards \in Nat \ {0}
  /\ NumShards = ShardCount(Parallelism)

\* A program drains only to combine what its items accumulated in one run of its
\* loop, which no hook may clear and no cap may drop; and the results of a program
\* that detaches are those of one run.
ASSUME ProgramsAssumption ==
  \A j \in Jobs :
    /\ j.hook \in BOOLEAN /\ j.prefill \in Nat /\ j.cap \in Caps \cup {Uncapped}
    /\ j.drains => j.adds /\ ~j.hook /\ ~j.detach /\ j.rounds = 1 /\ j.cap = Uncapped
    /\ j.detach => j.rounds = 1

-----------------------------------------------------------------------------
(* The programs.                                                            *)

\* What a program does, unless its own record says otherwise: no builder is
\* chained (hook, prefill, cap); one run (rounds) of a parallel loop over the
\* items on the threads of a rayon pool, any item on any thread (each = 0;
\* otherwise the items each spawned thread runs); the body overwrites what the
\* buffer holds (adds), and drops its guard (detach); Main does not drain.
Loop(name) ==
  [name |-> name, hook |-> FALSE, prefill |-> 0, cap |-> Uncapped, rounds |-> 1,
   items |-> NumItems, each |-> 0, adds |-> FALSE, detach |-> FALSE,
   drains |-> FALSE]

\* Items run by threads spawned for them, n by each.
Spawned(name, n) ==
  [Loop(name) EXCEPT !.each = n, !.items = n * Cardinality(Workers)]

\* `*pool.get() += x', then the sum of what drain returns.
DrainReduce == [Loop("drain_reduce") EXCEPT !.adds = TRUE, !.drains = TRUE]

\* hex.clear(), then push.
RayonScratch == Loop("rayon_scratch")

\* Every element of g is assigned, then folded.
PairScores == Loop("pair_scores")

\* One band is scaled, the hook copies the preset back.
NonStaticInit == [Loop("non_static_init") EXCEPT !.hook = TRUE, !.adds = TRUE]

\* Pushes onto a row the hook has cleared; each thread loops over its rows.
ScopedThreads ==
  [Spawned("scoped_threads", PerThread) EXCEPT !.hook = TRUE, !.adds = TRUE]

\* The strip pool: `pixels' becomes a row of the image.
DetachCollect == [Loop("detach_collect") EXCEPT !.detach = TRUE]

\* The scratch pool of the same loop: every slot of `escape' is assigned.
DetachCollectScratch == Loop("detach_collect_scratch")

\* AnySizeScratch::get clears and resizes an owned lease; run assigns it.
SizeBuckets == Loop("size_buckets")

\* Each pool of ClassScratch serves the items of its class in the same way.
SizeClasses == Loop("size_classes")

\* The workload is run several times over one pool.
AllocBench == [Loop("alloc_bench") EXCEPT !.rounds = 2]

\* Two tests: a prefilled buffer for every thread, and twice as many threads that
\* return as the pool keeps ("six returns race for three parking slots").
PrefillServesColdLeases ==
  [Spawned("prefill_in_the_reserve", 1) EXCEPT !.prefill = Cardinality(Workers)]
MaxIdleIsGlobal ==
  [Spawned("max_idle_is_global", 1) EXCEPT !.cap = Cardinality(Workers) \div 2]

VARIABLES
  job,       \* the program
  phase,     \* "loop" or, after the join, "done"
  round,     \* the run of the loop
  todo,      \* the items nobody has begun
  item,      \* the item of each worker
  written,   \* the workers whose body has written its data
  taken,     \* items each worker has begun
  content,   \* the items whose data each buffer contains
  result,    \* what each item read from its buffer at its end
  failed     \* whether user code has unwound

jobVars == <<job, phase, round, todo, item, written, taken, content, result,
             failed>>

\* The workers of a rayon pool may have leased from other pools before, so that
\* they have ids, and two of them may select one shard.
JobInit ==
  /\ job \in Jobs
  /\ cap = job.cap /\ hook = job.hook
  /\ toFill = [t \in Threads |-> IF t = Main THEN job.prefill ELSE 0]
  /\ pc = [t \in Threads |-> IF toFill[t] > 0 THEN "fill" ELSE "ready"]
  /\ pile = [p \in Piles |-> <<>>] /\ parked = 0
  /\ hand = [t \in Threads |-> NoBuffer] /\ guards = [t \in Threads |-> {}]
  /\ loose = {} /\ clean = {}
  /\ at = [t \in Threads |-> 0] /\ haul = [t \in Threads |-> <<>>]
  /\ \/ tid = [t \in Threads |-> Unassigned] /\ nextTid = 0
     \/ /\ job.each = 0
        /\ \E ids \in Injection(Workers, 0 .. MaxTids - 1) :
             tid = [t \in Threads |-> IF t = Main THEN Unassigned ELSE ids[t]]
        /\ nextTid = MaxTids
  /\ leases = 0 /\ allocations = 0 /\ recycled = 0 /\ filled = 0
  /\ reading = "idle" /\ snapshot = [leases |-> 0, allocations |-> 0]
  /\ phase = "loop" /\ round = 1
  /\ todo \in {s \in SUBSET Items : Cardinality(s) = job.items}
  /\ item = [t \in Threads |-> NoItem]
  /\ written = {}
  /\ taken = [t \in Threads |-> 0]
  /\ content = [b \in Buffers |-> {}]
  /\ result = [k \in todo |-> {}]
  /\ failed = FALSE

-----------------------------------------------------------------------------

\* A buffer that is gone, or that the hook has restored, contains nothing.
Contents ==
  content' = [b \in Buffers |->
                IF b \notin Live' \/ b \in clean' \ clean THEN {} ELSE content[b]]

\* A worker begins an item: get, or get_owned.
Begin(t) ==
  /\ phase = "loop" /\ pc[Main] = "ready"
  /\ item[t] = NoItem
  /\ job.each = 0 \/ taken[t] < job.each
  /\ \E k \in todo : /\ item' = [item EXCEPT ![t] = k]
                     /\ todo' = todo \ {k}
  /\ taken' = [taken EXCEPT ![t] = IF job.each = 0 THEN 0 ELSE @ + 1]
  /\ Get(t)
  /\ UNCHANGED <<job, phase, round, written, content, result, failed>>

\* A step inside a call of the pool.
Progress(t) ==
  /\ \/ PopShard(t) \/ PopReserve(t) \/ Unpark(t) \/ RunInit(t) \/ FillInit(t)
     \/ Reset(t) \/ CapAllows(t) \/ Unclaim(t) \/ Push(t) \/ DrainPile(t)
     \/ DrainSettle(t)
  /\ Contents
  /\ UNCHANGED <<job, phase, round, todo, item, written, taken, result, failed>>

\* What an unwinding body, initializer or hook ends: the item, a thread spawned
\* for it, and the whole program where it is Main.
Unwind(t) ==
  /\ failed' = TRUE
  /\ item' = [item EXCEPT ![t] = NoItem]
  /\ taken' = [taken EXCEPT ![t] = job.each]
  /\ phase' = IF t = Main THEN "done" ELSE phase

UserCodePanics(t) ==
  /\ InitPanics(t) \/ ResetPanics(t)
  /\ Contents
  /\ Unwind(t)
  /\ UNCHANGED <<job, round, todo, written, result>>

HoldsLease(t) == pc[t] = "ready" /\ item[t] # NoItem

\* The body writes its data over what the buffer holds, or adds to it.
Write(t) ==
  /\ HoldsLease(t) /\ t \notin written
  /\ \E b \in guards[t] :
       content' = [content EXCEPT ![b] = {item[t]} \cup (IF job.adds THEN @ ELSE {})]
  /\ written' = written \cup {t}
  /\ UNCHANGED <<vars, counters, reader, history, job, phase, round, todo, item,
                 taken, result, failed>>

\* The body ends: its result is what the buffer now holds, and the guard is
\* dropped or the buffer detached.
Finish(t) ==
  /\ HoldsLease(t) /\ t \in written
  /\ \E b \in guards[t] :
       /\ result' = [result EXCEPT ![item[t]] = content[b]]
       /\ IF job.detach THEN IntoInner(t, b) ELSE DropGuard(t, b)
  /\ item' = [item EXCEPT ![t] = NoItem]
  /\ written' = written \ {t}
  /\ UNCHANGED <<job, phase, round, todo, taken, content, failed>>

\* The body unwinds with its data half written: the guard is dropped.
BodyPanics(t) ==
  /\ "panic" \in Workload
  /\ HoldsLease(t) /\ t \notin written
  /\ \E b \in guards[t] :
       /\ content' = [content EXCEPT ![b] = @ \cup {item[t]}]
       /\ DropGuard(t, b)
  /\ Unwind(t)
  /\ UNCHANGED <<job, round, todo, written, result>>

Joined ==
  /\ phase = "loop"
  /\ todo = {} \/ failed
  /\ \A t \in Threads : pc[t] = "ready" /\ item[t] = NoItem

\* The loop is run again over the same pool.
NextRound ==
  /\ Joined /\ ~failed /\ round < job.rounds
  /\ round' = round + 1
  /\ todo' = DOMAIN result
  /\ result' = [k \in DOMAIN result |-> {}]
  /\ UNCHANGED <<vars, counters, reader, history, job, phase, item, written, taken,
                 content, failed>>

\* The loop is over: Main drains, or unwinds where an item did.
Leave ==
  /\ Joined
  /\ failed \/ round = job.rounds
  /\ IF job.drains /\ ~failed THEN Drain(Main) ELSE UNCHANGED vars
  /\ phase' = "done"
  /\ UNCHANGED <<counters, reader, history, job, round, todo, item, written, taken,
                 content, result, failed>>

Finished == phase = "done" /\ \A t \in Threads : pc[t] = "ready"

JobNext ==
  \/ /\ \/ \E t \in Workers : Begin(t) \/ Finish(t) \/ BodyPanics(t)
        \/ \E t \in Threads : Progress(t) \/ UserCodePanics(t)
     /\ Count /\ UNCHANGED reader
  \/ \E t \in Workers : Write(t)
  \/ NextRound \/ Leave
  \/ Finished /\ UNCHANGED <<vars, counters, reader, history, jobVars>>

JobSpec == JobInit /\ [][JobNext]_<<vars, counters, reader, history, jobVars>>

-----------------------------------------------------------------------------
(* What the programs assert at their end, when no item has unwound.         *)

LoopLeases == Cardinality(DOMAIN result)
OwnDataOnly == \A k \in DOMAIN result : result[k] = {k}

DrainReduceAsserts ==
  leases = LoopLeases /\ allocations >= 1 /\ Cardinality(loose) = allocations

RayonScratchAsserts == leases = LoopLeases

NonStaticInitAsserts ==
  /\ OwnDataOnly
  /\ leases = LoopLeases /\ allocations >= 1 /\ allocations < LoopLeases

ScopedThreadsAsserts ==
  /\ OwnDataOnly
  /\ leases = LoopLeases /\ allocations <= Cardinality(Workers)

DetachCollectAsserts == allocations = LoopLeases

DetachCollectScratchAsserts ==
  Cardinality(Workers) < LoopLeases => Reuses([leases |-> leases, allocations |-> allocations]) > 0

PrefillAsserts == allocations = job.prefill /\ CountIdle = job.prefill

MaxIdleAsserts == CountIdle = job.cap

-----------------------------------------------------------------------------
(* Correctness.                                                             *)

\* Every assertion of the examples, and those of the two tests, holds whatever
\* the schedule: whichever worker runs which item, with shards shared or not
\* (examples/*.rs; buffer.rs, mod tests).
AssertionsHold ==
  Finished /\ ~failed =>
    /\ job = DrainReduce => DrainReduceAsserts
    /\ job = RayonScratch => RayonScratchAsserts
    /\ job = NonStaticInit => NonStaticInitAsserts
    /\ job = ScopedThreads => ScopedThreadsAsserts
    /\ job = DetachCollect => DetachCollectAsserts
    /\ job = DetachCollectScratch => DetachCollectScratchAsserts
    /\ job = PrefillServesColdLeases => PrefillAsserts
    /\ job = MaxIdleIsGlobal => MaxIdleAsserts

\* `drain' as the combine step of a reduction: every item is in exactly one of
\* the partial sums it returns (buffer.rs, drain; drain_reduce.rs).
ReductionExact ==
  Finished /\ job.drains /\ ~failed =>
    /\ UNION {content[b] : b \in loose} = DOMAIN result
    /\ \A b, c \in loose : b # c => content[b] \cap content[c] = {}

\* Recycling never leaks one item's data into another's result, unless the
\* program accumulates on purpose: not from a concurrent holder, not from an
\* earlier item, not from one that unwound half-way; and what is detached stays
\* as its item left it (buffer.rs, get, recycle, into_inner).
ResultsUncontaminated ==
  \/ job.adds /\ ~job.hook
  \/ /\ \A k \in DOMAIN result : result[k] \subseteq {k}
     /\ \A b \in loose : \E k \in DOMAIN result : content[b] = {k} /\ result[k] = {k}

\* A pool under a loop that leases one buffer at a time never owns more buffers
\* than workers run, or than prefill made where that is more, although a miss in
\* the shard and a miss in the reserve are seen at different moments and workers
\* may share a shard (buffer.rs, lease and pop_reserve).
BuffersFitWorkers ==
  LET owned == Cardinality(Live \ loose)
  IN  owned <= job.prefill \/ owned <= Cardinality(Workers)

\* "Any max_idle of at least the expected worker count keeps steady-state
\* recycling intact": no return is turned away, where what was prefilled fits too
\* (buffer.rs, with_max_idle).
RecyclingIntact ==
  job.cap = Uncapped \/ (job.cap >= Cardinality(Workers) /\ job.cap >= job.prefill)
    => \A t \in Threads : pc[t] # "unclaim"

\* No buffer has been taken from the piles.
NothingTaken == recycled = 0 /\ \A t \in Threads : pc[t] # "unpark"

\* However many returns race for the last slots, an overclaim takes none of them:
\* as long as nothing has been taken from the piles, a return is turned away only
\* when the buffers the pool keeps or has admitted are as many as the cap
\* (buffer.rs, cap_allows; the test max_idle_is_global_across_shards).
RefusedOnlyAtCap ==
  cap # Uncapped /\ NothingTaken
    => \A t \in Threads : pc[t] = "unclaim" => Cardinality(Admitted) = cap

=============================================================================

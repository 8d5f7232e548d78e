# par-buffer-pool in TLA+

`par-buffer-pool` hands out reusable scratch buffers to the threads of a parallel
program. It has two pools: `BufferPool` (`src/src/buffer.rs`), shared by all threads,
and `ThreadLocalPool` (`src/src/local.rs`), which parks buffers in thread-local storage.
This directory models both, checks them with TLC on small instances and proves
nearly every safety property that is checked for every instance with TLAPS.

## 1. The system

| part | state | operations | what is hard | what must hold |
|---|---|---|---|---|
| shared pool (`BufferPool`, `PoolInner`) | `shards`, `reserve`: piles of idle buffers, a mutex each; `max_idle`; `reset` | `get`, `get_owned`, `with`, guard drop, `put`, `into_inner` | a lease or a return is several steps: two piles, a counter, user code in between that may unwind; guards migrate between threads | no buffer aliases or is lost; a hook runs on every return |
| idle cap | `parked`, an atomic counter beside the piles | `cap_allows`, `unpark`, the recount of `with_max_idle` | counter and pile are never changed together; returns overclaim and undo; the counter is unsigned | the counter is exact up to calls under way; the cap is never passed by a return |
| builders | `max_idle`, `parked`, `reset` | `with_max_idle`, `with_reset`, `prefill` | they may come late, on a pool that was used before | the recount starts the counter exactly |
| sweeps | | `drain`, `idle_len` | pile by pile, one lock at a time, beside leases, returns and other drains | a drain returns all it owes, in the documented order; a count is exact at rest |
| thread ids | `NEXT_TID`, `TID` | `tid`, `shard` | ids are never reused; threads exit | a thread's shard is sticky and never the reserve |
| stats | `leases`, `allocations` | `get`, `prefill`, `stats`, `reuses` | two relaxed counters read in two loads | the counters are what the leases did |
| pile locks | one mutex per pile | `lock_pile` | poisoning; user code must never run under a lock | no deadlock |
| owned guards, handles | `Arc` counts | `get_owned`, `clone`, drop, `Arc::get_mut` | a guard may be the pool's last owner | the pool lives as long as its guards |
| thread-local pools (`ThreadLocalPool`, `LocalInner`) | `NEXT_ID`, a liveness flag per pool, `DROP_EPOCH` | `new`, `with_reset`, `get`, `put`, guard drop, `idle_len`, drop | a pool dies on one thread, its buffers are parked on others | dead pools' buffers go, live pools' stay |
| registry | per thread: slots (flag, buffer) indexed by dense pool id, `seen_epoch` | `with_registry`, `slot_for` | slots are filled in by other pools; the sweep reads two atomics out of step; destructors may unwind | a slot holds its own pool's type and flag |
| examples (`src/examples`) | a pool each, results | parallel loops over a pool, joined, sometimes drained | which worker runs which item; an item unwinds half-way | results are their items' own; what `main` asserts |
| traits, docs, benchmarks | none of their own | | | |

The two pools share nothing but the guard idiom and the `PoolStats` type. Threads
interact through the piles, the counters and the atomics above, and by moving guards.

## 2. The modules

| module | models | extends |
|---|---|---|
| `BufferPool` | the shared pool, one action per access to shared state | |
| `PoolContract` | what the shared pool promises: buffers are idle, out or returning | |
| `PoolSweeps` | `drain`'s obligations as history variables; `idle_len` as an observer | `BufferPool` |
| `PoolStatistics` | the `stats` counters and the two-load snapshot | `BufferPool` |
| `PoolJobs` | the programs of the examples and of two tests, run over the pool; shard sizing | `PoolStatistics` |
| `PileLocks` | the mutexes, with user code that calls the pool again or unwinds | |
| `PoolLifetime` | handles, guards, the `Arc`'s count, builders, the pool's drop | |
| `LocalPool` | the thread-local pools, registries and sweep under weak memory | |
| `LocalStatistics` | the thread-local pools' counters and what each thread has in stock | `LocalPool` |
| `MC...` | symmetry sets, and the list of jobs, for TLC | their module |
| `BufferPoolProofs` | lemmas about piles as injective sequences; types, control and aliasing: the first half of the inductive invariant | `BufferPool` |
| `BufferPoolCapProofs` | the counter, the cap, the hook, and the theorems | `BufferPoolProofs` |
| `BufferPoolContractProofs` | `BufferPool` implements `PoolContract` | `BufferPoolCapProofs` |
| `PoolSweepsProofs` | `drain` and `idle_len` | `PoolSweeps`, `BufferPoolCapProofs` |
| `PoolJobsProofs` | the counters of `PoolStatistics` and the programs of `PoolJobs` | `PoolJobs`, `BufferPoolCapProofs` |
| `PileLocksProofs`, `PoolLifetimeProofs` | the safety of `PileLocks`, of `PoolLifetime` | their module |
| `LocalPoolProofs` | the safety of `LocalPool` and the counters and stock of `LocalStatistics` | `LocalStatistics` |

The shared pool is seen at three grains. `BufferPool` follows the buffers and takes a locked
region as one step; `PileLocks` follows the locks and leaves open what a pile contains;
`PoolLifetime` follows the references and leaves open both. What one leaves open another decides:
the steps of `BufferPool` are sound because `PileLocks` never has user code or a second lock
inside one of its regions, and its guards may use the pool because `PoolLifetime` keeps it alive.

### BufferPool

A buffer is a token; where it is, is the whole question. `pile[p]` are the piles (shards
`0 .. NumShards-1`, then the reserve), in parking order: `Append` is `Vec::push`,
`Last`/`Front` is `Vec::pop`. `hand[t]` is the buffer a call of thread `t` is moving,
`guards[t]` what its guards hold (`SharedPooled` and `SharedPooledOwned` alike),
`haul[t]` the vector a drain is filling, `loose` what user code owns otherwise. `pc[t]`
says where the thread is:

    get      ready -> pop_shard -> [pop_reserve ->] unpark -> ready      (a hit)
                                                 -> init   -> ready      (a miss)
    return   ready -> reset -> cap_allows -> push -> ready
                                          -> unclaim -> ready            (refused)
    prefill  ready -> fill -> (return into the reserve) -> fill ... -> ready
    drain    ready -> drain (once per pile) -> settle -> ready

A mutex guards one pop, push or take and nothing else, so a locked region is one step.
The counter is adjusted in steps of its own. All atomics of this module are relaxed, yet
interleaving is a sound model of them: they are read-modify-writes of one counter each, so
they are totally ordered, and a decrement for a buffer follows its increment because the
pile's mutex orders the push (after the increment) before the pop (before the decrement).
Reads that could be stale (`stats`) are separate steps in `PoolStatistics`.

`RunInit` and `FillInit` take any unused token. `InitPanics` and `ResetPanics` are user
code that unwinds. `clean` is history: the buffers reset since a user could write to them.
`WithMaxIdle` and `WithReset` need `Exclusive`, which is `Arc::get_mut`: no call under way,
no guard. `tid & shard_mask` is `%`, since the number of shards is a power of two.

### PoolContract

`idle`, `out`, `returning` and four ways to move between them. `BufferPool` implements it
under `idle <- Parked`, `returning <-` the hands of threads between the hook and the push,
`out <-` every other live buffer: a buffer popped and not yet unparked is already out, so
counter steps are stutters. The property `KeepsContract` is that refinement. It says among
other things that an uncapped pool without unwinding hooks parks every return.

### PoolSweeps and PoolStatistics

Both conjoin history to `Next` of `BufferPool` and change nothing in it. `owed[t]` is what
was parked when `t`'s drain began, less what leases and other drains have taken from it since, and
`ahead[t]` which of these lay in front of which, in pile and parking order. `idle_len` counts one pile per step beside all this, `stayed` being the
buffers that were parked all along. In `PoolStatistics` the counters move with the pool's
own steps: `get` counts its lease on entry and its allocation before the initializer
runs, so an unwinding initializer stays counted.

### PoolJobs

A job is a record: which builders are chained, how often and how the loop is run (any item on any
thread of a rayon pool, or so many items on each thread spawned for it), whether the body
overwrites the buffer or adds to it, whether it drops the guard or detaches it, whether `main`
drains at the end. `AllJobs` of `MCPoolJobs` holds the programs of the eight examples that use
`BufferPool` and of the tests `prefill_in_the_reserve` and `max_idle_is_global`. An item is `Begin`
(the lease), the pool's own steps, `Write`, `Finish`; `content[b]` is the set of items whose data is in
`b`, and `result[k]` what item `k` read at its end. Body, initializer and hook may unwind, which
ends the item and stops the loop. The workers of a rayon pool may have ids from
elsewhere, also two that select one shard; spawned threads get theirs here. `ProgramsAssumption` says
what the programs have in common: one that drains adds up in its buffers what one run of its loop
yields, which no hook may clear, no cap drop and no item carry away, and one that detaches runs its
loop once. Without it `ReductionExact` would not be what such a program wants. The test
`max_idle_is_global` spawns 6 threads under a cap of 3, so `MaxIdleIsGlobal` spawns the workers under a cap of
half their number.
`ShardCount` is `shard_count`, and the instance's `NumShards` is its value.

### PileLocks

Each pile has an `owner` and a `poisoned` flag, each thread a stack of calls (`frame`, `depth`), since
initializer, hook and destructor are user code, which may begin another call of the pool (`Call`),
come back (`Resume`) or unwind (`Unwind`). A statement under a lock is `Lock`, then a step that
does its work and releases (the guard of `lock_pile` is a temporary that dies at the semicolon);
what a pop finds and whether the cap lets a return in are free choices. `Unwind` poisons what
its thread holds.

### PoolLifetime

`strong` is the `Arc`'s count; handles, owned guards and calls that consume a handle own a reference;
a `SharedPooled` guard borrows the handle it was leased from (`lender`), and so does a call (`via`), and
the borrow checker keeps a lent handle from being dropped or moved. `GetMut` is `Arc::get_mut`;
`GetMutPanics` is the builder that finds the pool shared and drops the handle it was given while
unwinding. A reference is released in two steps: the decrement, and `DropInner` by whoever reached zero,
which drops every idle buffer.

### LocalPool

Pools are dense ids `0 .. MaxPools-1`; a buffer is a pair of the pool whose type it has and
a token, so that a slot with the wrong type is visible. `slots[t]` is the registry's vector,
`slots[t][id+1]` the slot of `id`, whose `live` names the pool whose flag it shares. A call
is `load` (of `DROP_EPOCH`), `sweep` (a slot per step) when the epoch moved, `access`.

The atomics are weaker than interleaved and modelled so. `LoadEpoch` may return any value
from `view[t]`, what coherence guarantees the thread, to the current one. A dead pool's flag
may still read TRUE (`FlagReads`) unless the thread has acquired the bump that was released
after the flag was cleared; bumps are read-modify-writes and form one release sequence, so
acquiring a later bump acquires the earlier ones. `SendGuard` and `Synchronize` carry `view`
from thread to thread. `SweepPanics` is the destructor of a swept buffer that unwinds, by itself
or because it entered a pool whose registry is borrowed.

`LocalStatistics` conjoins the two counters to its steps, and `stock[t]`: the pools `t` has parked a
buffer for and not leased from since.

## 3. The runs

Threads and buffers are interchangeable, so runs without liveness use
symmetry. Bounds: `Room` keeps tokens available for every initializer run under way,
`MaxHeld` bounds guards per thread, `MaxFill` the argument of `prefill`, `MaxTids` the ids,
`MaxLeases`/`MaxAllocations` the counters, `MaxPools` the pools, `MaxDepth` the calls nested
through user code, `MaxConfig` the reconfigurations.

| run | instance | what it shows |
|---|---|---|
| `shared_pool` | 2 threads, 3 buffers, 2 shards, caps 1 and 2, every operation | types, no aliasing, exact count, the cap, the hook, the contract |
| `sweeps` | 2 threads, 3 buffers, drains, prefill, migrating guards, and the counter | a drain returns everything it owes in pile and parking order; a count never misses what stayed, and is exact when nothing moved |
| `fork_join` | `main` and 2 workers, 4 buffers, 2 shards, 3 items (2 each for spawned threads), every job, unwinding included | every assertion of the programs under every schedule; results hold their item's data only; the pool never outgrows its workers; a cap of the worker count refuses no return; a lower one refuses none, until a buffer is taken from the piles, before as many are parked or admitted; the counters are what the leases did |
| `pile_locks` | 2 threads, 1 shard and the reserve, calls nested two deep, prefills of 1 | locks never nest, user code holds none, none is poisoned, no deadlock, every call ends |
| `lifetime` | 2 threads, 2 handles, 3 buffers, 1 reconfiguration | the count is right, the pool outlives its users and dies with the last, builders are alone |
| `local_pool` | 2 threads, 2 pools, 2 buffers, every operation, unwinding included | slots match their pools, nothing aliases, live pools' buffers are never swept |
| `local_gaps` | 2 threads, 3 pools (the last never dropped), 2 leases, stale loads, initializers that unwind, ended threads | no stranded buffer; the next interaction of a thread that knows discards; a thread's own lease, and nothing else, empties its slot of a living pool; the leases cover what was allocated and recycled |
| `local_reclaim` | 2 threads, 2 pools (the first never dropped), fairness | dead pools' buffers are reclaimed in the end |
| `refused_below_cap` | 3 threads, cap 1 | finding 1 |
| `migrating_leases` | 2 threads with a lease each at most, 5 buffers | finding 2 |
| `stats_prefill` | 2 threads | finding 3 |
| `destructor_unwinds` | 1 thread, 3 pools | finding 4 |

The bounds are enough for what can go wrong here. A race in the shared pool is between two
calls and a third that reads the counter; `refused_below_cap` has all three, and the proofs of
section 5 make the number of threads immaterial for the rest. With two workers one
return of `MaxIdleIsGlobal` is refused; that several are refused at once, as in the test with its 6 threads, is the case
of `RefusalsMeetTheCap` and `ProgramsAssertTruth`. The piles are alike, so
one own shard, one foreign shard and the reserve are all the kinds there are; a drain or a
count is overtaken behind and ahead with two shards and a reserve. With one item more than
workers a buffer is reused in every job. A deadlock of locks that do not
nest needs two threads and two locks; two levels show a call interrupted by another that is
itself interrupted by unwinding. A reference count is raced for by two threads. In `LocalPool` three
pools are needed for two dead ones beside the live one whose calls sweep, and for a slot that is
filled in twice.

`lifetime` does not check for deadlock: a program that has dropped its last handle is over.

`AllocationsBoundMemory` is checked of programs that put nothing made elsewhere. With `put` of
such buffers the claim fails, and so does the doc's stronger "upper bound on the number of
concurrently outstanding leases" (`buffer.rs:41-42`): they are leased without ever being allocated.

Fairness is assumed in three runs only.

- `local_reclaim`: a thread inside a call takes its next step (the scheduler);
  a thread outside keeps calling `idle_len` on the pool that is never dropped (the doc exempts
  "threads that never touch any `ThreadLocalPool` again"); a load of `DROP_EPOCH` that happens
  again and again is not stale for ever (stores become visible in finite time, as the
  memory model asks of implementations). Leases and drops need not happen.
- `pile_locks`: a thread that is inside a step of the pool goes on (weak); a mutex that is free again
  and again is got in the end (strong: `std::sync::Mutex` may be barged in on, but not for ever on a
  fair scheduler); user code called by the pool comes to an end, whatever calls it makes (strong, depth by
  depth, since each nested call disables it). That user code loops for ever is its own doing.
- `lifetime`: a call under way goes on (weak); users need do nothing.

## 4. Where code and text disagree

1. `refused_below_cap`: a return may be refused although fewer than `max_idle` buffers are
   parked or claimed. The counter it reads still holds another return's overclaim, or a buffer
   popped and not yet unparked. `cap_allows` and `recycle` say "pool full" (`buffer.rs:646`,
   `666`). The loss is one buffer's recycling; the count stays exact.
2. `migrating_leases`: one thread leases, another drops the guards. Every return parks in the shard of
   the dropping thread, which the leasing thread never looks in, so every lease
   allocates, without bound and with two leases outstanding at most. The docs have the number of buffers
   "converge" to the sum of per-shard peaks (`buffer.rs:335-337`) and to the peak of
   concurrent leases (`lib.rs:45-46`). A cap bounds it.
3. `stats_prefill`: `prefill` counts allocations but no leases, so `reuses()` on a prefilled pool
   is below zero without any concurrency: a panic in debug builds.
4. `destructor_unwinds`: `seen_epoch` is stored before the sweep (`local.rs:118`). A swept
   buffer's destructor that unwinds leaves the slots behind it unswept, and later interactions do
   not come back to them until some other pool is dropped ("lazily but reliably", `local.rs:22`).

Three more, without a run of their own: `stats()` of either pool loads `leases` first, so a lease that starts
and allocates in between makes `allocations` of the snapshot the larger of the two, and its
`reuses()` subtracts below zero (the counters themselves are in order, `LeasesCoverBuffers`: loading them
the other way round would do); the doc of `new` ("only when a lease finds the pool empty",
`buffer.rs:194`) is at odds with sharding, which the doc of `get` explains; and since thread ids are
never reused, threads may share a shard long before there are more of them than shards
(`buffer.rs:94-96`).

## 5. What is proved

Each theorem is about the specification itself, `Spec` of its module, and rests only on the `ASSUME`s the
module declares.

**The shared pool** (finitely many buffers and threads, at least one shard, caps that are numbers).
`BufferPoolCapProofs`: `TypeCorrect` (`[]TypeOK`, so the unsigned counter never wraps),
`NoBufferAliased`, `CounterExact`, `ClaimsFit`, `ParkingFitsCap`, `ParkingIsClean`.
`BufferPoolContractProofs`: `ImplementsContract`, `Spec => KeepsContract`.

The inductive invariant is `IInv`. `Control` gives the types (the counter as an integer only), that a hand
is full exactly in the steps that move a buffer, that only drains have gathered anything, and that only
capped pools refuse. `Apart` says buffer by buffer that it is in one place at most: pointwise, because the
provers follow one buffer through a step far better than unions of sets; `ApartNoAliasing` turns
it into `NoAliasing`. `CountExact` needs both: a step that moves a buffer out of the count lowers the
cardinality by one only if the buffer was nowhere else. Only then does `parked >= 0` follow, since
it is a cardinality. `ClaimsFitCap` needs `CountExact`: a claim that finds the counter
below the cap leaves the admitted buffers, a subset of the counted ones, within it. `CleanInv`
says that the buffer of a return past the hook is clean. For `with_max_idle`, `Recount` is a
bijection from the positions of the piles to the parked buffers.

The refinement maps `out` to what is live, not parked and not on its way back. That is a difference of
sets; under `Apart` it equals `Owned`, the union of the places where users' buffers are (`OutIsOwned`), and
every action changes that union by at most one place. `ContractStep` then takes the actions one by one: the
pops and `DrainPile` are `Take`, `DropGuard`, `Put` and `FillInit` are `Return`, `Push` is `Park`,
`Unclaim` and `ResetPanics` are `Lose`, the rest stutter. `Push` parks under the cap because the pushed
buffer held a claim (`ClaimsFitCap`); `Unclaim` may lose a buffer because only capped pools refuse.

**The locks** (`PileLocksProofs`): `LocksTyped`, `LocksDoNotNest`, `UserCodeRunsUnlocked`,
`NoPilePoisoned`, for any number of threads and shards and any nesting of calls through user code. The
strengthening is `HeldAtTarget`: whoever owns a lock is, in its innermost call, in a statement
under that very lock. A thread has one innermost call, which is in one statement, so locks do not
nest; user code is no such statement, so nothing unwinds under a lock.

**The lifetime** (`PoolLifetimeProofs`, finitely many threads, handles and buffers): `LifetimeTyped`,
`CountIsOwners`, `ReachableIsAlive`, `DeadPoolIsEmpty`, `ReconfigurationIsExclusive`. The invariant
says what each call stands on (`CallInv`), that borrowed handles exist (`LenderInv`), that
buffers are in one place (`Apart`), that the pool is dropped by one thread and at count zero (`DropInv`), and that
the count is the cardinality of the set of owners, tagged so that handles, guards and calls are
told apart (`OwnersCounted`).

**The thread-local pools** (`LocalPoolProofs`, any number of threads, buffers and pools, every load as stale as
the memory model lets it be): `LocalTyped` (and no registry
is longer than there are pools), `SlotsMatch`, `NoLocalAliasing`, `SweepsSpare`, and, if no destructor
unwinds out of a sweep, `NothingStranded` and `Discarded`; finding 4 is what happens when one does. The
invariant `IInv` says that a call's pool lives (`CallInv`: calls borrow the handle), that a return carries a
buffer of its pool (`HandInv`), that only dead pools have bumped the epoch (`DeathInv`), and that a thread's
registry never accounts for more than the thread has acquired and, from its load on, for exactly that (`ViewInv`).
`SlotsMatchPools` is inductive with these: `slot_for` repairs the only slot an access fills. Two lemmas say
what a step may do to a registry: `SlotSwept` and `SlotAccessed`. A sweep that passes a buffer by read
its own pool's flag as set (`SlotsMatchPools`), so the pool lives or its bump is newer than the thread's view, and
with that newer than `seen` (`ViewInv`): the buffer is not stranded (`SweepsDead`). `Apart` is `NoAliasing` place by place.

**Drains and counts** (`PoolSweepsProofs`, under `SweepSpec`): `DrainsComplete`, `IdleLenIsSound`. What a
drain owes is in its haul or in a pile it has yet to come to (`Reachable`), and what lay in front of a
buffer is gathered before it and, where both are still parked, lies in front of it still (`InOrder`):
leases take from the end of a pile and returns add there, so neither disturbs what remains. For the
count, `CountInv` compares what has been counted with the buffers that stayed in the piles passed so far; `Apart` makes
the positions of a pile as many as its buffers.

**Stock and counters of the thread-local pools** (`LocalPoolProofs`, under `StatsSpec` of `LocalStatistics`):
`StockIsKept` adds to `IInv` that a sweep passes by what a living pool has parked (`SlotSwept`) and that an access
touches one slot (`SlotAccessed`); `LeasesCover` counts the calls between the lease's count and
the buffer.

**Counters and programs** (`PoolJobsProofs`, any finite number of workers, items and buffers, any shards and programs of
`ProgramsAssumption`). Under `StatsSpec`, any use of the pool: `CountersAgree`, and `MemoryIsBounded` if nothing
made elsewhere is put. Each call is at one step of its path (`CallsProceed`), and only a run of the initializer makes a
buffer (`LiveStep`). Under `JobSpec` the same for the programs (`ProgramCountersAgree`), since a program's
steps are steps of the pool (`JobUsesPool`), and:

- `BuffersSuffice`. That the pool never outgrows its workers is not a matter of counting leases, since a worker that
  misses in its own shard does not look in the others. The invariant `HostInv` gives every buffer parked in a shard a
  host: a worker of that shard that neither holds a buffer nor is about to make one, another one for every
  buffer. A worker that takes the buffer of an idle host of its shard leaves its own place to it. A worker about to
  make a buffer missed in its shard, so it hosts none; the reserve is empty (`ReserveInv`: programs stock it
  before their loop only); so all buffers are held or hosted by the other workers (`MakerHasNone`).
- `RecyclingStaysIntact`. Then the counted buffers besides the one in hand are fewer than the cap, so no
  return finds the counter, which is their number (`CountExact`), at the cap.
- `ResultsStayApart`. `ContentInv`: an item is begun once (`ItemsInv`); a buffer that counts as reset is parked or on
  its way to or from a pile (`RestoredInv`), so the hook clears whatever returns; what does not exist is empty
  (`FreshInv`); where items add and a hook clears, whatever may be leased is empty (`ClearedInv`), also after an item
  that unwound; where they do not accumulate, a written buffer contains its item alone and
  what was detached is one item's (`OwnDataInv`).
- `ReductionIsExact`. `SumInv`: while nothing unwinds, an item that was written is in one buffer, others
  are in none, and behind Main's sweep the piles are empty. An uncapped pool lets no buffer die in a call
  (`NoneDies`), so nothing is lost on the way, and at the end all buffers have been drained (`DrainedAtEnd`).
- `RefusalsMeetTheCap`. Finding 1 needs an overclaim that counts against a slot somebody has just left. Until a buffer is
  taken from the piles (`NothingTaken`) what is admitted stays admitted (`AdmittedStay`), and the counter exceeds it
  by the overclaims under way only (`AdmittedCount`). So the first refusal finds the cap reached,
  and each later one finds it reached still, however many overclaims are pending.

- `ProgramsAssertTruth`. The assertions at the end of the programs (where nothing unwound) are true if there is a
  worker, a loop has more items than workers, and there are shards enough for the spawned threads; those tests have
  6 threads and 128 shards, and the cap is half the threads, as theirs is. Leases are tallied by items (`TallyInv`), an uncapped pool keeps what was allocated
  (`MemoryInv`), prefill counts what it makes (`FilledInv`), so the number of reuses follows from `BuffersSuffice`. A pool
  prefilled for all its workers allocates no more (`WarmInv`): a worker about to make a buffer would find fewer of
  them than workers (`MakerHasNone`), and all that prefill made still exist. A cold pool, whose buffers are
  detached or whose spawned threads each select an empty shard of their own (`OwnShard`: ids are dense and new), recycles
  nothing (`ColdInv`). Nothing is dropped from its pool before the cap is reached, and then it stays
  reached (`RefuseInv`, from `RefusedOnlyAtCap`): the threads are more than the cap, so at the end the pool keeps exactly
  the cap (`CapacityInv`: never more), in whatever order the returns raced.

Only model-checked: `CallsEnd`, `PoolIsFreed` and `DeadPoolsAreReclaimed`: liveness under fairness is beyond the prover.

## 6. Not modelled

- The benchmarks (`bench-compare`, `local_static_bench`): they time this crate and other pools, assert
  nothing, and do to the pool what `AllocBench` does. The strategies of `alloc_bench` that use no pool.
- The two pools that one task of `detach_collect` leases from at the same time: each is a job of its own.
- An initializer or hook of a `ThreadLocalPool` that calls a pool. Both run with the registry free, so to the
  registry such a call is one more call between two accesses, as a nested lease is.
- `ThreadLocalPool::stats`, the two loads that `PoolStatistics` has for the shared pool.
- The branch of `ThreadLocalPool::get` for a slot of the wrong type, which `SlotsMatchPools` shows
  unreachable, and the handles of a `ThreadLocalPool`: the pool is dropped with its last one.
- `Default`, `Debug`, `Deref`: they keep no state and move no buffer.
- What the registry's growth costs (`local.rs:29-33`): documented, and a restatement of `Grown`.
- Mutex poisoning is modelled and never happens; the recovery of `lock_pile` is therefore not exercised.

## 7. Plan

Done: every module of section 2, the theorems of section 5.

Next: `BufferPool` as the abstraction of `PileLocks`: a lock's owner and the step it will take.

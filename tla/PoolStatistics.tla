---------------------------- MODULE PoolStatistics ----------------------------
(****************************************************************************)
(* The counters of the `stats' feature: two atomics that get and prefill    *)
(* bump, and the snapshot stats() takes of them in two loads while leases   *)
(* go on. LocalStatistics does the same for ThreadLocalPool.                *)
(****************************************************************************)
EXTENDS BufferPool

CONSTANTS
  WordSize,        \* values of a usize: 0 .. WordSize - 1
  MaxLeases,       \* bound on the leases counter
  MaxAllocations   \* bound on the allocations counter

ASSUME WordAssumption ==
  /\ WordSize \in Nat \ {0}
  /\ MaxLeases \in 0 .. WordSize - 1
  /\ MaxAllocations \in 0 .. WordSize - 1

VARIABLES
  leases,
  allocations,
  reading,    \* where stats() is: "idle", "leases" loaded, or "done"
  snapshot,   \* the PoolStats it builds
  recycled,   \* history: leases served from a pile
  filled      \* history: runs of the initializer on behalf of prefill

counters == <<leases, allocations>>
reader == <<reading, snapshot>>
history == <<recycled, filled>>

StatsInit ==
  /\ Init
  /\ leases = 0
  /\ allocations = 0
  /\ reading = "idle"
  /\ snapshot = [leases |-> 0, allocations |-> 0]
  /\ recycled = 0
  /\ filled = 0

\* Faulty InitRuns: prefill does not count its runs of the initializer.
InitRunsOfLeases == {t \in Threads : pc[t] = "init" /\ pc'[t] # "init"}

\* The threads that run the initializer in this step, for a lease or a prefill;
\* the run is counted just before it starts, so also when it unwinds.
InitRuns == {t \in Threads : pc[t] \in {"init", "fill"} /\ pc'[t] # pc[t]}

\* The threads that enter get, which counts the lease before it tries a pile.
LeaseStarts == {t \in Threads : pc[t] = "ready" /\ pc'[t] = "pop_shard"}

\* What get and prefill add to the counters in a step of the pool.
Count ==
  /\ leases' = leases + Cardinality(LeaseStarts)
  /\ allocations' = allocations + Cardinality(InitRuns)
  /\ recycled' = recycled + Cardinality({t \in Threads : pc[t] = "unpark" /\ pc'[t] # "unpark"})
  /\ filled' = filled + Cardinality({t \in Threads : pc[t] = "fill" /\ pc'[t] # "fill"})
  /\ leases' <= MaxLeases /\ allocations' <= MaxAllocations

PoolStep == Next /\ Count /\ UNCHANGED reader

-----------------------------------------------------------------------------
(* stats(): leases is loaded, then allocations.                             *)

LoadLeases ==
  /\ reading \in {"idle", "done"}
  /\ snapshot' = [leases |-> leases, allocations |-> 0]
  /\ reading' = "leases"
  /\ UNCHANGED <<vars, counters, history>>

LoadAllocations ==
  /\ reading = "leases"
  /\ snapshot' = [snapshot EXCEPT !.allocations = allocations]
  /\ reading' = "done"
  /\ UNCHANGED <<vars, counters, history>>

\* PoolStats::reuses: a usize subtraction, which wraps in a release build and
\* panics in a debug build when it would go below zero.
Reuses(s) == (s.leases - s.allocations) % WordSize

StatsNext == PoolStep \/ LoadLeases \/ LoadAllocations

StatsSpec == StatsInit /\ [][StatsNext]_<<vars, counters, reader, history>>

-----------------------------------------------------------------------------
(* Correctness.                                                             *)

\* Every lease taken is served from a pile, served or failed by the initializer,
\* or still under way: the counters of concurrent leases never drift from what
\* the leases did, prefills and unwinding initializers included (buffer.rs, get,
\* prefill).
LeasesAccounted ==
  leases = recycled + (allocations - filled)
             + Cardinality({t \in Threads :
                  pc[t] \in {"pop_shard", "pop_reserve", "unpark", "init"}})

\* "allocations * buffer_size bounds the scratch memory the pool can be
\* responsible for": no more buffers exist than were allocated, wherever they
\* are, as long as users put back only what they detached or drained
\* (buffer.rs, PoolStats::allocations).
AllocationsBoundMemory == Cardinality(Live) <= allocations

\* What the doc of PoolStats::reuses says it returns: "leases served from an
\* idle (recycled) buffer". There are never more of them than leases.
ReusesAreLeases == reading = "done" => Reuses(snapshot) <= leases

=============================================================================

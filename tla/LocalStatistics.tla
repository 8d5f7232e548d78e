---------------------------- MODULE LocalStatistics ----------------------------
(****************************************************************************)
(* The `stats' counters of every ThreadLocalPool, and what each thread has  *)
(* in stock: the pools whose next lease it can serve without the            *)
(* initializer.                                                             *)
(****************************************************************************)
EXTENDS LocalPool

CONSTANT MaxLeases   \* bound on the leases of all pools together

ASSUME LeasesAssumption == MaxLeases \in Nat

VARIABLES
  leases,
  allocations,
  recycled,   \* history: leases served from a slot
  stock       \* history: the pools each thread parked for and has not leased since

counters == <<leases, allocations>>
history == <<recycled, stock>>

StatsInit ==
  /\ Init
  /\ leases = [p \in Pools |-> 0]
  /\ allocations = [p \in Pools |-> 0]
  /\ recycled = [p \in Pools |-> 0]
  /\ stock = [t \in Threads |-> {}]

\* Thread t is in a call `op' of pool p, and this step takes it past `pc'.
Passes(t, op, p, pc) ==
  /\ call[t].op = op /\ call[t].pool = p /\ call[t].pc = pc
  /\ call'[t].pc # pc

\* The threads that this step gives the buffer in their slot of p.
Hits(p) == {t \in Threads : Passes(t, "get", p, "access") /\ IsReady(t)'}

\* Faulty Starts: get counts a lease when it has a guard to hand out.
StartsWhenServed(p) ==
  Hits(p) \cup {t \in Threads : Passes(t, "get", p, "init") /\ guards' # guards}

\* get counts the lease before it looks at the slot ...
Starts(p) == {t \in Threads : IsReady(t) /\ call'[t].op = "get" /\ call'[t].pool = p}

\* ... and the allocation before the initializer runs, or unwinds.
Allocates(p) == {t \in Threads : Passes(t, "get", p, "init")}

Stock(t) ==
  IF Len(slots'[t]) < Len(slots[t])       \* the thread has ended
  THEN {}
  ELSE (stock[t] \ {p \in Pools : t \in Hits(p)})
         \cup {p \in Pools : Passes(t, "park", p, "access")}

StatsNext ==
  /\ Next
  /\ leases' = [p \in Pools |-> leases[p] + Cardinality(Starts(p))]
  /\ allocations' = [p \in Pools |-> allocations[p] + Cardinality(Allocates(p))]
  /\ recycled' = [p \in Pools |-> recycled[p] + Cardinality(Hits(p))]
  /\ stock' = [t \in Threads |-> Stock(t)]
  /\ SumFunction(leases') <= MaxLeases

StatsSpec == StatsInit /\ [][StatsNext]_<<vars, counters, history>>

-----------------------------------------------------------------------------
(* Correctness.                                                             *)

\* "A lease on a thread that already returned its buffer recycles it" (local.rs,
\* ThreadLocalPool), and idle_len says so: while the pool lives nothing but the
\* thread's own lease empties its slot, no sweep for another pool's death, no
\* growth of the registry, no guard that migrates, no call that unwinds.
StockIsParked ==
  \A t \in Threads : \A p \in live :
    p \in stock[t] <=>
      SlotOf(p) \in DOMAIN slots[t] /\ slots[t][SlotOf(p)].buf # Nothing

\* At any instant the leases of a pool are enough for what was allocated and
\* what was recycled, leases that unwound included: reuses() of counters at rest
\* does not go below zero (local.rs, get; buffer.rs, PoolStats::reuses).
LeasesCoverBuffers ==
  \A p \in Pools : allocations[p] + recycled[p] <= leases[p]

=============================================================================

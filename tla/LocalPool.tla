------------------------------ MODULE LocalPool ------------------------------
(****************************************************************************)
(* The thread-local pools of src/src/local.rs: every thread parks at most   *)
(* one buffer per pool in a registry of its own, and a pool that dies tells *)
(* the registries through two atomics, its liveness flag and DROP_EPOCH.    *)
(*                                                                          *)
(* One step is one access to shared memory. The atomics are weaker than     *)
(* interleaved: a load of DROP_EPOCH may return any value not older than    *)
(* what the thread already knows (view), and a load of a liveness flag is   *)
(* only sure to see the pool's death when the thread has acquired the bump  *)
(* that was released after it.                                              *)
(****************************************************************************)
EXTENDS Integers, FiniteSets, SequencesExt

CONSTANTS
  Threads,      \* the threads that use the pools
  Buffers,      \* the buffer identities (bounds the buffers alive at a time)
  MaxPools,     \* bound on the pools ever created
  StaticPools,  \* pools that are never dropped
  Nothing,      \* None: an empty slot, an empty hand
  Workload,     \* the optional operations this instance performs
  MaxHeld       \* bound on the guards a thread holds at a time

Operations == {"send", "sync", "detach", "put", "hook", "panic", "exit",
               "drop_panic"}

Pools == 0 .. MaxPools - 1       \* dense pool ids; a registry indexes by them
Items == Pools \X Buffers        \* a buffer, with the pool whose type it has

ASSUME FiniteAssumption == IsFiniteSet(Threads) /\ IsFiniteSet(Buffers)
ASSUME NothingAssumption == Nothing \notin Items
ASSUME PoolsAssumption == MaxPools \in Nat \ {0} /\ StaticPools \subseteq Nat
ASSUME WorkloadAssumption == Workload \subseteq Operations /\ MaxHeld \in Nat

VARIABLES
  nextId,   \* NEXT_ID
  live,     \* the pools whose liveness flag is true
  hook,     \* the pools with a reset hook
  epoch,    \* DROP_EPOCH
  bump,     \* the value of DROP_EPOCH each pool's death produced, 0 before
  slots,    \* the slots of each thread's registry: a flag and a parked buffer
  seen,     \* seen_epoch of each registry
  view,     \* the newest DROP_EPOCH each thread is sure to see
  call,     \* the call each thread is in, and how far it has come
  hand,     \* the buffer a return is moving
  guards    \* the guards each thread owns, as the buffers they hold

vars == <<nextId, live, hook, epoch, bump, slots, seen, view, call, hand, guards>>

-----------------------------------------------------------------------------

SlotOf(p) == p + 1      \* slots are indexed from 0, sequences from 1

Slot == [live : Pools, buf : Items \cup {Nothing}]

\* pc: ready, reset, load, sweep, access, init, bump. at: the next slot to sweep.
Ready == [op |-> "none", pool |-> 0, pc |-> "ready", at |-> 0]

IsReady(t) == call[t] = Ready
At(t, pc) == call[t].pc = pc
Go(t, pc) == call' = [call EXCEPT ![t].pc = pc]
Return(t) == call' = [call EXCEPT ![t] = Ready]

Parked(t) == {slots[t][i].buf : i \in DOMAIN slots[t]} \ {Nothing}
Alive == UNION {Parked(t) \cup guards[t] \cup ({hand[t]} \ {Nothing}) : t \in Threads}
Fresh == {b \in Buffers : \A p \in Pools : <<p, b>> \notin Alive}

\* Bounds the instance: one more buffer fits after every lease under way.
Room ==
  Cardinality(Alive) + Cardinality({t \in Threads : call[t].op = "get"})
    < Cardinality(Buffers)

\* A handle of p exists; guards and calls borrow it.
Exists(p) == p < nextId /\ p \in live
Borrowed(p) ==
  \E t \in Threads :
    \/ call[t].op # "none" /\ call[t].pool = p
    \/ \E b \in Buffers : <<p, b>> \in guards[t]

Init ==
  /\ nextId = 0
  /\ live = {}
  /\ hook = {}
  /\ epoch = 0
  /\ bump = [p \in Pools |-> 0]
  /\ slots = [t \in Threads |-> <<>>]
  /\ seen = [t \in Threads |-> 0]
  /\ view = [t \in Threads |-> 0]
  /\ call = [t \in Threads |-> Ready]
  /\ hand = [t \in Threads |-> Nothing]
  /\ guards = [t \in Threads |-> {}]

-----------------------------------------------------------------------------
(* Pools come and go.                                                       *)

New ==
  /\ nextId < MaxPools
  /\ nextId' = nextId + 1
  /\ live' = live \cup {nextId}
  /\ UNCHANGED <<hook, epoch, bump, slots, seen, view, call, hand, guards>>

\* with_reset: Arc::get_mut, so no guard and no call borrows the handle.
WithReset(p) ==
  /\ "hook" \in Workload
  /\ Exists(p) /\ ~Borrowed(p)
  /\ hook' = hook \cup {p}
  /\ UNCHANGED <<nextId, live, epoch, bump, slots, seen, view, call, hand, guards>>

\* The last handle goes: LocalInner::drop first clears the flag ...
DropPool(t, p) ==
  /\ IsReady(t)
  /\ p \notin StaticPools
  /\ Exists(p) /\ ~Borrowed(p)
  /\ live' = live \ {p}
  /\ hook' = hook \ {p}
  /\ call' = [call EXCEPT ![t] = [op |-> "drop", pool |-> p, pc |-> "bump", at |-> 0]]
  /\ UNCHANGED <<nextId, epoch, bump, slots, seen, view, hand, guards>>

\* Faulty DropBump: the epoch stays, the registries are never told.
DropBumpForgotten(t) ==
  /\ At(t, "bump")
  /\ Return(t)
  /\ UNCHANGED <<nextId, live, hook, epoch, bump, slots, seen, view, hand, guards>>

\* ... then bumps the epoch, which releases the cleared flag.
DropBump(t) ==
  /\ At(t, "bump")
  /\ epoch' = epoch + 1
  /\ bump' = [bump EXCEPT ![call[t].pool] = epoch + 1]
  /\ view' = [view EXCEPT ![t] = epoch + 1]
  /\ Return(t)
  /\ UNCHANGED <<nextId, live, hook, slots, seen, hand, guards>>

-----------------------------------------------------------------------------
(* Calls: each one goes through the registry, after its sweep.              *)

Enter(t, op, p, pc) ==
  /\ IsReady(t)
  /\ Exists(p)
  /\ call' = [call EXCEPT ![t] = [op |-> op, pool |-> p, pc |-> pc, at |-> 0]]

Get(t, p) ==
  /\ Enter(t, "get", p, "load")
  /\ Cardinality(guards[t]) < MaxHeld
  /\ Room
  /\ UNCHANGED <<nextId, live, hook, epoch, bump, slots, seen, view, hand, guards>>

IdleLen(t, p) ==
  /\ Enter(t, "idle_len", p, "load")
  /\ UNCHANGED <<nextId, live, hook, epoch, bump, slots, seen, view, hand, guards>>

\* Drop for LocalPooled: park on the dropping thread.
DropGuard(t, item) ==
  /\ item \in guards[t]
  /\ Enter(t, "park", item[1], "reset")
  /\ hand' = [hand EXCEPT ![t] = item]
  /\ guards' = [guards EXCEPT ![t] = @ \ {item}]
  /\ UNCHANGED <<nextId, live, hook, epoch, bump, slots, seen, view>>

\* put: a value detached earlier or made elsewhere.
Put(t, p) ==
  /\ "put" \in Workload
  /\ Room
  /\ Enter(t, "park", p, "reset")
  /\ \E b \in Fresh : hand' = [hand EXCEPT ![t] = <<p, b>>]
  /\ UNCHANGED <<nextId, live, hook, epoch, bump, slots, seen, view, guards>>

\* park_erased runs the hook, if any, outside the registry.
Reset(t) ==
  /\ At(t, "reset")
  /\ Go(t, "load")
  /\ UNCHANGED <<nextId, live, hook, epoch, bump, slots, seen, view, hand, guards>>

\* The hook unwinds: the buffer dies, no slot was touched.
ResetPanics(t) ==
  /\ "panic" \in Workload
  /\ At(t, "reset")
  /\ call[t].pool \in hook
  /\ hand' = [hand EXCEPT ![t] = Nothing]
  /\ Return(t)
  /\ UNCHANGED <<nextId, live, hook, epoch, bump, slots, seen, view, guards>>

-----------------------------------------------------------------------------
(* with_registry: the lazy sweep, then the operation.                       *)

\* Faulty LoadEpoch: the registry claims to have seen the bump to come.
LoadEpochAhead(t, e) ==
  /\ At(t, "load")
  /\ e \in view[t] .. epoch
  /\ view' = [view EXCEPT ![t] = e]
  /\ seen' = [seen EXCEPT ![t] = e + 1]
  /\ Go(t, IF e = seen[t] THEN "access" ELSE "sweep")
  /\ UNCHANGED <<nextId, live, hook, epoch, bump, slots, hand, guards>>

\* Faulty LoadEpoch: a return skips the sweep.
LoadEpochParkUnswept(t, e) ==
  /\ At(t, "load")
  /\ e \in view[t] .. epoch
  /\ view' = [view EXCEPT ![t] = e]
  /\ seen' = [seen EXCEPT ![t] = e]
  /\ Go(t, IF e = seen[t] \/ call[t].op = "park" THEN "access" ELSE "sweep")
  /\ UNCHANGED <<nextId, live, hook, epoch, bump, slots, hand, guards>>

LoadEpoch(t, e) ==
  /\ At(t, "load")
  /\ e \in view[t] .. epoch
  /\ view' = [view EXCEPT ![t] = e]
  /\ seen' = [seen EXCEPT ![t] = e]
  /\ Go(t, IF e = seen[t] THEN "access" ELSE "sweep")
  /\ UNCHANGED <<nextId, live, hook, epoch, bump, slots, hand, guards>>

\* Faulty FlagReads: the bump does not release, or its load does not acquire.
FlagReadsRelaxed(t, p) == IF p \in live THEN {TRUE} ELSE BOOLEAN

\* What a load of pool p's flag may return. Its death is sure to be seen by a
\* thread that has acquired the bump that followed it.
FlagReads(t, p) ==
  IF p \in live THEN {TRUE}
  ELSE IF bump[p] # 0 /\ bump[p] <= view[t] THEN {FALSE}
  ELSE BOOLEAN

\* One round of the sweep: a parked buffer of a dead pool is dropped.
SweepSlot(t) ==
  LET i == SlotOf(call[t].at)
  IN  /\ At(t, "sweep")
      /\ i <= Len(slots[t])
      /\ \/ /\ slots[t][i].buf = Nothing \/ TRUE \in FlagReads(t, slots[t][i].live)
            /\ UNCHANGED slots
         \/ /\ slots[t][i].buf # Nothing /\ FALSE \in FlagReads(t, slots[t][i].live)
            /\ slots' = [slots EXCEPT ![t][i].buf = Nothing]
      /\ call' = [call EXCEPT ![t].at = @ + 1]
      /\ UNCHANGED <<nextId, live, hook, epoch, bump, seen, view, hand, guards>>

\* The destructor of a swept buffer unwinds, by itself or because it called a
\* pool, whose registry is borrowed: the call is over, the return's own buffer
\* dies with it, and the slots behind are not swept, though seen_epoch has
\* been moved on already.
SweepPanics(t) ==
  LET i == SlotOf(call[t].at)
  IN  /\ "drop_panic" \in Workload
      /\ At(t, "sweep")
      /\ i <= Len(slots[t])
      /\ slots[t][i].buf # Nothing /\ FALSE \in FlagReads(t, slots[t][i].live)
      /\ slots' = [slots EXCEPT ![t][i].buf = Nothing]
      /\ hand' = [hand EXCEPT ![t] = Nothing]
      /\ Return(t)
      /\ UNCHANGED <<nextId, live, hook, epoch, bump, seen, view, guards>>

SweepEnds(t) ==
  /\ At(t, "sweep")
  /\ call[t].at = Len(slots[t])
  /\ Go(t, "access")
  /\ UNCHANGED <<nextId, live, hook, epoch, bump, slots, seen, view, hand, guards>>

Grown(reg, p) ==
  reg \o [i \in 1 .. SlotOf(p) - Len(reg) |-> [live |-> p, buf |-> Nothing]]

\* Faulty SlotFor: a slot filled in by another pool's resize is not repaired.
SlotForUnrepaired(reg, p) == IF Len(reg) <= p THEN Grown(reg, p) ELSE reg

\* The registry after slot_for(id = p): grown to the dense id, every new slot
\* with p's flag, or its slot p repaired to hold p's flag.
SlotFor(reg, p) ==
  IF Len(reg) <= p THEN Grown(reg, p) ELSE [reg EXCEPT ![SlotOf(p)].live = p]

\* Faulty TakeFrom: the slot keeps the buffer it leases.
TakeFromKeeps(reg, p) == reg

\* buf.take() on slot p.
TakeFrom(reg, p) == [reg EXCEPT ![SlotOf(p)].buf = Nothing]

\* get: the slot's buffer is taken, or the initializer is needed.
AccessGet(t) ==
  LET p   == call[t].pool
      reg == SlotFor(slots[t], p)
      buf == reg[SlotOf(p)].buf
  IN  /\ At(t, "access") /\ call[t].op = "get"
      /\ slots' = [slots EXCEPT ![t] = TakeFrom(reg, p)]
      /\ IF buf = Nothing
         THEN Go(t, "init") /\ UNCHANGED guards
         ELSE Return(t) /\ guards' = [guards EXCEPT ![t] = @ \cup {buf}]
      /\ UNCHANGED <<nextId, live, hook, epoch, bump, seen, view, hand>>

\* park: the buffer goes into the slot; one parked there before is dropped, and
\* the new one is in the slot also when that destructor unwinds.
AccessPark(t) ==
  LET p == call[t].pool
  IN  /\ At(t, "access") /\ call[t].op = "park"
      /\ slots' = [slots EXCEPT ![t] =
                     [SlotFor(@, p) EXCEPT ![SlotOf(p)].buf = hand[t]]]
      /\ hand' = [hand EXCEPT ![t] = Nothing]
      /\ Return(t)
      /\ UNCHANGED <<nextId, live, hook, epoch, bump, seen, view, guards>>

\* idle_len looks and changes nothing, not even a missing slot.
AccessIdleLen(t) ==
  /\ At(t, "access") /\ call[t].op = "idle_len"
  /\ Return(t)
  /\ UNCHANGED <<nextId, live, hook, epoch, bump, slots, seen, view, hand, guards>>

RunInit(t) ==
  /\ At(t, "init")
  /\ \E b \in Fresh :
       guards' = [guards EXCEPT ![t] = @ \cup {<<call[t].pool, b>>}]
  /\ Return(t)
  /\ UNCHANGED <<nextId, live, hook, epoch, bump, slots, seen, view, hand>>

InitPanics(t) ==
  /\ "panic" \in Workload
  /\ At(t, "init")
  /\ Return(t)
  /\ UNCHANGED <<nextId, live, hook, epoch, bump, slots, seen, view, hand, guards>>

-----------------------------------------------------------------------------
(* What user code does besides.                                             *)

Newest(x, y) == IF x < y THEN y ELSE x

\* A guard moves to another thread, and what its sender knows moves with it.
SendGuard(t, u, item) ==
  /\ "send" \in Workload
  /\ IsReady(t) /\ IsReady(u) /\ t # u
  /\ item \in guards[t]
  /\ Cardinality(guards[u]) < MaxHeld
  /\ guards' = [guards EXCEPT ![t] = @ \ {item}, ![u] = @ \cup {item}]
  /\ view' = [view EXCEPT ![u] = Newest(@, view[t])]
  /\ UNCHANGED <<nextId, live, hook, epoch, bump, slots, seen, call, hand>>

\* Any other synchronisation of two threads: a join, a channel, a scope.
Synchronize(t, u) ==
  /\ "sync" \in Workload
  /\ IsReady(t) /\ IsReady(u)
  /\ view[u] < view[t]
  /\ view' = [view EXCEPT ![u] = view[t]]
  /\ UNCHANGED <<nextId, live, hook, epoch, bump, slots, seen, call, hand, guards>>

IntoInner(t, item) ==
  /\ "detach" \in Workload
  /\ IsReady(t)
  /\ item \in guards[t]
  /\ guards' = [guards EXCEPT ![t] = @ \ {item}]
  /\ UNCHANGED <<nextId, live, hook, epoch, bump, slots, seen, view, call, hand>>

\* A thread ends: its registry drops every parked buffer. Another thread spawns
\* a new one in its place.
ThreadExit(t, u) ==
  /\ "exit" \in Workload
  /\ IsReady(t)
  /\ guards[t] = {}
  /\ slots' = [slots EXCEPT ![t] = <<>>]
  /\ seen' = [seen EXCEPT ![t] = 0]
  /\ view' = [view EXCEPT ![t] = view[u]]
  /\ UNCHANGED <<nextId, live, hook, epoch, bump, call, hand, guards>>

Step(t) ==
  \/ DropBump(t) \/ Reset(t) \/ ResetPanics(t)
  \/ \E e \in 0 .. epoch : LoadEpoch(t, e)
  \/ SweepSlot(t) \/ SweepPanics(t) \/ SweepEnds(t)
  \/ AccessGet(t) \/ AccessPark(t) \/ AccessIdleLen(t)
  \/ RunInit(t) \/ InitPanics(t)

Call(t) ==
  \/ \E p \in Pools : Get(t, p) \/ IdleLen(t, p) \/ Put(t, p) \/ DropPool(t, p)
  \/ \E item \in Items : DropGuard(t, item) \/ IntoInner(t, item)
  \/ \E u \in Threads :
       \/ Synchronize(t, u) \/ ThreadExit(t, u)
       \/ \E item \in Items : SendGuard(t, u, item)

Next ==
  \/ \E t \in Threads : Step(t) \/ Call(t)
  \/ New
  \/ \E p \in Pools : WithReset(p)

Spec == Init /\ [][Next]_vars

-----------------------------------------------------------------------------
(* Fairness: a thread that is inside a call is scheduled; a thread that is   *)
(* not keeps touching some pool, and its loads of DROP_EPOCH do not return   *)
(* an old value for ever.                                                   *)

FreshLoad(t) == LoadEpoch(t, epoch)

Fairness ==
  \A t \in Threads :
    /\ WF_vars(Step(t))
    /\ WF_vars(\E p \in StaticPools : IdleLen(t, p))
    /\ SF_vars(FreshLoad(t))

FairSpec == Spec /\ Fairness

-----------------------------------------------------------------------------
(* Correctness.                                                             *)

\* Every variable keeps its type.
TypeOK ==
  /\ nextId \in 0 .. MaxPools
  /\ live \subseteq Pools /\ hook \subseteq live
  /\ epoch \in Nat
  /\ bump \in [Pools -> 0 .. epoch]
  /\ slots \in [Threads -> Seq(Slot)]
  /\ seen \in [Threads -> 0 .. epoch]
  /\ view \in [Threads -> 0 .. epoch]
  /\ call \in [Threads -> [op : {"none", "get", "park", "idle_len", "drop"},
                           pool : Pools,
                           pc : {"ready", "reset", "load", "sweep", "access",
                                 "init", "bump"},
                           at : 0 .. MaxPools]]
  /\ hand \in [Threads -> Items \cup {Nothing}]
  /\ guards \in [Threads -> SUBSET Items]

\* A parked buffer sits in the slot of the pool whose type it has, beside that
\* pool's own flag, whatever pools have grown the registry over the slot before:
\* the downcasts of get and park_erased and the debug_assert of slot_for.
SlotsMatchPools ==
  \A t \in Threads : \A p \in Pools :
    LET i == SlotOf(p)
    IN  i \in DOMAIN slots[t] /\ slots[t][i].buf # Nothing
          => slots[t][i].live = p /\ slots[t][i].buf[1] = p

Places == {"slot", "guard", "hand"}

Holds(t, place, p, b) ==
  \/ place = "guard" /\ <<p, b>> \in guards[t]
  \/ place = "hand" /\ hand[t] = <<p, b>>
  \/ /\ place = "slot" /\ SlotOf(p) \in DOMAIN slots[t]
     /\ slots[t][SlotOf(p)].buf # Nothing /\ slots[t][SlotOf(p)].buf[2] = b

Holders(b) == {h \in Threads \X Places \X Pools : Holds(h[1], h[2], h[3], b)}

\* A buffer is in one slot, one hand or one guard: a lease takes the buffer out
\* of the slot, a migrated guard parks on one thread only.
NoAliasing == \A b \in Buffers : \A x, y \in Holders(b) : x = y

\* No stranded memory: a thread that has accounted for a pool's death keeps no
\* buffer of it, except in slots its sweep has yet to reach. A miss here is final,
\* the thread would not sweep for that pool again ("lazily but reliably").
NoStrandedBuffer ==
  \A t \in Threads : \A p \in Pools :
    LET i == SlotOf(p)
    IN  i \in DOMAIN slots[t] /\ slots[t][i].buf # Nothing
          => \/ bump[p] = 0 \/ seen[t] < bump[p]
             \/ At(t, "sweep") /\ call[t].at <= p

\* "Each thread discards them on its next pool interaction": a thread that knows
\* of a pool's death finishes no interaction with a buffer of it still parked.
DiscardedOnNextInteraction ==
  \A t \in Threads : \A p \in Pools :
    LET i == SlotOf(p)
    IN  At(t, "access") /\ bump[p] # 0 /\ bump[p] <= view[t]
          => i \notin DOMAIN slots[t] \/ slots[t][i].buf = Nothing

\* A sweep drops no buffer of a pool that still lives.
SweepSparesLivePools ==
  [][\A t \in Threads : \A p \in live :
       LET i == SlotOf(p)
       IN  At(t, "sweep") /\ i \in DOMAIN slots[t] /\ i \in DOMAIN slots'[t]
             => slots'[t][i].buf = slots[t][i].buf]_vars

\* Every buffer a dead pool has parked is dropped in the end, on every thread
\* that keeps touching pools, however late it learns of the death.
DeadPoolsAreReclaimed ==
  \A t \in Threads : \A p \in Pools :
    (p < nextId /\ p \notin live) ~>
      (SlotOf(p) \notin DOMAIN slots[t] \/ slots[t][SlotOf(p)].buf = Nothing)

=============================================================================

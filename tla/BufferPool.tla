------------------------------ MODULE BufferPool ------------------------------
(****************************************************************************)
(* The shared, sharded pool of src/src/buffer.rs, one step per access to    *)
(* shared state.                                                            *)
(*                                                                          *)
(* Idle buffers are parked in piles: NumShards shards, each used by the     *)
(* threads whose dense id selects it, and one communal reserve. A capped    *)
(* pool also keeps `parked', an atomic counter that is adjusted next to the *)
(* piles, never together with them: a pop, a push and a drain change a pile *)
(* in one step and the counter in another. A pile's mutex is held for one   *)
(* pop, push or take only, so the locked region is one step here.           *)
(*                                                                          *)
(* A buffer is a token of Buffers. It is at any time in one place: a pile,  *)
(* the hand of a thread that is inside a call, a guard, the result of a     *)
(* drain in progress, or loose in user code.                                *)
(****************************************************************************)
EXTENDS Integers, FiniteSets, SequencesExt

CONSTANTS
  Threads,     \* the threads that use the pool
  Buffers,     \* the buffer identities (bounds the buffers alive at a time)
  NumShards,   \* shards.len()
  Caps,        \* the values with_max_idle may be given
  Uncapped,    \* max_idle = usize::MAX, parked = None
  NoBuffer,    \* an empty hand
  Workload,    \* the optional operations this instance performs
  MaxHeld,     \* bound on the guards a thread holds at a time
  MaxFill,     \* bound on the argument of prefill
  MaxTids      \* bound on the dense ids handed out when threads exit

Operations == {"builder", "send", "detach", "foreign", "drain", "prefill",
               "panic", "exit"}

ASSUME BuffersAssumption ==
  IsFiniteSet(Buffers) /\ IsFiniteSet(Threads) /\ NoBuffer \notin Buffers
ASSUME ShardsAssumption == NumShards \in Nat \ {0}
ASSUME CapsAssumption == Caps \subseteq Nat /\ Uncapped \notin Nat
ASSUME WorkloadAssumption == Workload \subseteq Operations
ASSUME BoundsAssumption == MaxHeld \in Nat /\ MaxFill \in Nat /\ MaxTids \in Nat

Reserve == NumShards          \* the communal pile, swept after the shards
Piles   == 0 .. NumShards
Unassigned == -1              \* TID = usize::MAX

PC == {"ready", "pop_shard", "pop_reserve", "unpark", "init", "reset",
       "cap_allows", "unclaim", "push", "fill", "drain", "settle"}

VARIABLES
  cap,      \* max_idle
  hook,     \* whether a reset hook is registered
  pile,     \* the idle buffers of every pile, in parking order
  parked,   \* the parked counter of a capped pool
  pc,       \* where each thread is inside a call
  hand,     \* the buffer the thread's call is moving
  guards,   \* the guards each thread owns, as the buffers they hold
  loose,    \* buffers user code owns outside any guard
  clean,    \* buffers reset since user code could last write to them
  at,       \* the next pile of a drain
  haul,     \* what a drain has gathered so far
  toFill,   \* buffers a prefill still has to stock
  tid,      \* TID of each thread
  nextTid   \* NEXT_TID

vars == <<cap, hook, pile, parked, pc, hand, guards, loose, clean, at, haul,
          toFill, tid, nextTid>>

-----------------------------------------------------------------------------
(* Where the buffers are.                                                   *)

Parked  == UNION {Range(pile[p]) : p \in Piles}
InHand  == {hand[t] : t \in Threads} \ {NoBuffer}
Guarded == UNION {guards[t] : t \in Threads}
Hauled  == UNION {Range(haul[t]) : t \in Threads}
Live    == Parked \cup InHand \cup Guarded \cup Hauled \cup loose

\* The threads inside a lease that may yet have to allocate.
Leasing == {t \in Threads : pc[t] \in {"pop_shard", "pop_reserve", "init"}}

\* Bounds the instance: n more buffers fit after every call under way.
Room(n) ==
  Cardinality(Live) + Cardinality(Leasing) + SumFunction(toFill) + n
    <= Cardinality(Buffers)

\* Faulty CountIdle: the recount forgets the reserve.
CountIdleOfShards ==
  Cardinality(UNION {{p} \X DOMAIN pile[p] : p \in Piles \ {Reserve}})

\* PoolInner::count_idle under exclusive access: the sum of the pile lengths.
CountIdle == Cardinality(UNION {{p} \X DOMAIN pile[p] : p \in Piles})

Init ==
  /\ cap = Uncapped
  /\ hook = FALSE
  /\ pile = [p \in Piles |-> <<>>]
  /\ parked = 0
  /\ pc = [t \in Threads |-> "ready"]
  /\ hand = [t \in Threads |-> NoBuffer]
  /\ guards = [t \in Threads |-> {}]
  /\ loose = {}
  /\ clean = {}
  /\ at = [t \in Threads |-> 0]
  /\ haul = [t \in Threads |-> <<>>]
  /\ toFill = [t \in Threads |-> 0]
  /\ tid = [t \in Threads |-> Unassigned]
  /\ nextTid = 0

-----------------------------------------------------------------------------
(* Shard selection.                                                         *)

\* tid(): this thread's dense id, the next free one on its first use.
Tid(t) == IF tid[t] = Unassigned THEN nextTid ELSE tid[t]

\* PoolInner::shard.
Shard(t) == Tid(t) % NumShards

\* Faulty AssignTid: the id is handed out and not kept.
AssignTidForgets(t) ==
  /\ UNCHANGED tid
  /\ nextTid' = nextTid + 1

AssignTid(t) ==
  /\ tid' = [tid EXCEPT ![t] = Tid(t)]
  /\ nextTid' = IF tid[t] = Unassigned THEN nextTid + 1 ELSE nextTid

-----------------------------------------------------------------------------
(* The builders. They need the only handle and no guard: Arc::get_mut.      *)

Exclusive == \A t \in Threads : pc[t] = "ready" /\ guards[t] = {}

WithMaxIdle(n) ==
  /\ "builder" \in Workload
  /\ Exclusive
  /\ cap' = n
  /\ parked' = IF n = Uncapped THEN 0 ELSE CountIdle
  /\ UNCHANGED <<hook, pile, pc, hand, guards, loose, clean, at, haul, toFill,
                 tid, nextTid>>

WithReset ==
  /\ "builder" \in Workload
  /\ Exclusive
  /\ hook' = TRUE
  /\ UNCHANGED <<cap, pile, parked, pc, hand, guards, loose, clean, at, haul,
                 toFill, tid, nextTid>>

-----------------------------------------------------------------------------
(* Leasing: get, get_owned and with.                                        *)

Get(t) ==
  /\ pc[t] = "ready"
  /\ Cardinality(guards[t]) < MaxHeld
  /\ Room(1)
  /\ pc' = [pc EXCEPT ![t] = "pop_shard"]
  /\ UNCHANGED <<cap, hook, pile, parked, hand, guards, loose, clean, at, haul,
                 toFill, tid, nextTid>>

\* Faulty Pop: the buffer is read, not removed.
PopPeeks(t, p, miss) ==
  /\ UNCHANGED pile
  /\ IF pile[p] = <<>>
     THEN pc' = [pc EXCEPT ![t] = miss] /\ UNCHANGED hand
     ELSE /\ pc' = [pc EXCEPT ![t] = "unpark"]
          /\ hand' = [hand EXCEPT ![t] = Last(pile[p])]

\* Vec::pop under the lock of pile p; the caller unparks what it popped.
Pop(t, p, miss) ==
  IF pile[p] = <<>>
  THEN /\ pc' = [pc EXCEPT ![t] = miss]
       /\ UNCHANGED <<pile, hand>>
  ELSE /\ pc' = [pc EXCEPT ![t] = "unpark"]
       /\ hand' = [hand EXCEPT ![t] = Last(pile[p])]
       /\ pile' = [pile EXCEPT ![p] = Front(@)]

PopShard(t) ==
  /\ pc[t] = "pop_shard"
  /\ AssignTid(t)
  /\ Pop(t, Shard(t), "pop_reserve")
  /\ UNCHANGED <<cap, hook, parked, guards, loose, clean, at, haul, toFill>>

PopReserve(t) ==
  /\ pc[t] = "pop_reserve"
  /\ Pop(t, Reserve, "init")
  /\ UNCHANGED <<cap, hook, parked, guards, loose, clean, at, haul, toFill,
                 tid, nextTid>>

\* Faulty Unpark: the count is adjusted on an uncapped pool too.
UnparkAlways(t) ==
  /\ pc[t] = "unpark"
  /\ parked' = parked - 1
  /\ guards' = [guards EXCEPT ![t] = @ \cup {hand[t]}]
  /\ clean' = clean \ {hand[t]}
  /\ hand' = [hand EXCEPT ![t] = NoBuffer]
  /\ pc' = [pc EXCEPT ![t] = "ready"]
  /\ UNCHANGED <<cap, hook, pile, loose, at, haul, toFill, tid, nextTid>>

\* unpark(1), then the guard is handed to the caller, who may write through it.
Unpark(t) ==
  /\ pc[t] = "unpark"
  /\ parked' = IF cap = Uncapped THEN parked ELSE parked - 1
  /\ guards' = [guards EXCEPT ![t] = @ \cup {hand[t]}]
  /\ clean' = clean \ {hand[t]}
  /\ hand' = [hand EXCEPT ![t] = NoBuffer]
  /\ pc' = [pc EXCEPT ![t] = "ready"]
  /\ UNCHANGED <<cap, hook, pile, loose, at, haul, toFill, tid, nextTid>>

\* Both piles missed: the initializer makes a buffer, outside every lock.
RunInit(t) ==
  /\ pc[t] = "init"
  /\ \E b \in Buffers \ Live : guards' = [guards EXCEPT ![t] = @ \cup {b}]
  /\ pc' = [pc EXCEPT ![t] = "ready"]
  /\ UNCHANGED <<cap, hook, pile, parked, hand, loose, clean, at, haul, toFill,
                 tid, nextTid>>

\* The initializer unwinds: no guard was made, no pile or counter was touched.
InitPanics(t) ==
  /\ "panic" \in Workload
  /\ pc[t] \in {"init", "fill"}
  /\ pc' = [pc EXCEPT ![t] = "ready"]
  /\ toFill' = [toFill EXCEPT ![t] = 0]
  /\ UNCHANGED <<cap, hook, pile, parked, hand, guards, loose, clean, at, haul,
                 tid, nextTid>>

-----------------------------------------------------------------------------
(* Guards and loose buffers.                                                *)

\* A guard is Send: it may move to another thread in the middle of a lease.
SendGuard(t, u, b) ==
  /\ "send" \in Workload
  /\ pc[t] = "ready" /\ pc[u] = "ready"
  /\ t # u
  /\ b \in guards[t]
  /\ Cardinality(guards[u]) < MaxHeld
  /\ guards' = [guards EXCEPT ![t] = @ \ {b}, ![u] = @ \cup {b}]
  /\ UNCHANGED <<cap, hook, pile, parked, pc, hand, loose, clean, at, haul,
                 toFill, tid, nextTid>>

IntoInner(t, b) ==
  /\ "detach" \in Workload
  /\ pc[t] = "ready"
  /\ b \in guards[t]
  /\ guards' = [guards EXCEPT ![t] = @ \ {b}]
  /\ loose' = loose \cup {b}
  /\ UNCHANGED <<cap, hook, pile, parked, pc, hand, clean, at, haul, toFill,
                 tid, nextTid>>

\* User code drops a buffer it owns outside any guard.
DropLoose(b) ==
  /\ b \in loose
  /\ loose' = loose \ {b}
  /\ UNCHANGED <<cap, hook, pile, parked, pc, hand, guards, clean, at, haul,
                 toFill, tid, nextTid>>

-----------------------------------------------------------------------------
(* The return path: guard drop, put, and each buffer of a prefill.          *)

\* Drop for SharedPooled and SharedPooledOwned.
DropGuard(t, b) ==
  /\ pc[t] = "ready"
  /\ b \in guards[t]
  /\ guards' = [guards EXCEPT ![t] = @ \ {b}]
  /\ hand' = [hand EXCEPT ![t] = b]
  /\ pc' = [pc EXCEPT ![t] = "reset"]
  /\ UNCHANGED <<cap, hook, pile, parked, loose, clean, at, haul, toFill, tid,
                 nextTid>>

\* Faulty Put: a buffer put by hand is not reset.
PutUnreset(t, b) ==
  /\ pc[t] = "ready"
  /\ b \in loose \/ (b \notin Live /\ "foreign" \in Workload /\ Room(1))
  /\ loose' = loose \ {b}
  /\ hand' = [hand EXCEPT ![t] = b]
  /\ pc' = [pc EXCEPT ![t] = "cap_allows"]
  /\ UNCHANGED <<cap, hook, pile, parked, guards, clean, at, haul, toFill, tid,
                 nextTid>>

\* put: of a buffer that was detached or drained, or of one made elsewhere.
Put(t, b) ==
  /\ pc[t] = "ready"
  /\ b \in loose \/ (b \notin Live /\ "foreign" \in Workload /\ Room(1))
  /\ loose' = loose \ {b}
  /\ hand' = [hand EXCEPT ![t] = b]
  /\ pc' = [pc EXCEPT ![t] = "reset"]
  /\ UNCHANGED <<cap, hook, pile, parked, guards, clean, at, haul, toFill, tid,
                 nextTid>>

\* prefill(n): n rounds of the initializer and stock_reserve.
Prefill(t, n) ==
  /\ "prefill" \in Workload
  /\ pc[t] = "ready"
  /\ Room(n)
  /\ toFill' = [toFill EXCEPT ![t] = n]
  /\ pc' = [pc EXCEPT ![t] = "fill"]
  /\ UNCHANGED <<cap, hook, pile, parked, hand, guards, loose, clean, at, haul,
                 tid, nextTid>>

FillInit(t) ==
  /\ pc[t] = "fill"
  /\ \E b \in Buffers \ Live : hand' = [hand EXCEPT ![t] = b]
  /\ pc' = [pc EXCEPT ![t] = "reset"]
  /\ UNCHANGED <<cap, hook, pile, parked, guards, loose, clean, at, haul,
                 toFill, tid, nextTid>>

Reset(t) ==
  /\ pc[t] = "reset"
  /\ clean' = IF hook THEN clean \cup {hand[t]} ELSE clean
  /\ pc' = [pc EXCEPT ![t] = "cap_allows"]
  /\ UNCHANGED <<cap, hook, pile, parked, hand, guards, loose, at, haul,
                 toFill, tid, nextTid>>

\* The hook unwinds before the cap is consulted: the buffer dies, the call
\* (a whole prefill too) is over.
ResetPanics(t) ==
  /\ "panic" \in Workload
  /\ hook
  /\ pc[t] = "reset"
  /\ hand' = [hand EXCEPT ![t] = NoBuffer]
  /\ pc' = [pc EXCEPT ![t] = "ready"]
  /\ toFill' = [toFill EXCEPT ![t] = 0]
  /\ UNCHANGED <<cap, hook, pile, parked, guards, loose, clean, at, haul, tid,
                 nextTid>>

\* Faulty Full: one return too many fits.
FullOneLate == parked > cap

\* Faulty Full: the last slot is never used.
FullOneEarly == parked + 1 >= cap

Full == parked >= cap

\* cap_allows: claim a slot in the count, or overclaim and give it back next.
CapAllows(t) ==
  /\ pc[t] = "cap_allows"
  /\ IF cap = Uncapped
     THEN /\ pc' = [pc EXCEPT ![t] = "push"]
          /\ UNCHANGED parked
     ELSE /\ pc' = [pc EXCEPT ![t] = IF Full THEN "unclaim" ELSE "push"]
          /\ parked' = parked + 1
  /\ UNCHANGED <<cap, hook, pile, hand, guards, loose, clean, at, haul, toFill,
                 tid, nextTid>>

\* The return is over; a prefill goes on to its next buffer.
FinishReturn(t) ==
  /\ hand' = [hand EXCEPT ![t] = NoBuffer]
  /\ toFill' = [toFill EXCEPT ![t] = IF @ = 0 THEN 0 ELSE @ - 1]
  /\ pc' = [pc EXCEPT ![t] = IF toFill[t] > 1 THEN "fill" ELSE "ready"]

\* Faulty Unclaim: the overclaim is not given back.
UnclaimForgets(t) ==
  /\ pc[t] = "unclaim"
  /\ UNCHANGED parked
  /\ clean' = clean \ {hand[t]}
  /\ FinishReturn(t)
  /\ UNCHANGED <<cap, hook, pile, guards, loose, at, haul, tid, nextTid>>

\* Over the cap: undo the claim and drop the buffer.
Unclaim(t) ==
  /\ pc[t] = "unclaim"
  /\ parked' = parked - 1
  /\ clean' = clean \ {hand[t]}
  /\ FinishReturn(t)
  /\ UNCHANGED <<cap, hook, pile, guards, loose, at, haul, tid, nextTid>>

\* Faulty Push: prefill stocks the caller's shard.
PushInShard(t) ==
  /\ pc[t] = "push"
  /\ AssignTid(t)
  /\ pile' = [pile EXCEPT ![Shard(t)] = Append(@, hand[t])]
  /\ FinishReturn(t)
  /\ UNCHANGED <<cap, hook, parked, guards, loose, clean, at, haul>>

\* recycle parks in the caller's shard, stock_reserve in the reserve.
Push(t) ==
  LET p == IF toFill[t] > 0 THEN Reserve ELSE Shard(t)
  IN  /\ pc[t] = "push"
      /\ IF toFill[t] > 0 THEN UNCHANGED <<tid, nextTid>> ELSE AssignTid(t)
      /\ pile' = [pile EXCEPT ![p] = Append(@, hand[t])]
      /\ FinishReturn(t)
      /\ UNCHANGED <<cap, hook, parked, guards, loose, clean, at, haul>>

-----------------------------------------------------------------------------
(* drain: pile by pile, the counter once at the end.                        *)

Drain(t) ==
  /\ "drain" \in Workload
  /\ pc[t] = "ready"
  /\ at' = [at EXCEPT ![t] = 0]
  /\ pc' = [pc EXCEPT ![t] = "drain"]
  /\ UNCHANGED <<cap, hook, pile, parked, hand, guards, loose, clean, haul,
                 toFill, tid, nextTid>>

\* Faulty DrainPile: every pile taken replaces the one taken before it.
DrainPileOverwrites(t) ==
  /\ pc[t] = "drain"
  /\ haul' = [haul EXCEPT ![t] = pile[at[t]]]
  /\ pile' = [pile EXCEPT ![at[t]] = <<>>]
  /\ at' = [at EXCEPT ![t] = IF @ = Reserve THEN 0 ELSE @ + 1]
  /\ pc' = [pc EXCEPT ![t] = IF at[t] = Reserve THEN "settle" ELSE "drain"]
  /\ UNCHANGED <<cap, hook, parked, hand, guards, loose, clean, toFill, tid,
                 nextTid>>

\* Faulty DrainPile: the sweep ends at the last shard.
DrainPileShardsOnly(t) ==
  /\ pc[t] = "drain"
  /\ haul' = [haul EXCEPT ![t] = @ \o pile[at[t]]]
  /\ pile' = [pile EXCEPT ![at[t]] = <<>>]
  /\ at' = [at EXCEPT ![t] = IF @ + 1 = Reserve THEN 0 ELSE @ + 1]
  /\ pc' = [pc EXCEPT ![t] = IF at[t] + 1 = Reserve THEN "settle" ELSE "drain"]
  /\ UNCHANGED <<cap, hook, parked, hand, guards, loose, clean, toFill, tid,
                 nextTid>>

DrainPile(t) ==
  /\ pc[t] = "drain"
  /\ haul' = [haul EXCEPT ![t] = @ \o pile[at[t]]]
  /\ pile' = [pile EXCEPT ![at[t]] = <<>>]
  /\ at' = [at EXCEPT ![t] = IF @ = Reserve THEN 0 ELSE @ + 1]
  /\ pc' = [pc EXCEPT ![t] = IF at[t] = Reserve THEN "settle" ELSE "drain"]
  /\ UNCHANGED <<cap, hook, parked, hand, guards, loose, clean, toFill, tid,
                 nextTid>>

DrainSettle(t) ==
  /\ pc[t] = "settle"
  /\ parked' = IF cap = Uncapped THEN parked ELSE parked - Len(haul[t])
  /\ loose' = loose \cup Range(haul[t])
  /\ clean' = clean \ Range(haul[t])
  /\ haul' = [haul EXCEPT ![t] = <<>>]
  /\ pc' = [pc EXCEPT ![t] = "ready"]
  /\ UNCHANGED <<cap, hook, pile, hand, guards, at, toFill, tid, nextTid>>

-----------------------------------------------------------------------------
\* A thread exits and a new one takes its place: its parked buffers stay in
\* its shard and its id is never used again.
ThreadExit(t) ==
  /\ "exit" \in Workload
  /\ pc[t] = "ready"
  /\ guards[t] = {}
  /\ tid[t] # Unassigned
  /\ nextTid < MaxTids
  /\ tid' = [tid EXCEPT ![t] = Unassigned]
  /\ UNCHANGED <<cap, hook, pile, parked, pc, hand, guards, loose, clean, at,
                 haul, toFill, nextTid>>

\* The steps of a call under way.
Step(t) ==
  \/ PopShard(t) \/ PopReserve(t) \/ Unpark(t) \/ RunInit(t) \/ InitPanics(t)
  \/ FillInit(t) \/ Reset(t) \/ ResetPanics(t) \/ CapAllows(t) \/ Unclaim(t)
  \/ Push(t) \/ DrainPile(t) \/ DrainSettle(t)

\* What user code may start, or do with the guards and buffers it owns.
Call(t) ==
  \/ Get(t) \/ Drain(t) \/ ThreadExit(t)
  \/ \E n \in 1 .. MaxFill : Prefill(t, n)
  \/ \E b \in Buffers : IntoInner(t, b) \/ DropGuard(t, b) \/ Put(t, b)
  \/ \E b \in Buffers, u \in Threads : SendGuard(t, u, b)

Next ==
  \/ \E t \in Threads : Step(t) \/ Call(t)
  \/ \E b \in Buffers : DropLoose(b)
  \/ \E n \in Caps \cup {Uncapped} : WithMaxIdle(n)
  \/ WithReset

Spec == Init /\ [][Next]_vars

-----------------------------------------------------------------------------
(* The contract: what the steps above are to the users of the pool.         *)

Returning == {hand[t] : t \in {u \in Threads :
                pc[u] \in {"reset", "cap_allows", "unclaim", "push"}}}
Out == (Live \ Parked) \ Returning

Contract == INSTANCE PoolContract
              WITH idle <- Parked, out <- Out, returning <- Returning

\* Every step is a step of the contract or changes nothing in it: an idle buffer
\* is never lost, an uncapped pool parks every return, no return breaks the cap
\* (pop_shard, pop_reserve, recycle, stock_reserve and drain together).
KeepsContract == Contract!Spec

-----------------------------------------------------------------------------
(* Correctness.                                                             *)

\* Every variable keeps its type. `parked' is an unsigned counter: leaving Nat
\* is the wrap that would make the pool look full for ever (buffer.rs, unpark,
\* cap_allows, drain).
TypeOK ==
  /\ cap \in Caps \cup {Uncapped}
  /\ hook \in BOOLEAN
  /\ pile \in [Piles -> Seq(Buffers)]
  /\ parked \in Nat
  /\ pc \in [Threads -> PC]
  /\ hand \in [Threads -> Buffers \cup {NoBuffer}]
  /\ guards \in [Threads -> SUBSET Buffers]
  /\ loose \subseteq Buffers
  /\ clean \subseteq Buffers
  /\ at \in [Threads -> Piles]
  /\ haul \in [Threads -> Seq(Buffers)]
  /\ toFill \in [Threads -> Nat]
  /\ tid \in [Threads -> Nat \cup {Unassigned}]
  /\ nextTid \in Nat

\* A buffer is in one place only, once: no two leases alias, no buffer is
\* parked twice or leased while parked (pop, push, mem::take in drain, and the
\* take of get_owned and into_inner).
NoAliasing ==
  /\ \A p \in Piles : IsInjective(pile[p])
  /\ \A t \in Threads : IsInjective(haul[t])
  /\ \A p, q \in Piles : p # q => Range(pile[p]) \cap Range(pile[q]) = {}
  /\ \A t, u \in Threads :
       t # u => /\ Range(haul[t]) \cap Range(haul[u]) = {}
                /\ guards[t] \cap guards[u] = {}
                /\ hand[t] = hand[u] => hand[t] = NoBuffer
  /\ Parked \cap (InHand \cup Guarded \cup Hauled \cup loose) = {}
  /\ InHand \cap (Guarded \cup Hauled \cup loose) = {}
  /\ Guarded \cap (Hauled \cup loose) = {}
  /\ Hauled \cap loose = {}

\* The threads whose buffer `parked' counts although it is in no pile: a claim
\* not yet pushed, an overclaim not yet undone, a pop not yet unparked.
Pending == {t \in Threads : pc[t] \in {"push", "unclaim", "unpark"}}
Counted == Parked \cup {hand[t] : t \in Pending} \cup Hauled

\* The counter of a capped pool is exact up to the calls under way, whatever
\* order pops, pushes, overclaims, drains and a late with_max_idle come in
\* ("keeping the global count exact", buffer.rs, unpark).
CountExact == cap # Uncapped => parked = Cardinality(Counted)

\* The buffers the cap has let in: parked, or claimed and about to be.
Claims == {t \in Threads : pc[t] = "push"}
Admitted == Parked \cup {hand[t] : t \in Claims}

\* The cap is global and holds at every instant: while a claim is out, parked
\* and claimed buffers fit under it, though the count is read and the shard
\* pushed to in different steps (buffer.rs, cap_allows and recycle).
ClaimsFitCap ==
  cap # Uncapped /\ Claims # {} => Cardinality(Admitted) <= cap

\* A return never takes a capped pool past its cap, not even one that was
\* prefilled past it before with_max_idle recounted (buffer.rs, recycle).
ParkRespectsCap ==
  [][cap # Uncapped /\ ~(Parked' \subseteq Parked)
       => Cardinality(Parked') <= cap]_vars

\* Once a hook is registered no buffer is parked unreset, whichever return path
\* it came by, guard drop, put or prefill, and also when the hook may unwind
\* (buffer.rs, recycle and stock_reserve).
ResetBeforePark ==
  [][hook => Parked' \ Parked \subseteq clean]_vars

\* What the comments of cap_allows and recycle say of a refused return: "pool
\* full". A refused return finds cap buffers parked or about to be parked.
RefusedOnlyWhenFull ==
  [][\A t \in Threads : pc[t] = "cap_allows" /\ pc'[t] = "unclaim"
       => Cardinality(Admitted) >= cap]_vars

\* What the docs of get and of the crate say of the number of buffers: it
\* "converges to the sum of per-shard peaks", "to the peak number of
\* concurrently outstanding leases". No peak exceeds what all threads can hold.
BuffersFitPeaks ==
  Cardinality(Live) <= NumShards * MaxHeld * Cardinality(Threads)

=============================================================================

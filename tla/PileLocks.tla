------------------------------ MODULE PileLocks ------------------------------
(****************************************************************************)
(* The mutexes of the shared pool's piles (src/src/buffer.rs, lock_pile and *)
(* its callers), with user code that calls the pool again.                  *)
(*                                                                          *)
(* BufferPool takes a locked region as one step; here the locks are taken   *)
(* and released. What a pop finds and whether the cap lets a return in is   *)
(* left open: the locks do not depend on it. The initializer, the hook (one *)
(* that does nothing if none is registered) and a buffer's destructor are   *)
(* user code, which may call any operation of the pool, return or unwind,   *)
(* so a thread has a stack of calls.                                        *)
(****************************************************************************)
EXTENDS Integers

CONSTANTS
  Threads,
  NumShards,   \* shards.len()
  Nobody,      \* the owner of a free lock
  MaxDepth,    \* bound on the calls nested through user code
  MaxFill      \* bound on the argument of prefill

ASSUME ShardsAssumption == NumShards \in Nat \ {0}
ASSUME NobodyAssumption == Nobody \notin Threads
ASSUME DepthAssumption == MaxDepth \in Nat \ {0} /\ MaxFill \in Nat

Reserve == NumShards
Piles   == 0 .. NumShards
Shards  == 0 .. NumShards - 1
Depths  == 1 .. MaxDepth

\* Where a call waits for a lock or holds it, and where it runs user code.
LockedPC == {"pop_shard", "pop_reserve", "push", "stock", "sweep"}
UserPC   == {"init", "fill", "reset", "refill", "destroy", "destroy_fill"}
PC       == LockedPC \cup UserPC \cup {"cap_allows", "cap_fill", "none"}

\* `at' is the pile a sweep has come to, or the buffers a prefill has to stock.
Frames  == [pc : PC, at : Nat]
NoFrame == [pc |-> "none", at |-> 0]

VARIABLES
  home,      \* the shard of each thread
  owner,     \* who holds each pile's mutex
  poisoned,  \* whether a holder of the mutex has unwound
  depth,     \* how many calls each thread is in
  frame      \* and where each of these calls is

vars == <<home, owner, poisoned, depth, frame>>

Init ==
  /\ home \in [Threads -> Shards]
  /\ owner = [p \in Piles |-> Nobody]
  /\ poisoned = [p \in Piles |-> FALSE]
  /\ depth = [t \in Threads |-> 0]
  /\ frame = [t \in Threads |-> [d \in Depths |-> NoFrame]]

-----------------------------------------------------------------------------
(* Stacks and locks.                                                        *)

\* The innermost call of a thread.
Top(t) == IF depth[t] = 0 THEN NoFrame ELSE frame[t][depth[t]]

At(t, c) == Top(t).pc = c

\* Thread t runs user code, its own or what its innermost call has called.
InUserCode(t) == Top(t).pc \in UserPC \cup {"none"}

\* The pile whose lock the innermost call needs.
Target(t) ==
  CASE Top(t).pc \in {"pop_shard", "push"}    -> home[t]
    [] Top(t).pc \in {"pop_reserve", "stock"} -> Reserve
    [] OTHER                                  -> Top(t).at

GoTo(t, c, n) ==
  /\ frame' = [frame EXCEPT ![t][depth[t]] = [pc |-> c, at |-> n]]
  /\ UNCHANGED depth

Return(t) ==
  /\ frame' = [frame EXCEPT ![t][depth[t]] = NoFrame]
  /\ depth' = [depth EXCEPT ![t] = @ - 1]

\* lock_pile: waits for the mutex, and takes it poisoned or not.
Lock(t) ==
  /\ Top(t).pc \in LockedPC
  /\ owner[Target(t)] = Nobody
  /\ owner' = [owner EXCEPT ![Target(t)] = t]
  /\ UNCHANGED <<home, poisoned, depth, frame>>

\* Faulty Locked: the guard is never dropped.
LockedForgets(t, c) ==
  /\ At(t, c)
  /\ owner[Target(t)] = t
  /\ UNCHANGED <<home, owner, poisoned>>

\* The statement under the lock, and its guard dropped at the semicolon.
Locked(t, c) ==
  /\ At(t, c)
  /\ owner[Target(t)] = t
  /\ owner' = [owner EXCEPT ![Target(t)] = Nobody]
  /\ UNCHANGED <<home, poisoned>>

-----------------------------------------------------------------------------
(* The operations.                                                          *)

\* Faulty PopShard: the guard lives through the match on what was popped.
PopShardInMatch(t) ==
  /\ At(t, "pop_shard")
  /\ owner[Target(t)] = t
  /\ UNCHANGED <<home, poisoned>>
  /\ \/ Return(t) /\ owner' = [owner EXCEPT ![Target(t)] = Nobody]
     \/ GoTo(t, "pop_reserve", 0) /\ UNCHANGED owner

\* A hit ends the lease.
PopShard(t) ==
  /\ Locked(t, "pop_shard")
  /\ Return(t) \/ GoTo(t, "pop_reserve", 0)

\* Faulty PopReserve: the initializer runs in the match on what was popped.
PopReserveInMatch(t) ==
  /\ At(t, "pop_reserve")
  /\ owner[Target(t)] = t
  /\ UNCHANGED <<home, poisoned>>
  /\ \/ Return(t) /\ owner' = [owner EXCEPT ![Target(t)] = Nobody]
     \/ GoTo(t, "init", 0) /\ UNCHANGED owner

PopReserve(t) ==
  /\ Locked(t, "pop_reserve")
  /\ Return(t) \/ GoTo(t, "init", 0)

\* cap_allows, of a return or of a prefill: no lock, two outcomes.
CapAllows(t) ==
  /\ \/ At(t, "cap_allows") /\ (GoTo(t, "push", 0) \/ GoTo(t, "destroy", 0))
     \/ At(t, "cap_fill") /\ \/ GoTo(t, "stock", Top(t).at)
                             \/ GoTo(t, "destroy_fill", Top(t).at)
  /\ UNCHANGED <<home, owner, poisoned>>

Push(t) == Locked(t, "push") /\ Return(t)

\* A prefill is over, or goes on to its next buffer.
NextFill(t) == IF Top(t).at > 1 THEN GoTo(t, "fill", Top(t).at - 1) ELSE Return(t)

Stock(t) == Locked(t, "stock") /\ NextFill(t)

\* Faulty Sweep: one pile past the reserve.
SweepPastReserve(t) ==
  /\ Locked(t, "sweep")
  /\ IF Top(t).at > Reserve THEN Return(t) ELSE GoTo(t, "sweep", Top(t).at + 1)

\* One pile of drain (mem::take) or of count_idle (len).
Sweep(t) ==
  /\ Locked(t, "sweep")
  /\ IF Top(t).at = Reserve THEN Return(t) ELSE GoTo(t, "sweep", Top(t).at + 1)

-----------------------------------------------------------------------------
(* User code.                                                               *)

\* It calls get, or drops a guard or puts, or prefills, or drains or counts.
Call(t) ==
  /\ InUserCode(t) /\ depth[t] < MaxDepth
  /\ depth' = [depth EXCEPT ![t] = @ + 1]
  /\ \E f \in {[pc |-> "pop_shard", at |-> 0],
               [pc |-> "reset", at |-> 0], [pc |-> "sweep", at |-> 0]}
              \cup [pc : {"fill"}, at : 1 .. MaxFill] :
       frame' = [frame EXCEPT ![t][depth[t] + 1] = f]
  /\ UNCHANGED <<home, owner, poisoned>>

\* The initializer, the hook or a destructor returns to the pool.
Resume(t) ==
  /\ \/ (At(t, "init") \/ At(t, "destroy")) /\ Return(t)
     \/ At(t, "fill") /\ GoTo(t, "refill", Top(t).at)
     \/ At(t, "reset") /\ GoTo(t, "cap_allows", 0)
     \/ At(t, "refill") /\ GoTo(t, "cap_fill", Top(t).at)
     \/ At(t, "destroy_fill") /\ NextFill(t)
  /\ UNCHANGED <<home, owner, poisoned>>

\* It unwinds: the call is over, and every lock the thread holds is released
\* and poisoned. The caller's code may catch it or unwind in its turn.
Unwind(t) ==
  /\ depth[t] > 0 /\ InUserCode(t)
  /\ Return(t)
  /\ owner' = [p \in Piles |-> IF owner[p] = t THEN Nobody ELSE owner[p]]
  /\ poisoned' = [p \in Piles |-> poisoned[p] \/ owner[p] = t]
  /\ UNCHANGED home

Step(t) ==
  \/ PopShard(t) \/ PopReserve(t) \/ CapAllows(t) \/ Push(t) \/ Stock(t) \/ Sweep(t)

Next == \E t \in Threads : Lock(t) \/ Step(t) \/ Call(t) \/ Resume(t) \/ Unwind(t)

Spec == Init /\ [][Next]_vars

\* Threads are scheduled, a mutex that is free again and again is got in the
\* end, and the user code of a call comes to its end, whatever it calls.
Fairness ==
  \A t \in Threads :
    /\ WF_vars(Step(t))
    /\ SF_vars(Lock(t))
    /\ \A d \in Depths : SF_vars(depth[t] = d /\ (Resume(t) \/ Unwind(t)))

FairSpec == Spec /\ Fairness

-----------------------------------------------------------------------------
(* Correctness.                                                             *)

\* Every variable keeps its type, and a thread's calls are the first ones of
\* its stack: all but the innermost are in user code.
TypeOK ==
  /\ home \in [Threads -> Shards]
  /\ owner \in [Piles -> Threads \cup {Nobody}]
  /\ poisoned \in [Piles -> BOOLEAN]
  /\ depth \in [Threads -> 0 .. MaxDepth]
  /\ frame \in [Threads -> [Depths -> Frames]]
  /\ \A t \in Threads, d \in Depths :
       /\ d > depth[t] <=> frame[t][d].pc = "none"
       /\ d < depth[t] => frame[t][d].pc \in UserPC
       /\ frame[t][d].pc = "sweep" => frame[t][d].at \in Piles

\* "Never nesting locks": no thread ever holds two piles' locks, not even when
\* the user code of one call runs another, so no two threads can wait for each
\* other (buffer.rs, get, drain, count_idle).
LocksNeverNest ==
  \A p, q \in Piles : owner[p] = owner[q] /\ owner[p] # Nobody => p = q

\* "User code must never run under a shard lock": a thread in an initializer, a
\* hook, a destructor or its own code holds no lock (buffer.rs, get, recycle).
UserCodeUnlocked ==
  \A t \in Threads, p \in Piles : InUserCode(t) => owner[p] # t

\* However user code unwinds, no pile is ever poisoned: the recovery of
\* lock_pile is a belt beside the braces (buffer.rs, lock_pile).
NeverPoisoned == \A p \in Piles : ~poisoned[p]

\* Every call comes to its end, with the calls nested in it, while other threads
\* lease, return and sweep: no deadlock, no lock that is kept (buffer.rs,
\* lock_pile).
CallsEnd ==
  \A t \in Threads : depth[t] > 0 ~> depth[t] = 0

=============================================================================

----------------------------- MODULE PoolLifetime -----------------------------
(****************************************************************************)
(* Who keeps the shared pool of src/src/buffer.rs alive, and when it may be *)
(* reconfigured: handles, owned guards and the calls that consume a handle  *)
(* each own one reference of an Arc; borrowed guards and the other calls    *)
(* borrow a handle, which the borrow checker keeps from moving meanwhile.   *)
(*                                                                          *)
(* Piles, caps and counters are BufferPool's affair: a lease may hit or     *)
(* miss and a return may be turned away or unwind, whatever is idle.        *)
(****************************************************************************)
EXTENDS Integers, FiniteSets

CONSTANTS
  Threads,
  Handles,     \* the identities a live BufferPool value may have
  Buffers,     \* the buffers that may ever be made
  Own,         \* a call that owns a reference of its own
  None,        \* no reference
  MaxConfig    \* bound on the number of reconfigurations

ASSUME FinitenessAssumption ==
  IsFiniteSet(Threads) /\ IsFiniteSet(Handles) /\ IsFiniteSet(Buffers)
ASSUME ReferencesAssumption ==
  Own \notin Handles /\ None \notin Handles \cup Buffers /\ Own # None
ASSUME ConfigAssumption == MaxConfig \in Nat

PC == {"ready", "lease", "lease_owned", "clone_arc", "recycle", "drain",
       "get_mut", "fill", "release", "drop_inner"}

VARIABLES
  strong,     \* the strong count of the Arc
  alive,      \* whether PoolInner has not been dropped
  config,     \* how often max_idle or reset was set
  handles,    \* the live BufferPool values
  owned,      \* the buffers in SharedPooledOwned guards
  lender,     \* of each buffer in a SharedPooled guard, the handle it borrows
  idle,       \* the buffers parked in the pool
  loose,      \* the buffers user code owns outside any guard
  destroyed,  \* history: the buffers that were dropped
  pc,         \* where each thread is inside a call
  via,        \* the handle its call borrows, or Own
  hand        \* the buffer its call is moving

vars == <<strong, alive, config, handles, owned, lender, idle, loose,
          destroyed, pc, via, hand>>

buffers == <<owned, lender, idle, loose, destroyed, hand>>

Borrowed == {b \in Buffers : lender[b] # None}
InHand   == {hand[t] : t \in Threads} \cap Buffers
Made     == Borrowed \cup InHand \cup owned \cup idle \cup loose \cup destroyed

\* A handle that a guard or a call borrows can be neither dropped nor moved.
Lent(h) == (\E b \in Buffers : lender[b] = h) \/ (\E t \in Threads : via[t] = h)

\* Bounds the instance: an identity is left for every handle in a builder.
RoomForHandle ==
  Cardinality(handles) + Cardinality({t \in Threads : pc[t] \in {"get_mut", "fill"}})
    < Cardinality(Handles)

\* BufferPool::new, and the one handle it returns.
Init ==
  /\ strong = 1
  /\ alive = TRUE
  /\ config = 0
  /\ \E h \in Handles : handles = {h}
  /\ owned = {}
  /\ lender = [b \in Buffers |-> None]
  /\ idle = {}
  /\ loose = {}
  /\ destroyed = {}
  /\ pc = [t \in Threads |-> "ready"]
  /\ via = [t \in Threads |-> None]
  /\ hand = [t \in Threads |-> None]

\* Thread t goes to step c of a call that stands on r.
Enter(t, c, r) ==
  /\ pc[t] = "ready"
  /\ pc' = [pc EXCEPT ![t] = c]
  /\ via' = [via EXCEPT ![t] = r]

Finish(t) ==
  /\ pc' = [pc EXCEPT ![t] = "ready"]
  /\ via' = [via EXCEPT ![t] = None]

-----------------------------------------------------------------------------
(* Handles.                                                                 *)

\* Clone for BufferPool.
Clone(t, h) ==
  /\ pc[t] = "ready"
  /\ h \in handles
  /\ RoomForHandle
  /\ \E c \in Handles \ handles : handles' = handles \cup {c}
  /\ strong' = strong + 1
  /\ UNCHANGED <<alive, config, buffers, pc, via>>

DropHandle(t, h) ==
  /\ h \in handles /\ ~Lent(h)
  /\ Enter(t, "release", Own)
  /\ handles' = handles \ {h}
  /\ UNCHANGED <<strong, alive, config, buffers>>

\* Arc's drop: give the reference up, and drop the pool if it was the last one.
Release(t) ==
  /\ pc[t] = "release"
  /\ strong' = strong - 1
  /\ pc' = [pc EXCEPT ![t] = IF strong = 1 THEN "drop_inner" ELSE "ready"]
  /\ via' = [via EXCEPT ![t] = None]
  /\ UNCHANGED <<alive, config, handles, buffers>>

\* The drop of PoolInner takes the idle buffers with it.
DropInner(t) ==
  /\ pc[t] = "drop_inner"
  /\ alive' = FALSE
  /\ destroyed' = destroyed \cup idle
  /\ idle' = {}
  /\ Finish(t)
  /\ UNCHANGED <<strong, config, handles, owned, lender, loose, hand>>

-----------------------------------------------------------------------------
(* Builders: the handle moves into the call.                                *)

\* with_max_idle, with_reset ("get_mut") and prefill ("fill").
Build(t, h) ==
  /\ h \in handles /\ ~Lent(h)
  /\ \/ Enter(t, "get_mut", Own) /\ config < MaxConfig
     \/ Enter(t, "fill", Own)
  /\ handles' = handles \ {h}
  /\ UNCHANGED <<strong, alive, config, buffers>>

\* The builder returns the handle it was given.
Rebuilt(t) ==
  /\ \E h \in Handles \ handles : handles' = handles \cup {h}
  /\ Finish(t)

\* Faulty GetMut: a second reference goes unnoticed.
GetMutLax(t) ==
  /\ pc[t] = "get_mut"
  /\ strong <= 2
  /\ config' = config + 1
  /\ Rebuilt(t)
  /\ UNCHANGED <<strong, alive, buffers>>

\* Arc::get_mut succeeds: the pool is reconfigured in place.
GetMut(t) ==
  /\ pc[t] = "get_mut"
  /\ strong = 1
  /\ config' = config + 1
  /\ Rebuilt(t)
  /\ UNCHANGED <<strong, alive, buffers>>

\* It fails: `expect' panics, and the handle is dropped as the call unwinds.
GetMutPanics(t) ==
  /\ pc[t] = "get_mut"
  /\ strong # 1
  /\ pc' = [pc EXCEPT ![t] = "release"]
  /\ UNCHANGED <<strong, alive, config, handles, buffers, via>>

\* One buffer of a prefill, stocked or turned away; it may be the last one.
Fill(t) ==
  /\ pc[t] = "fill"
  /\ \E b \in Buffers \ Made :
       \/ idle' = idle \cup {b} /\ UNCHANGED destroyed
       \/ destroyed' = destroyed \cup {b} /\ UNCHANGED idle
  /\ UNCHANGED <<pc, via, handles>> \/ Rebuilt(t)
  /\ UNCHANGED <<strong, alive, config, owned, lender, loose, hand>>

\* The prefill has no buffer to make, or none left.
FillEnds(t) ==
  /\ pc[t] = "fill"
  /\ Rebuilt(t)
  /\ UNCHANGED <<strong, alive, config, buffers>>

\* The initializer or the hook unwinds: the handle is dropped.
FillPanics(t) ==
  /\ pc[t] = "fill"
  /\ pc' = [pc EXCEPT ![t] = "release"]
  /\ UNCHANGED <<strong, alive, config, handles, buffers, via>>

-----------------------------------------------------------------------------
(* Leases and returns.                                                      *)

\* get, get_owned and drain borrow the handle.
Call(t, h) ==
  /\ h \in handles
  /\ \E c \in {"lease", "lease_owned", "drain"} : Enter(t, c, h)
  /\ UNCHANGED <<strong, alive, config, handles, buffers>>

\* A lease hits, or makes a buffer. The guard of get borrows the handle; that of
\* get_owned is first to own a reference.
Lease(t) ==
  /\ pc[t] \in {"lease", "lease_owned"}
  /\ \E b \in idle \cup (Buffers \ Made) :
       /\ idle' = idle \ {b}
       /\ IF pc[t] = "lease"
          THEN /\ lender' = [lender EXCEPT ![b] = via[t]]
               /\ Finish(t)
               /\ UNCHANGED hand
          ELSE /\ hand' = [hand EXCEPT ![t] = b]
               /\ pc' = [pc EXCEPT ![t] = "clone_arc"]
               /\ UNCHANGED <<lender, via>>
  /\ UNCHANGED <<strong, alive, config, handles, owned, loose, destroyed>>

LeasePanics(t) ==
  /\ pc[t] \in {"lease", "lease_owned"}
  /\ Finish(t)
  /\ UNCHANGED <<strong, alive, config, handles, buffers>>

\* Faulty CloneArc: the guard takes a reference that nobody counted.
CloneArcUncounted(t) ==
  /\ pc[t] = "clone_arc"
  /\ owned' = owned \cup {hand[t]}
  /\ hand' = [hand EXCEPT ![t] = None]
  /\ Finish(t)
  /\ UNCHANGED <<strong, alive, config, handles, lender, idle, loose, destroyed>>

CloneArc(t) ==
  /\ pc[t] = "clone_arc"
  /\ strong' = strong + 1
  /\ owned' = owned \cup {hand[t]}
  /\ hand' = [hand EXCEPT ![t] = None]
  /\ Finish(t)
  /\ UNCHANGED <<alive, config, handles, lender, idle, loose, destroyed>>

\* Drop for SharedPooled: the borrow lasts until the buffer is recycled.
DropGuard(t, b) ==
  /\ lender[b] # None
  /\ Enter(t, "recycle", lender[b])
  /\ lender' = [lender EXCEPT ![b] = None]
  /\ hand' = [hand EXCEPT ![t] = b]
  /\ UNCHANGED <<strong, alive, config, handles, owned, idle, loose, destroyed>>

\* Faulty DropOwned: the reference is given up before the buffer is recycled.
DropOwnedUnheld(t, b) ==
  /\ b \in owned
  /\ Enter(t, "recycle", None)
  /\ strong' = strong - 1
  /\ alive' = (strong > 1)
  /\ owned' = owned \ {b}
  /\ hand' = [hand EXCEPT ![t] = b]
  /\ UNCHANGED <<config, handles, lender, idle, loose, destroyed>>

\* Drop for SharedPooledOwned: its reference is dropped after the recycling.
DropOwned(t, b) ==
  /\ b \in owned
  /\ Enter(t, "recycle", Own)
  /\ owned' = owned \ {b}
  /\ hand' = [hand EXCEPT ![t] = b]
  /\ UNCHANGED <<strong, alive, config, handles, lender, idle, loose, destroyed>>

Put(t, h, b) ==
  /\ h \in handles
  /\ b \in loose
  /\ Enter(t, "recycle", h)
  /\ loose' = loose \ {b}
  /\ hand' = [hand EXCEPT ![t] = b]
  /\ UNCHANGED <<strong, alive, config, handles, owned, lender, idle, destroyed>>

\* recycle parks the buffer, or it dies at the cap or under a hook that unwinds:
\* the reference of an owned guard is dropped in each case.
Recycle(t) ==
  /\ pc[t] = "recycle"
  /\ \/ idle' = idle \cup {hand[t]} /\ UNCHANGED destroyed
     \/ destroyed' = destroyed \cup {hand[t]} /\ UNCHANGED idle
  /\ hand' = [hand EXCEPT ![t] = None]
  /\ IF via[t] = Own
     THEN pc' = [pc EXCEPT ![t] = "release"] /\ UNCHANGED via
     ELSE Finish(t)
  /\ UNCHANGED <<strong, alive, config, handles, owned, lender, loose>>

\* SharedPooled::into_inner.
IntoInner(t, b) ==
  /\ pc[t] = "ready"
  /\ lender[b] # None
  /\ lender' = [lender EXCEPT ![b] = None]
  /\ loose' = loose \cup {b}
  /\ UNCHANGED <<strong, alive, config, handles, owned, idle, destroyed, pc,
                 via, hand>>

\* Faulty IntoInnerOwned: the guard is forgotten, its reference with it.
IntoInnerOwnedForgets(t, b) ==
  /\ pc[t] = "ready"
  /\ b \in owned
  /\ owned' = owned \ {b}
  /\ loose' = loose \cup {b}
  /\ UNCHANGED <<strong, alive, config, handles, lender, idle, destroyed, pc, via,
                 hand>>

\* SharedPooledOwned::into_inner releases the guard's reference.
IntoInnerOwned(t, b) ==
  /\ b \in owned
  /\ Enter(t, "release", Own)
  /\ owned' = owned \ {b}
  /\ loose' = loose \cup {b}
  /\ UNCHANGED <<strong, alive, config, handles, lender, idle, destroyed, hand>>

DropLoose(b) ==
  /\ b \in loose
  /\ loose' = loose \ {b}
  /\ destroyed' = destroyed \cup {b}
  /\ UNCHANGED <<strong, alive, config, handles, owned, lender, idle, pc, via, hand>>

\* drain takes whatever it finds.
Drain(t) ==
  /\ pc[t] = "drain"
  /\ \E S \in SUBSET idle : idle' = idle \ S /\ loose' = loose \cup S
  /\ Finish(t)
  /\ UNCHANGED <<strong, alive, config, handles, owned, lender, destroyed, hand>>

-----------------------------------------------------------------------------
\* The steps of a call under way.
Step(t) ==
  \/ Release(t) \/ DropInner(t) \/ GetMut(t) \/ GetMutPanics(t)
  \/ Fill(t) \/ FillEnds(t) \/ FillPanics(t)
  \/ Lease(t) \/ LeasePanics(t) \/ CloneArc(t) \/ Recycle(t) \/ Drain(t)

Next ==
  \/ \E t \in Threads : Step(t)
  \/ \E t \in Threads, h \in Handles :
       \/ Clone(t, h) \/ DropHandle(t, h) \/ Build(t, h) \/ Call(t, h)
       \/ \E b \in Buffers : Put(t, h, b)
  \/ \E t \in Threads, b \in Buffers :
       DropGuard(t, b) \/ DropOwned(t, b) \/ IntoInner(t, b) \/ IntoInnerOwned(t, b)
  \/ \E b \in Buffers : DropLoose(b)

Spec == Init /\ [][Next]_vars

\* A call under way goes on; users need do nothing.
FairSpec == Spec /\ \A t \in Threads : WF_vars(Step(t))

-----------------------------------------------------------------------------
(* Correctness.                                                             *)

\* Every variable keeps its type.
TypeOK ==
  /\ strong \in Nat
  /\ alive \in BOOLEAN
  /\ config \in Nat
  /\ handles \subseteq Handles
  /\ owned \subseteq Buffers
  /\ lender \in [Buffers -> Handles \cup {None}]
  /\ idle \subseteq Buffers
  /\ loose \subseteq Buffers
  /\ destroyed \subseteq Buffers
  /\ pc \in [Threads -> PC]
  /\ via \in [Threads -> Handles \cup {Own, None}]
  /\ hand \in [Threads -> Buffers \cup {None}]

\* What owns a reference: handles, owned guards, and the calls that consumed one.
Owners ==
  ({"handle"} \X handles) \cup ({"guard"} \X owned)
    \cup ({"call"} \X {t \in Threads : via[t] = Own})

\* The count is exactly the owners, however clones, owned leases, unwinding
\* builders and drops on several threads interleave (buffer.rs, get_owned, Clone,
\* SharedPooledOwned).
OwnersCounted == strong = Cardinality(Owners)

\* Whoever can reach the pool finds it alive: a handle, an owned guard after the
\* last handle is gone, a borrowed guard, a call under way, and above all the
\* drop of an owned guard until its buffer is parked (buffer.rs, "the pool
\* outlives the lease even if every BufferPool value has been dropped").
UsersKeepPoolAlive ==
  \/ alive
  \/ /\ handles = {} /\ owned = {}
     /\ \A b \in Buffers : lender[b] = None
     /\ \A t \in Threads : pc[t] = "ready" /\ via[t] = None

\* The pool is reconfigured only while nothing else can reach it: no other
\* handle, no guard of either kind, no other call that might be between two
\* looks at the cap, the counter or the hook (buffer.rs, with_max_idle,
\* with_reset: "freshly built pool is uniquely owned").
ReconfiguredAlone ==
  [][config' # config =>
       /\ handles = {} /\ owned = {} /\ Borrowed = {}
       /\ Cardinality({t \in Threads : pc[t] # "ready"}) = 1]_vars

\* When the pool is gone, every buffer ever made is with user code or has been
\* dropped, none both: no return strands a buffer in a pool that is being
\* dropped (buffer.rs, Drop for SharedPooledOwned).
BuffersDieWithPool ==
  ~alive => Made = loose \cup destroyed /\ loose \cap destroyed = {}

\* A pool that nobody owns any more is dropped, whichever of two racing drops
\* comes last, unless a builder under way hands its handle back.
PoolIsFreed ==
  (handles = {} /\ owned = {}) ~> (~alive \/ handles # {})

=============================================================================

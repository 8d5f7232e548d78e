--------------------------- MODULE PileLocksProofs ---------------------------
(****************************************************************************)
(* The safety of PileLocks for any number of threads, shards and nested     *)
(* calls: locks never nest, user code never runs under one, none is ever    *)
(* poisoned.                                                                *)
(****************************************************************************)
EXTENDS PileLocks, TLAPS

\* A lock is held by a thread whose innermost call is in a statement under that
\* very lock.
HeldAtTarget ==
  \A p \in Piles, t \in Threads :
    owner[p] = t => Top(t).pc \in LockedPC /\ Target(t) = p

IInv == TypeOK /\ HeldAtTarget /\ NeverPoisoned

USE NobodyAssumption DEF Piles, Shards, Depths, Reserve

-----------------------------------------------------------------------------
(* Lemmas about the stack.                                                  *)

\* Moving the innermost call keeps the types, when a sweep is at a pile.
LEMMA GoToKeepsType ==
  ASSUME TypeOK, NEW t \in Threads, depth[t] > 0,
         NEW c \in PC \ {"none"}, NEW n \in Nat, c = "sweep" => n \in Piles,
         GoTo(t, c, n), UNCHANGED home,
         owner' \in [Piles -> Threads \cup {Nobody}], poisoned' \in [Piles -> BOOLEAN]
  PROVE  TypeOK'
<1>1. frame' \in [Threads -> [Depths -> Frames]]
  BY DEF TypeOK, GoTo, Frames
<1>2. ASSUME NEW u \in Threads, NEW d \in Depths
      PROVE  /\ d > depth'[u] <=> frame'[u][d].pc = "none"
             /\ d < depth'[u] => frame'[u][d].pc \in UserPC
             /\ frame'[u][d].pc = "sweep" => frame'[u][d].at \in Piles
  <2>1. CASE u = t /\ d = depth[t]
    <3>1. frame'[u][d] = [pc |-> c, at |-> n]
      BY <2>1 DEF TypeOK, GoTo, Frames
    <3> QED BY <3>1, <2>1 DEF TypeOK, GoTo
  <2>2. CASE ~(u = t /\ d = depth[t])
    <3>1. frame'[u][d] = frame[u][d]
      BY <2>2 DEF TypeOK, GoTo, Frames
    <3> QED BY <3>1, <2>2 DEF TypeOK, GoTo
  <2> QED BY <2>1, <2>2
<1> QED BY <1>1, <1>2 DEF TypeOK, GoTo

\* Ending the innermost call keeps them too.
LEMMA ReturnKeepsType ==
  ASSUME TypeOK, NEW t \in Threads, depth[t] > 0, Return(t), UNCHANGED home,
         owner' \in [Piles -> Threads \cup {Nobody}], poisoned' \in [Piles -> BOOLEAN]
  PROVE  TypeOK'
<1>0. NoFrame \in Frames /\ NoFrame.pc = "none"
  BY DEF NoFrame, Frames, PC
<1>1. frame' \in [Threads -> [Depths -> Frames]]
  BY <1>0 DEF TypeOK, Return
<1>2. depth' \in [Threads -> 0 .. MaxDepth]
  BY DepthAssumption DEF TypeOK, Return
<1>3. ASSUME NEW u \in Threads, NEW d \in Depths
      PROVE  /\ d > depth'[u] <=> frame'[u][d].pc = "none"
             /\ d < depth'[u] => frame'[u][d].pc \in UserPC
             /\ frame'[u][d].pc = "sweep" => frame'[u][d].at \in Piles
  <2>1. CASE u = t /\ d = depth[t]
    <3>1. frame'[u][d] = NoFrame /\ depth'[u] = d - 1
      BY <2>1 DEF TypeOK, Return
    <3> QED BY <3>1, <1>0, DepthAssumption
  <2>2. CASE u = t /\ d # depth[t]
    <3>1. frame'[u][d] = frame[u][d] /\ depth'[u] = depth[t] - 1
      BY <2>2 DEF TypeOK, Return
    <3>2. d < depth[t] => frame[u][d].pc # "none"
      BY <2>2 DEF TypeOK
    <3> QED BY <3>1, <3>2, <2>2, DepthAssumption DEF TypeOK
  <2>3. CASE u # t
    BY <2>3 DEF TypeOK, Return
  <2> QED BY <2>1, <2>2, <2>3
<1> QED BY <1>1, <1>2, <1>3 DEF TypeOK

\* The innermost call of a thread that is in one is a frame of its stack.
LEMMA TopInCall ==
  ASSUME TypeOK, NEW t \in Threads, Top(t).pc # "none"
  PROVE  depth[t] \in Depths /\ Top(t) = frame[t][depth[t]] /\ Top(t) \in Frames
<1>1. depth[t] # 0
  BY DEF Top, NoFrame
<1> QED BY <1>1, DepthAssumption DEF TypeOK, Top

-----------------------------------------------------------------------------
(* The invariant.                                                           *)

LEMMA InitInvariant == Init => IInv
<1>1. NoFrame \in Frames /\ NoFrame.pc = "none"
  BY DEF NoFrame, Frames, PC
<1> SUFFICES ASSUME Init PROVE IInv
  OBVIOUS
<1>2. TypeOK
  BY <1>1, DepthAssumption DEF Init, TypeOK
<1>3. HeldAtTarget /\ NeverPoisoned
  BY DEF Init, HeldAtTarget, NeverPoisoned
<1> QED BY <1>2, <1>3 DEF IInv

\* A thread outside its locked statements holds no lock.
LEMMA NoLockElsewhere ==
  ASSUME IInv, NEW t \in Threads, Top(t).pc \notin LockedPC
  PROVE  \A p \in Piles : owner[p] # t
  BY DEF IInv, HeldAtTarget

\* Only t's stack and locks change in a step of t.
LEMMA OthersKeepTop ==
  ASSUME TypeOK, NEW t \in Threads, NEW u \in Threads, u # t,
         depth'[u] = depth[u], frame'[u] = frame[u], home' = home
  PROVE  Top(u)' = Top(u) /\ Target(u)' = Target(u)
  BY DEF Top, Target

\* A step of t that ends with t holding nothing keeps the locks at their targets.
LEMMA ReleasedKeepsHeld ==
  ASSUME IInv, NEW t \in Threads, home' = home,
         \A u \in Threads \ {t} : depth'[u] = depth[u] /\ frame'[u] = frame[u],
         \A p \in Piles : owner'[p] # t,
         \A p \in Piles, u \in Threads \ {t} : owner'[p] = u => owner[p] = u
  PROVE  HeldAtTarget'
<1> SUFFICES ASSUME NEW p \in Piles, NEW u \in Threads, owner'[p] = u
             PROVE  Top(u)'.pc \in LockedPC /\ Target(u)' = p
  BY DEF HeldAtTarget
<1>1. u # t /\ owner[p] = u
  OBVIOUS
<1>2. Top(u)' = Top(u) /\ Target(u)' = Target(u)
  BY <1>1, OthersKeepTop DEF IInv
<1> QED BY <1>1, <1>2 DEF IInv, HeldAtTarget

\* What every step does to the stacks: one thread moves, in place, in or out.
LEMMA Moves ==
  ASSUME TypeOK, NEW t \in Threads, depth[t] > 0,
         \/ Return(t)
         \/ \E c \in PC, n \in Nat : GoTo(t, c, n)
  PROVE  \A u \in Threads \ {t} : depth'[u] = depth[u] /\ frame'[u] = frame[u]
  BY DEF TypeOK, Return, GoTo

\* The locked statements release the lock they ran under.
LEMMA LockedReleases ==
  ASSUME IInv, NEW t \in Threads, NEW c \in LockedPC, Locked(t, c)
  PROVE  /\ owner' \in [Piles -> Threads \cup {Nobody}]
         /\ poisoned' \in [Piles -> BOOLEAN] /\ NeverPoisoned'
         /\ home' = home
         /\ depth[t] \in Depths /\ Top(t) = frame[t][depth[t]] /\ Top(t).at \in Nat
         /\ Top(t).pc = c
         /\ \A p \in Piles : owner'[p] # t
         /\ \A p \in Piles, u \in Threads \ {t} : owner'[p] = u => owner[p] = u
<1>1. Top(t).pc = c /\ c # "none"
  BY DEF Locked, At, LockedPC
<1>2. depth[t] \in Depths /\ Top(t) = frame[t][depth[t]] /\ Top(t) \in Frames
  BY <1>1, TopInCall DEF IInv
<1>3. Target(t) \in Piles
  BY <1>1, <1>2, ShardsAssumption DEF IInv, TypeOK, Target, LockedPC
<1>4. owner' = [owner EXCEPT ![Target(t)] = Nobody]
  BY DEF Locked
<1>5. owner' \in [Piles -> Threads \cup {Nobody}]
  BY <1>3, <1>4 DEF IInv, TypeOK
<1>6. \A p \in Piles : owner'[p] = IF p = Target(t) THEN Nobody ELSE owner[p]
  BY <1>3, <1>4 DEF IInv, TypeOK
<1>7. \A p \in Piles : owner'[p] # t
  BY <1>6 DEF IInv, HeldAtTarget
<1>8. \A p \in Piles, u \in Threads \ {t} : owner'[p] = u => owner[p] = u
  BY <1>6
<1>9. poisoned' = poisoned /\ home' = home
  BY DEF Locked
<1> QED BY <1>1, <1>2, <1>5, <1>7, <1>8, <1>9 DEF IInv, TypeOK, NeverPoisoned, Frames

LEMMA LockStep ==
  ASSUME IInv, NEW t \in Threads, Lock(t)
  PROVE  IInv'
<1>1. Top(t).pc # "none"
  BY DEF Lock, LockedPC
<1>2. depth[t] \in Depths /\ Top(t) = frame[t][depth[t]] /\ Top(t) \in Frames
  BY <1>1, TopInCall DEF IInv
<1>3. Target(t) \in Piles
  BY <1>1, <1>2, ShardsAssumption DEF IInv, TypeOK, Target, LockedPC, Lock
<1>4. \A p \in Piles : owner'[p] = IF p = Target(t) THEN t ELSE owner[p]
  BY <1>3 DEF IInv, TypeOK, Lock
<1>5. TypeOK'
  BY <1>3 DEF IInv, TypeOK, Lock
<1>6. \A u \in Threads : Top(u)' = Top(u) /\ Target(u)' = Target(u)
  BY DEF Lock, Top, Target
<1>7. HeldAtTarget'
  BY <1>4, <1>6 DEF IInv, HeldAtTarget, Lock
<1> QED BY <1>5, <1>7 DEF IInv, NeverPoisoned, Lock

\* A call that goes on in place, where GoTo leaves it in a proper frame.
Onward(t) ==
  \E c \in PC \ {"none"}, n \in Nat : (c = "sweep" => n \in Piles) /\ GoTo(t, c, n)

LEMMA LockedStep ==
  ASSUME IInv, NEW t \in Threads, NEW c \in LockedPC, Locked(t, c),
         Return(t) \/ Onward(t)
  PROVE  IInv'
<1>1. /\ owner' \in [Piles -> Threads \cup {Nobody}]
      /\ poisoned' \in [Piles -> BOOLEAN] /\ NeverPoisoned'
      /\ home' = home
      /\ depth[t] \in Depths
      /\ \A p \in Piles : owner'[p] # t
      /\ \A p \in Piles, u \in Threads \ {t} : owner'[p] = u => owner[p] = u
  BY LockedReleases
<1>2. depth[t] > 0 /\ TypeOK
  BY <1>1, DepthAssumption DEF IInv
<1>3. TypeOK'
  <2>1. CASE Return(t)
    BY <1>1, <1>2, <2>1, ReturnKeepsType
  <2>2. CASE Onward(t)
    BY <1>1, <1>2, <2>2, GoToKeepsType DEF Onward
  <2> QED BY <2>1, <2>2
<1>4. \A u \in Threads \ {t} : depth'[u] = depth[u] /\ frame'[u] = frame[u]
  BY <1>2, Moves DEF Onward
<1>5. HeldAtTarget'
  BY <1>1, <1>4, ReleasedKeepsHeld
<1> QED BY <1>1, <1>3, <1>5 DEF IInv

LEMMA UnlockedStep ==
  ASSUME IInv, NEW t \in Threads, Top(t).pc \notin LockedPC, depth[t] > 0,
         UNCHANGED <<home, owner, poisoned>>, Return(t) \/ Onward(t)
  PROVE  IInv'
<1>1. \A p \in Piles : owner'[p] # t
  BY NoLockElsewhere
<1>2. TypeOK /\ owner' \in [Piles -> Threads \cup {Nobody}] /\ poisoned' \in [Piles -> BOOLEAN]
  BY DEF IInv, TypeOK
<1>3. TypeOK'
  <2>1. CASE Return(t)
    BY <1>2, <2>1, ReturnKeepsType
  <2>2. CASE Onward(t)
    BY <1>2, <2>2, GoToKeepsType DEF Onward
  <2> QED BY <2>1, <2>2
<1>4. \A u \in Threads \ {t} : depth'[u] = depth[u] /\ frame'[u] = frame[u]
  BY <1>2, Moves DEF Onward
<1>5. HeldAtTarget'
  BY <1>1, <1>4, ReleasedKeepsHeld
<1> QED BY <1>3, <1>5 DEF IInv, NeverPoisoned

LEMMA CallStep ==
  ASSUME IInv, NEW t \in Threads, Call(t)
  PROVE  IInv'
<1>1. PICK f \in Frames : /\ f.pc \in PC \ {"none"} /\ (f.pc = "sweep" => f.at \in Piles)
                          /\ frame' = [frame EXCEPT ![t][depth[t] + 1] = f]
  <2>2. PICK f \in {[pc |-> "pop_shard", at |-> 0], [pc |-> "reset", at |-> 0],
                    [pc |-> "sweep", at |-> 0]} \cup [pc : {"fill"}, at : 1 .. MaxFill] :
              frame' = [frame EXCEPT ![t][depth[t] + 1] = f]
    BY DEF Call
  <2>3. f \in Frames /\ f.pc \in PC \ {"none"} /\ (f.pc = "sweep" => f.at = 0)
    <3>1. CASE f \in [pc : {"fill"}, at : 1 .. MaxFill]
      BY <3>1, DepthAssumption DEF Frames, PC, LockedPC, UserPC
    <3>2. CASE f \in {[pc |-> "pop_shard", at |-> 0], [pc |-> "reset", at |-> 0],
                      [pc |-> "sweep", at |-> 0]}
      BY <3>2 DEF Frames, PC, LockedPC, UserPC
    <3> QED BY <2>2, <3>1, <3>2
  <2>4. 0 \in Piles
    BY ShardsAssumption
  <2> QED BY <2>2, <2>3, <2>4, Zenon
<1>2. depth[t] \in 0 .. MaxDepth /\ depth[t] + 1 \in Depths
  BY DepthAssumption DEF Call, IInv, TypeOK
<1>3. depth' = [depth EXCEPT ![t] = depth[t] + 1] /\ UNCHANGED <<home, owner, poisoned>>
  BY DEF Call
<1>4. TypeOK'
  <2>1. frame' \in [Threads -> [Depths -> Frames]]
    BY <1>1, <1>2 DEF IInv, TypeOK
  <2>2. depth' \in [Threads -> 0 .. MaxDepth]
    BY <1>2, <1>3, DepthAssumption DEF IInv, TypeOK
  <2>3. ASSUME NEW u \in Threads, NEW d \in Depths
        PROVE  /\ d > depth'[u] <=> frame'[u][d].pc = "none"
               /\ d < depth'[u] => frame'[u][d].pc \in UserPC
               /\ frame'[u][d].pc = "sweep" => frame'[u][d].at \in Piles
    <3>1. CASE u # t
      BY <3>1, <1>1, <1>3 DEF IInv, TypeOK
    <3>2. CASE u = t /\ d = depth[t] + 1
      <4>1. frame'[u][d] = f /\ depth'[u] = d
        BY <3>2, <1>1, <1>2, <1>3 DEF IInv, TypeOK
      <4> QED BY <4>1, <1>1, <1>2, DepthAssumption
    <3>3. CASE u = t /\ d # depth[t] + 1
      <4>1. frame'[u][d] = frame[u][d] /\ depth'[u] = depth[t] + 1
        BY <3>3, <1>1, <1>2, <1>3 DEF IInv, TypeOK
      <4>2. d = depth[t] => frame[u][d].pc \in UserPC
        <5>1. d = depth[t] => Top(t) = frame[t][d] /\ frame[t][d].pc # "none"
          BY <3>3, <1>2, DepthAssumption DEF IInv, TypeOK, Top
        <5> QED BY <5>1, <3>3 DEF Call, InUserCode
      <4> QED BY <4>1, <4>2, <3>3, <1>2, DepthAssumption DEF IInv, TypeOK
    <3> QED BY <3>1, <3>2, <3>3
  <2> QED BY <2>1, <2>2, <2>3, <1>3 DEF IInv, TypeOK
<1>5. Top(t).pc \notin LockedPC
  BY DEF Call, InUserCode, LockedPC, UserPC
<1>6. \A p \in Piles : owner'[p] # t
  BY <1>3, <1>5, NoLockElsewhere
<1>7. \A u \in Threads \ {t} : depth'[u] = depth[u] /\ frame'[u] = frame[u]
  BY <1>1, <1>3 DEF IInv, TypeOK
<1>8. HeldAtTarget'
  BY <1>3, <1>6, <1>7, ReleasedKeepsHeld
<1> QED BY <1>3, <1>4, <1>8 DEF IInv, NeverPoisoned

\* A thread that unwinds holds no lock, so it releases and poisons none.
LEMMA UnwindStep ==
  ASSUME IInv, NEW t \in Threads, Unwind(t)
  PROVE  IInv'
<1>1. Top(t).pc \notin LockedPC
  BY DEF Unwind, InUserCode, LockedPC, UserPC
<1>2. \A p \in Piles : owner[p] # t
  BY <1>1, NoLockElsewhere
<1>3. owner' = owner /\ poisoned' = poisoned
  BY <1>2 DEF Unwind, IInv, TypeOK, NeverPoisoned
<1> QED BY <1>1, <1>3, UnlockedStep DEF Unwind

LEMMA NextInvariant ==
  ASSUME IInv, NEW t \in Threads,
         Lock(t) \/ Step(t) \/ Call(t) \/ Resume(t) \/ Unwind(t)
  PROVE  IInv'
<1>0. ASSUME Top(t).pc # "none"
      PROVE  /\ depth[t] > 0
             /\ Top(t).at \in Nat
             /\ Top(t).pc = "sweep" => Top(t).at \in Piles
  <2>1. depth[t] \in Depths /\ Top(t) = frame[t][depth[t]] /\ Top(t) \in Frames
    BY <1>0, TopInCall DEF IInv
  <2> QED BY <2>1, DepthAssumption DEF IInv, TypeOK, Frames
<1>1. CASE Lock(t)
  BY <1>1, LockStep
<1>2. CASE PopShard(t)
  BY <1>2, LockedStep DEF PopShard, Onward, LockedPC, PC
<1>3. CASE PopReserve(t)
  BY <1>3, LockedStep DEF PopReserve, Onward, LockedPC, UserPC, PC
<1>4. CASE CapAllows(t)
  <2>1. Top(t).pc \in {"cap_allows", "cap_fill"}
    BY <1>4 DEF CapAllows, At
  <2>2. Onward(t)
    BY <1>4, <2>1, <1>0 DEF CapAllows, Onward, LockedPC, UserPC, PC
  <2> QED BY <1>4, <2>1, <2>2, <1>0, UnlockedStep DEF CapAllows, LockedPC
<1>5. CASE Push(t)
  BY <1>5, LockedStep DEF Push, LockedPC
<1>6. CASE Stock(t)
  <2>1. Top(t).at \in Nat
    BY <1>6, <1>0 DEF Stock, Locked, At
  <2>2. Return(t) \/ Onward(t)
    BY <1>6, <2>1 DEF Stock, NextFill, Onward, UserPC, PC
  <2> QED BY <1>6, <2>2, LockedStep DEF Stock, LockedPC
<1>7. CASE Sweep(t)
  <2>1. Top(t).at \in Piles
    BY <1>7, <1>0 DEF Sweep, Locked, At
  <2>2. Return(t) \/ Onward(t)
    BY <1>7, <2>1, ShardsAssumption DEF Sweep, Onward, LockedPC, PC
  <2> QED BY <1>7, <2>2, LockedStep DEF Sweep, LockedPC
<1>8. CASE Call(t)
  BY <1>8, CallStep
<1>9. CASE Resume(t)
  <2>1. Top(t).pc \in UserPC
    BY <1>9 DEF Resume, At, UserPC
  <2>2. Top(t).at \in Nat /\ depth[t] > 0
    BY <2>1, <1>0 DEF UserPC
  <2>3. Return(t) \/ Onward(t)
    BY <1>9, <2>2 DEF Resume, NextFill, Onward, UserPC, PC
  <2> QED BY <1>9, <2>1, <2>2, <2>3, UnlockedStep DEF Resume, LockedPC, UserPC
<1>10. CASE Unwind(t)
  BY <1>10, UnwindStep
<1> QED BY <1>1, <1>2, <1>3, <1>4, <1>5, <1>6, <1>7, <1>8, <1>9, <1>10 DEF Step

LEMMA Invariant == Spec => []IInv
<1>1. IInv /\ [Next]_vars => IInv'
  <2>1. CASE Next
    BY <2>1, NextInvariant DEF Next
  <2>2. CASE UNCHANGED vars
    BY <2>2 DEF vars, IInv, TypeOK, HeldAtTarget, NeverPoisoned, Top, Target
  <2> QED BY <2>1, <2>2
<1> QED BY <1>1, InitInvariant, PTL DEF Spec

-----------------------------------------------------------------------------
(* The theorems.                                                            *)

\* Every variable keeps its type, and only the innermost of a thread's calls is
\* outside user code (buffer.rs, lock_pile and its callers).
THEOREM LocksTyped == Spec => []TypeOK
<1>1. IInv => TypeOK
  BY DEF IInv
<1> QED BY <1>1, Invariant, PTL

\* No thread ever holds two locks (buffer.rs, "never nesting locks").
THEOREM LocksDoNotNest == Spec => []LocksNeverNest
<1>1. IInv => LocksNeverNest
  BY DEF IInv, TypeOK, HeldAtTarget, LocksNeverNest
<1> QED BY <1>1, Invariant, PTL

\* No initializer, hook or destructor runs under a lock (buffer.rs, get, recycle).
THEOREM UserCodeRunsUnlocked == Spec => []UserCodeUnlocked
<1>1. IInv => UserCodeUnlocked
  BY DEF IInv, HeldAtTarget, UserCodeUnlocked, InUserCode, LockedPC, UserPC
<1> QED BY <1>1, Invariant, PTL

\* No pile is ever poisoned, however user code unwinds (buffer.rs, lock_pile).
THEOREM NoPilePoisoned == Spec => []NeverPoisoned
<1>1. IInv => NeverPoisoned
  BY DEF IInv
<1> QED BY <1>1, Invariant, PTL

=============================================================================

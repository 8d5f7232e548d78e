-------------------------- MODULE PoolLifetimeProofs --------------------------
(****************************************************************************)
(* The reference counts of PoolLifetime are right for any number of         *)
(* threads, handles and buffers: the pool lives while somebody can reach it *)
(* and is reconfigured only by its sole owner.                              *)
(****************************************************************************)
EXTENDS PoolLifetime, FiniteSetTheorems, TLAPS

\* What a call stands on at each of its steps, and what it has in hand.
CallInv ==
  \A t \in Threads :
    /\ via[t] = None <=> pc[t] \in {"ready", "drop_inner"}
    /\ via[t] \in Handles =>
         via[t] \in handles /\ pc[t] \notin {"get_mut", "fill", "release"}
    /\ hand[t] # None <=> pc[t] \in {"clone_arc", "recycle"}
    /\ pc[t] \in {"lease", "lease_owned", "clone_arc", "drain"} => via[t] # Own

\* A borrowed guard borrows a live handle.
LenderInv == \A b \in Buffers : lender[b] # None => lender[b] \in handles

\* A buffer is in one place at a time.
Apart ==
  /\ \A t, u \in Threads : hand[t] = hand[u] /\ hand[t] # None => t = u
  /\ \A t \in Threads : hand[t] # None =>
       /\ hand[t] \notin owned \cup idle \cup loose \cup destroyed
       /\ lender[hand[t]] = None
  /\ \A b \in Borrowed : b \notin owned \cup idle \cup loose \cup destroyed
  /\ owned \cap (idle \cup loose \cup destroyed) = {}
  /\ idle \cap (loose \cup destroyed) = {}
  /\ loose \cap destroyed = {}

\* One thread drops the pool, when nobody owns it any more.
DropInv ==
  /\ (~alive \/ \E t \in Threads : pc[t] = "drop_inner") => strong = 0
  /\ \A t, u \in Threads : pc[t] = "drop_inner" /\ pc[u] = "drop_inner" => t = u
  /\ ~alive => idle = {} /\ \A t \in Threads : pc[t] # "drop_inner"

IInv == TypeOK /\ CallInv /\ LenderInv /\ Apart /\ DropInv /\ OwnersCounted

USE ReferencesAssumption

-----------------------------------------------------------------------------
(* Counting owners.                                                         *)

Handle(h) == <<"handle", h>>
Guard(b)  == <<"guard", b>>
Caller(t) == <<"call", t>>

\* The owners are finitely many, and told apart by what they are.
LEMMA OwnersFinite ==
  ASSUME TypeOK
  PROVE  IsFiniteSet(Owners) /\ Cardinality(Owners) \in Nat
<1>1. IsFiniteSet(handles) /\ IsFiniteSet(owned)
      /\ IsFiniteSet({t \in Threads : via[t] = Own})
  BY FinitenessAssumption, FS_Subset DEF TypeOK
<1>2. \A k : IsFiniteSet({k})
  BY FS_Singleton
<1>3. /\ IsFiniteSet({"handle"} \X handles)
      /\ IsFiniteSet({"guard"} \X owned)
      /\ IsFiniteSet({"call"} \X {t \in Threads : via[t] = Own})
  BY <1>1, <1>2, FS_Product
<1>4. IsFiniteSet(Owners)
  BY <1>3, FS_Union DEF Owners
<1> QED BY <1>4, FS_CardinalityType

LEMMA OwnersAre ==
  /\ \A h : Handle(h) \in Owners <=> h \in handles
  /\ \A b : Guard(b) \in Owners <=> b \in owned
  /\ \A t : Caller(t) \in Owners <=> t \in Threads /\ via[t] = Own
  /\ \A x \in Owners :
       \/ \E h \in handles : x = Handle(h)
       \/ \E b \in owned : x = Guard(b)
       \/ \E t \in Threads : x = Caller(t) /\ via[t] = Own
  BY DEF Owners, Handle, Guard, Caller

LEMMA CountAdd ==
  ASSUME TypeOK, OwnersCounted, NEW x, x \notin Owners, Owners' = Owners \cup {x},
         strong' = strong + 1
  PROVE  OwnersCounted'
  BY OwnersFinite, FS_AddElement DEF OwnersCounted

LEMMA CountRemove ==
  ASSUME TypeOK, OwnersCounted, NEW x \in Owners, Owners' = Owners \ {x},
         strong' = strong - 1
  PROVE  OwnersCounted'
  BY OwnersFinite, FS_RemoveElement DEF OwnersCounted

LEMMA CountSwap ==
  ASSUME TypeOK, OwnersCounted, NEW x \in Owners, NEW y, y \notin Owners,
         Owners' = (Owners \ {x}) \cup {y}, strong' = strong
  PROVE  OwnersCounted'
<1>1. IsFiniteSet(Owners \ {x}) /\ Cardinality(Owners \ {x}) = Cardinality(Owners) - 1
  BY OwnersFinite, FS_RemoveElement
<1>2. Cardinality((Owners \ {x}) \cup {y}) = Cardinality(Owners \ {x}) + 1
  BY <1>1, FS_AddElement
<1> QED BY <1>1, <1>2, OwnersFinite DEF OwnersCounted

\* Nobody owns the pool when the count is zero; so whoever reaches it, by an
\* own reference or a borrowed one, keeps the count above zero.
LEMMA Reach ==
  ASSUME IInv,
         \/ handles # {} \/ owned # {} \/ \E b \in Buffers : lender[b] # None
         \/ \E t \in Threads : via[t] # None
         \/ \E t \in Threads : pc[t] \notin {"ready", "drop_inner"}
  PROVE  strong > 0 /\ alive /\ \A t \in Threads : pc[t] # "drop_inner"
<1>1. handles # {} \/ owned # {} \/ \E t \in Threads : via[t] = Own
  BY DEF IInv, CallInv, LenderInv, TypeOK
<1>2. Owners # {}
  BY <1>1, OwnersAre, Zenon
<1>3. strong # 0
  BY <1>2, OwnersFinite, FS_EmptySet DEF IInv, OwnersCounted
<1> QED BY <1>3 DEF IInv, TypeOK, DropInv

-----------------------------------------------------------------------------
(* The steps.                                                               *)


\* Everything that thread t, handle h and buffer b may do.
Action(t, h, b) ==
  \/ h \in Handles /\ Clone(t, h)
  \/ h \in Handles /\ DropHandle(t, h)
  \/ h \in Handles /\ Build(t, h)
  \/ h \in Handles /\ Call(t, h)
  \/ h \in Handles /\ b \in Buffers /\ Put(t, h, b)
  \/ b \in Buffers /\ DropGuard(t, b)
  \/ b \in Buffers /\ DropOwned(t, b)
  \/ b \in Buffers /\ IntoInner(t, b)
  \/ b \in Buffers /\ IntoInnerOwned(t, b)
  \/ Step(t)

\* The types hold.
LEMMA TypeStep ==
  ASSUME IInv, NEW t \in Threads, NEW h, NEW b, Action(t, h, b)
  PROVE  TypeOK'
<1>1. CASE h \in Handles /\ Clone(t, h)
  BY <1>1 DEF IInv, TypeOK, PC, CallInv, Clone, Enter, buffers
<1>2. CASE h \in Handles /\ DropHandle(t, h)
  BY <1>2 DEF IInv, TypeOK, PC, CallInv, DropHandle, Enter, buffers
<1>3. CASE h \in Handles /\ Build(t, h)
  BY <1>3 DEF IInv, TypeOK, PC, CallInv, Build, Enter, buffers
<1>4. CASE h \in Handles /\ Call(t, h)
  BY <1>4 DEF IInv, TypeOK, PC, CallInv, Call, Enter, buffers
<1>5. CASE h \in Handles /\ b \in Buffers /\ Put(t, h, b)
  BY <1>5 DEF IInv, TypeOK, PC, CallInv, Put, Enter, buffers
<1>6. CASE b \in Buffers /\ DropGuard(t, b)
  BY <1>6 DEF IInv, TypeOK, PC, CallInv, DropGuard, Enter
<1>7. CASE b \in Buffers /\ DropOwned(t, b)
  BY <1>7 DEF IInv, TypeOK, PC, CallInv, DropOwned, Enter
<1>8. CASE b \in Buffers /\ IntoInner(t, b)
  BY <1>8 DEF IInv, TypeOK, PC, CallInv, IntoInner
<1>9. CASE b \in Buffers /\ IntoInnerOwned(t, b)
  BY <1>9 DEF IInv, TypeOK, PC, CallInv, IntoInnerOwned, Enter
<1>10. CASE Release(t)
  <2>1. strong > 0
    BY <1>10, Reach DEF Release
  <2> QED BY <1>10, <2>1 DEF IInv, TypeOK, PC, Release, buffers
<1>11. CASE DropInner(t)
  BY <1>11 DEF IInv, TypeOK, PC, CallInv, DropInner, Finish
<1>12. CASE GetMut(t)
  BY <1>12 DEF IInv, TypeOK, PC, CallInv, GetMut, Rebuilt, Finish, buffers
<1>13. CASE GetMutPanics(t)
  BY <1>13 DEF IInv, TypeOK, PC, CallInv, GetMutPanics, buffers
<1>14. CASE Fill(t)
  BY <1>14 DEF IInv, TypeOK, PC, CallInv, Fill, Rebuilt, Finish
<1>15. CASE FillEnds(t)
  BY <1>15 DEF IInv, TypeOK, PC, CallInv, FillEnds, Rebuilt, Finish, buffers
<1>16. CASE FillPanics(t)
  BY <1>16 DEF IInv, TypeOK, PC, CallInv, FillPanics, buffers
<1>17. CASE Lease(t)
  BY <1>17 DEF IInv, TypeOK, PC, CallInv, Lease, Finish
<1>18. CASE LeasePanics(t)
  BY <1>18 DEF IInv, TypeOK, PC, CallInv, LeasePanics, Finish, buffers
<1>19. CASE CloneArc(t)
  BY <1>19 DEF IInv, TypeOK, PC, CallInv, CloneArc, Finish
<1>20. CASE Recycle(t)
  BY <1>20 DEF IInv, TypeOK, PC, CallInv, Recycle, Finish
<1>21. CASE Drain(t)
  BY <1>21 DEF IInv, TypeOK, PC, CallInv, Drain, Finish
<1> QED BY <1>1, <1>2, <1>3, <1>4, <1>5, <1>6, <1>7, <1>8, <1>9, <1>10, <1>11, <1>12, <1>13, <1>14, <1>15, <1>16, <1>17, <1>18, <1>19, <1>20, <1>21 DEF Action, Step

\* Calls stand on what they should.
LEMMA CallStep ==
  ASSUME IInv, NEW t \in Threads, NEW h, NEW b, Action(t, h, b)
  PROVE  CallInv'
<1>1. CASE h \in Handles /\ Clone(t, h)
  BY <1>1 DEF IInv, TypeOK, CallInv, Clone, Enter, buffers
<1>2. CASE h \in Handles /\ DropHandle(t, h)
  BY <1>2 DEF IInv, TypeOK, CallInv, DropHandle, Enter, buffers, Lent
<1>3. CASE h \in Handles /\ Build(t, h)
  BY <1>3 DEF IInv, TypeOK, CallInv, Build, Enter, buffers, Lent
<1>4. CASE h \in Handles /\ Call(t, h)
  BY <1>4 DEF IInv, TypeOK, CallInv, Call, Enter, buffers
<1>5. CASE h \in Handles /\ b \in Buffers /\ Put(t, h, b)
  BY <1>5 DEF IInv, TypeOK, CallInv, Put, Enter, buffers
<1>6. CASE b \in Buffers /\ DropGuard(t, b)
  BY <1>6 DEF IInv, TypeOK, CallInv, LenderInv, DropGuard, Enter
<1>7. CASE b \in Buffers /\ DropOwned(t, b)
  BY <1>7 DEF IInv, TypeOK, CallInv, DropOwned, Enter
<1>8. CASE b \in Buffers /\ IntoInner(t, b)
  BY <1>8 DEF IInv, TypeOK, CallInv, IntoInner
<1>9. CASE b \in Buffers /\ IntoInnerOwned(t, b)
  BY <1>9 DEF IInv, TypeOK, CallInv, IntoInnerOwned, Enter
<1>10. CASE Release(t)
  BY <1>10 DEF IInv, TypeOK, CallInv, Release, buffers
<1>11. CASE DropInner(t)
  BY <1>11 DEF IInv, TypeOK, CallInv, DropInner, Finish
<1>12. CASE GetMut(t)
  BY <1>12 DEF IInv, TypeOK, CallInv, GetMut, Rebuilt, Finish, buffers
<1>13. CASE GetMutPanics(t)
  BY <1>13 DEF IInv, TypeOK, CallInv, GetMutPanics, buffers
<1>14. CASE Fill(t)
  BY <1>14 DEF IInv, TypeOK, CallInv, Fill, Rebuilt, Finish
<1>15. CASE FillEnds(t)
  BY <1>15 DEF IInv, TypeOK, CallInv, FillEnds, Rebuilt, Finish, buffers
<1>16. CASE FillPanics(t)
  BY <1>16 DEF IInv, TypeOK, CallInv, FillPanics, buffers
<1>17. CASE Lease(t)
  BY <1>17 DEF IInv, TypeOK, CallInv, Lease, Finish
<1>18. CASE LeasePanics(t)
  BY <1>18 DEF IInv, TypeOK, CallInv, LeasePanics, Finish, buffers
<1>19. CASE CloneArc(t)
  BY <1>19 DEF IInv, TypeOK, CallInv, CloneArc, Finish
<1>20. CASE Recycle(t)
  BY <1>20 DEF IInv, TypeOK, CallInv, Recycle, Finish
<1>21. CASE Drain(t)
  BY <1>21 DEF IInv, TypeOK, CallInv, Drain, Finish
<1> QED BY <1>1, <1>2, <1>3, <1>4, <1>5, <1>6, <1>7, <1>8, <1>9, <1>10, <1>11, <1>12, <1>13, <1>14, <1>15, <1>16, <1>17, <1>18, <1>19, <1>20, <1>21 DEF Action, Step

\* A lent handle is neither dropped nor moved.
LEMMA LenderStep ==
  ASSUME IInv, NEW t \in Threads, NEW h, NEW b, Action(t, h, b)
  PROVE  LenderInv'
<1>1. CASE h \in Handles /\ Clone(t, h)
  BY <1>1 DEF IInv, TypeOK, CallInv, LenderInv, Clone, Enter, buffers
<1>2. CASE h \in Handles /\ DropHandle(t, h)
  BY <1>2 DEF IInv, TypeOK, CallInv, LenderInv, DropHandle, Enter, buffers, Lent
<1>3. CASE h \in Handles /\ Build(t, h)
  BY <1>3 DEF IInv, TypeOK, CallInv, LenderInv, Build, Enter, buffers, Lent
<1>4. CASE h \in Handles /\ Call(t, h)
  BY <1>4 DEF IInv, TypeOK, CallInv, LenderInv, Call, Enter, buffers
<1>5. CASE h \in Handles /\ b \in Buffers /\ Put(t, h, b)
  BY <1>5 DEF IInv, TypeOK, CallInv, LenderInv, Put, Enter, buffers
<1>6. CASE b \in Buffers /\ DropGuard(t, b)
  BY <1>6 DEF IInv, TypeOK, CallInv, LenderInv, DropGuard, Enter
<1>7. CASE b \in Buffers /\ DropOwned(t, b)
  BY <1>7 DEF IInv, TypeOK, CallInv, LenderInv, DropOwned, Enter
<1>8. CASE b \in Buffers /\ IntoInner(t, b)
  BY <1>8 DEF IInv, TypeOK, CallInv, LenderInv, IntoInner
<1>9. CASE b \in Buffers /\ IntoInnerOwned(t, b)
  BY <1>9 DEF IInv, TypeOK, CallInv, LenderInv, IntoInnerOwned, Enter
<1>10. CASE Release(t)
  BY <1>10 DEF IInv, TypeOK, CallInv, LenderInv, Release, buffers
<1>11. CASE DropInner(t)
  BY <1>11 DEF IInv, TypeOK, CallInv, LenderInv, DropInner, Finish
<1>12. CASE GetMut(t)
  BY <1>12 DEF IInv, TypeOK, CallInv, LenderInv, GetMut, Rebuilt, Finish, buffers
<1>13. CASE GetMutPanics(t)
  BY <1>13 DEF IInv, TypeOK, CallInv, LenderInv, GetMutPanics, buffers
<1>14. CASE Fill(t)
  BY <1>14 DEF IInv, TypeOK, CallInv, LenderInv, Fill, Rebuilt, Finish
<1>15. CASE FillEnds(t)
  BY <1>15 DEF IInv, TypeOK, CallInv, LenderInv, FillEnds, Rebuilt, Finish, buffers
<1>16. CASE FillPanics(t)
  BY <1>16 DEF IInv, TypeOK, CallInv, LenderInv, FillPanics, buffers
<1>17. CASE Lease(t)
  BY <1>17 DEF IInv, TypeOK, CallInv, LenderInv, Lease, Finish
<1>18. CASE LeasePanics(t)
  BY <1>18 DEF IInv, TypeOK, CallInv, LenderInv, LeasePanics, Finish, buffers
<1>19. CASE CloneArc(t)
  BY <1>19 DEF IInv, TypeOK, CallInv, LenderInv, CloneArc, Finish
<1>20. CASE Recycle(t)
  BY <1>20 DEF IInv, TypeOK, CallInv, LenderInv, Recycle, Finish
<1>21. CASE Drain(t)
  BY <1>21 DEF IInv, TypeOK, CallInv, LenderInv, Drain, Finish
<1> QED BY <1>1, <1>2, <1>3, <1>4, <1>5, <1>6, <1>7, <1>8, <1>9, <1>10, <1>11, <1>12, <1>13, <1>14, <1>15, <1>16, <1>17, <1>18, <1>19, <1>20, <1>21 DEF Action, Step

\* Buffers move from one place to another.
LEMMA ApartStep ==
  ASSUME IInv, NEW t \in Threads, NEW h, NEW b, Action(t, h, b)
  PROVE  Apart'
<1>1. CASE h \in Handles /\ Clone(t, h)
  BY <1>1 DEF IInv, TypeOK, CallInv, Apart, Borrowed, Clone, Enter, buffers
<1>2. CASE h \in Handles /\ DropHandle(t, h)
  BY <1>2 DEF IInv, TypeOK, CallInv, Apart, Borrowed, DropHandle, Enter, buffers
<1>3. CASE h \in Handles /\ Build(t, h)
  BY <1>3 DEF IInv, TypeOK, CallInv, Apart, Borrowed, Build, Enter, buffers
<1>4. CASE h \in Handles /\ Call(t, h)
  BY <1>4 DEF IInv, TypeOK, CallInv, Apart, Borrowed, Call, Enter, buffers
<1>5. CASE h \in Handles /\ b \in Buffers /\ Put(t, h, b)
  BY <1>5 DEF IInv, TypeOK, CallInv, Apart, Borrowed, Put, Enter, buffers
<1>6. CASE b \in Buffers /\ DropGuard(t, b)
  BY <1>6 DEF IInv, TypeOK, CallInv, Apart, Borrowed, DropGuard, Enter
<1>7. CASE b \in Buffers /\ DropOwned(t, b)
  BY <1>7 DEF IInv, TypeOK, CallInv, Apart, Borrowed, DropOwned, Enter
<1>8. CASE b \in Buffers /\ IntoInner(t, b)
  BY <1>8 DEF IInv, TypeOK, CallInv, Apart, Borrowed, IntoInner
<1>9. CASE b \in Buffers /\ IntoInnerOwned(t, b)
  BY <1>9 DEF IInv, TypeOK, CallInv, Apart, Borrowed, IntoInnerOwned, Enter
<1>10. CASE Release(t)
  BY <1>10 DEF IInv, TypeOK, CallInv, Apart, Borrowed, Release, buffers
<1>11. CASE DropInner(t)
  BY <1>11 DEF IInv, TypeOK, CallInv, Apart, Borrowed, DropInner, Finish
<1>12. CASE GetMut(t)
  BY <1>12 DEF IInv, TypeOK, CallInv, Apart, Borrowed, GetMut, Rebuilt, Finish, buffers
<1>13. CASE GetMutPanics(t)
  BY <1>13 DEF IInv, TypeOK, CallInv, Apart, Borrowed, GetMutPanics, buffers
<1>14. CASE Fill(t)
  BY <1>14 DEF IInv, TypeOK, CallInv, Apart, Borrowed, Fill, Rebuilt, Finish, Made, InHand
<1>15. CASE FillEnds(t)
  BY <1>15 DEF IInv, TypeOK, CallInv, Apart, Borrowed, FillEnds, Rebuilt, Finish, buffers
<1>16. CASE FillPanics(t)
  BY <1>16 DEF IInv, TypeOK, CallInv, Apart, Borrowed, FillPanics, buffers
<1>17. CASE Lease(t)
  BY <1>17 DEF IInv, TypeOK, CallInv, Apart, Borrowed, Lease, Finish, Made, InHand
<1>18. CASE LeasePanics(t)
  BY <1>18 DEF IInv, TypeOK, CallInv, Apart, Borrowed, LeasePanics, Finish, buffers
<1>19. CASE CloneArc(t)
  BY <1>19 DEF IInv, TypeOK, CallInv, Apart, Borrowed, CloneArc, Finish
<1>20. CASE Recycle(t)
  BY <1>20 DEF IInv, TypeOK, CallInv, Apart, Borrowed, Recycle, Finish
<1>21. CASE Drain(t)
  BY <1>21 DEF IInv, TypeOK, CallInv, Apart, Borrowed, Drain, Finish
<1> QED BY <1>1, <1>2, <1>3, <1>4, <1>5, <1>6, <1>7, <1>8, <1>9, <1>10, <1>11, <1>12, <1>13, <1>14, <1>15, <1>16, <1>17, <1>18, <1>19, <1>20, <1>21 DEF Action, Step

\* One thread drops the pool, once.
LEMMA DropStep ==
  ASSUME IInv, NEW t \in Threads, NEW h, NEW b, Action(t, h, b)
  PROVE  DropInv'
<1>1. CASE h \in Handles /\ Clone(t, h)
  <2>1. strong > 0 /\ alive /\ \A u \in Threads : pc[u] # "drop_inner"
    BY <1>1, Reach DEF Clone, Enter, buffers
  <2> QED BY <1>1, <2>1 DEF IInv, TypeOK, DropInv, Clone, Enter, buffers
<1>2. CASE h \in Handles /\ DropHandle(t, h)
  <2>1. strong > 0 /\ alive /\ \A u \in Threads : pc[u] # "drop_inner"
    BY <1>2, Reach DEF DropHandle, Enter, buffers
  <2> QED BY <1>2, <2>1 DEF IInv, TypeOK, DropInv, DropHandle, Enter, buffers
<1>3. CASE h \in Handles /\ Build(t, h)
  <2>1. strong > 0 /\ alive /\ \A u \in Threads : pc[u] # "drop_inner"
    BY <1>3, Reach DEF Build, Enter, buffers
  <2> QED BY <1>3, <2>1 DEF IInv, TypeOK, DropInv, Build, Enter, buffers
<1>4. CASE h \in Handles /\ Call(t, h)
  <2>1. strong > 0 /\ alive /\ \A u \in Threads : pc[u] # "drop_inner"
    BY <1>4, Reach DEF Call, Enter, buffers
  <2> QED BY <1>4, <2>1 DEF IInv, TypeOK, DropInv, Call, Enter, buffers
<1>5. CASE h \in Handles /\ b \in Buffers /\ Put(t, h, b)
  <2>1. strong > 0 /\ alive /\ \A u \in Threads : pc[u] # "drop_inner"
    BY <1>5, Reach DEF Put, Enter, buffers
  <2> QED BY <1>5, <2>1 DEF IInv, TypeOK, DropInv, Put, Enter, buffers
<1>6. CASE b \in Buffers /\ DropGuard(t, b)
  <2>1. strong > 0 /\ alive /\ \A u \in Threads : pc[u] # "drop_inner"
    BY <1>6, Reach DEF DropGuard, Enter
  <2> QED BY <1>6, <2>1 DEF IInv, TypeOK, DropInv, DropGuard, Enter
<1>7. CASE b \in Buffers /\ DropOwned(t, b)
  <2>1. strong > 0 /\ alive /\ \A u \in Threads : pc[u] # "drop_inner"
    BY <1>7, Reach DEF DropOwned, Enter
  <2> QED BY <1>7, <2>1 DEF IInv, TypeOK, DropInv, DropOwned, Enter
<1>8. CASE b \in Buffers /\ IntoInner(t, b)
  <2>1. strong > 0 /\ alive /\ \A u \in Threads : pc[u] # "drop_inner"
    BY <1>8, Reach DEF IntoInner
  <2> QED BY <1>8, <2>1 DEF IInv, TypeOK, DropInv, IntoInner
<1>9. CASE b \in Buffers /\ IntoInnerOwned(t, b)
  <2>1. strong > 0 /\ alive /\ \A u \in Threads : pc[u] # "drop_inner"
    BY <1>9, Reach DEF IntoInnerOwned, Enter
  <2> QED BY <1>9, <2>1 DEF IInv, TypeOK, DropInv, IntoInnerOwned, Enter
<1>10. CASE Release(t)
  <2>1. strong > 0 /\ alive /\ \A u \in Threads : pc[u] # "drop_inner"
    BY <1>10, Reach DEF Release, buffers
  <2> QED BY <1>10, <2>1 DEF IInv, TypeOK, DropInv, Release, buffers
<1>11. CASE DropInner(t)
  BY <1>11 DEF IInv, TypeOK, CallInv, DropInv, DropInner, Finish
<1>12. CASE GetMut(t)
  <2>1. strong > 0 /\ alive /\ \A u \in Threads : pc[u] # "drop_inner"
    BY <1>12, Reach DEF GetMut, Rebuilt, Finish, buffers
  <2> QED BY <1>12, <2>1 DEF IInv, TypeOK, DropInv, GetMut, Rebuilt, Finish, buffers
<1>13. CASE GetMutPanics(t)
  <2>1. strong > 0 /\ alive /\ \A u \in Threads : pc[u] # "drop_inner"
    BY <1>13, Reach DEF GetMutPanics, buffers
  <2> QED BY <1>13, <2>1 DEF IInv, TypeOK, DropInv, GetMutPanics, buffers
<1>14. CASE Fill(t)
  <2>1. strong > 0 /\ alive /\ \A u \in Threads : pc[u] # "drop_inner"
    BY <1>14, Reach DEF Fill, Rebuilt, Finish
  <2> QED BY <1>14, <2>1 DEF IInv, TypeOK, DropInv, Fill, Rebuilt, Finish
<1>15. CASE FillEnds(t)
  <2>1. strong > 0 /\ alive /\ \A u \in Threads : pc[u] # "drop_inner"
    BY <1>15, Reach DEF FillEnds, Rebuilt, Finish, buffers
  <2> QED BY <1>15, <2>1 DEF IInv, TypeOK, DropInv, FillEnds, Rebuilt, Finish, buffers
<1>16. CASE FillPanics(t)
  <2>1. strong > 0 /\ alive /\ \A u \in Threads : pc[u] # "drop_inner"
    BY <1>16, Reach DEF FillPanics, buffers
  <2> QED BY <1>16, <2>1 DEF IInv, TypeOK, DropInv, FillPanics, buffers
<1>17. CASE Lease(t)
  <2>1. strong > 0 /\ alive /\ \A u \in Threads : pc[u] # "drop_inner"
    BY <1>17, Reach DEF Lease, Finish
  <2> QED BY <1>17, <2>1 DEF IInv, TypeOK, DropInv, Lease, Finish
<1>18. CASE LeasePanics(t)
  <2>1. strong > 0 /\ alive /\ \A u \in Threads : pc[u] # "drop_inner"
    BY <1>18, Reach DEF LeasePanics, Finish, buffers
  <2> QED BY <1>18, <2>1 DEF IInv, TypeOK, DropInv, LeasePanics, Finish, buffers
<1>19. CASE CloneArc(t)
  <2>1. strong > 0 /\ alive /\ \A u \in Threads : pc[u] # "drop_inner"
    BY <1>19, Reach DEF CloneArc, Finish
  <2> QED BY <1>19, <2>1 DEF IInv, TypeOK, DropInv, CloneArc, Finish
<1>20. CASE Recycle(t)
  <2>1. strong > 0 /\ alive /\ \A u \in Threads : pc[u] # "drop_inner"
    BY <1>20, Reach DEF Recycle, Finish
  <2> QED BY <1>20, <2>1 DEF IInv, TypeOK, DropInv, Recycle, Finish
<1>21. CASE Drain(t)
  <2>1. strong > 0 /\ alive /\ \A u \in Threads : pc[u] # "drop_inner"
    BY <1>21, Reach DEF Drain, Finish
  <2> QED BY <1>21, <2>1 DEF IInv, TypeOK, DropInv, Drain, Finish
<1> QED BY <1>1, <1>2, <1>3, <1>4, <1>5, <1>6, <1>7, <1>8, <1>9, <1>10, <1>11, <1>12, <1>13, <1>14, <1>15, <1>16, <1>17, <1>18, <1>19, <1>20, <1>21 DEF Action, Step

\* Every reference is counted once.
LEMMA OwnersStep ==
  ASSUME IInv, NEW t \in Threads, NEW h, NEW b, Action(t, h, b)
  PROVE  OwnersCounted'
<1>1. CASE h \in Handles /\ Clone(t, h)
  <2>0. PICK g \in Handles \ handles : handles' = handles \cup {g}
    BY <1>1 DEF Clone
  <2>1. Handle(g) \notin Owners
    BY <2>0, OwnersAre
  <2>2. Owners' = Owners \cup {Handle(g)}
    BY <1>1, <2>0 DEF Owners, Handle, Clone, buffers
  <2> QED BY <1>1, <2>1, <2>2, CountAdd DEF IInv, Clone
<1>2. CASE h \in Handles /\ DropHandle(t, h)
  <2>1. Handle(h) \in Owners /\ Caller(t) \notin Owners
    BY <1>2, OwnersAre DEF DropHandle, Enter, buffers, IInv, TypeOK, CallInv
  <2>2. Owners' = (Owners \ {Handle(h)}) \cup {Caller(t)}
    BY <1>2 DEF IInv, TypeOK, CallInv, Owners, Handle, Guard, Caller, DropHandle, Enter, buffers
  <2> QED BY <1>2, <2>1, <2>2, CountSwap DEF IInv, DropHandle, Enter, buffers
<1>3. CASE h \in Handles /\ Build(t, h)
  <2>1. Handle(h) \in Owners /\ Caller(t) \notin Owners
    BY <1>3, OwnersAre DEF Build, Enter, buffers, IInv, TypeOK, CallInv
  <2>2. Owners' = (Owners \ {Handle(h)}) \cup {Caller(t)}
    BY <1>3 DEF IInv, TypeOK, CallInv, Owners, Handle, Guard, Caller, Build, Enter, buffers
  <2> QED BY <1>3, <2>1, <2>2, CountSwap DEF IInv, Build, Enter, buffers
<1>4. CASE h \in Handles /\ Call(t, h)
  <2>1. Owners' = Owners
    BY <1>4 DEF IInv, TypeOK, CallInv, Owners, Call, Enter, buffers
  <2> QED BY <1>4, <2>1 DEF IInv, OwnersCounted, Call, Enter, buffers
<1>5. CASE h \in Handles /\ b \in Buffers /\ Put(t, h, b)
  <2>1. Owners' = Owners
    BY <1>5 DEF IInv, TypeOK, CallInv, Owners, Put, Enter, buffers
  <2> QED BY <1>5, <2>1 DEF IInv, OwnersCounted, Put, Enter, buffers
<1>6. CASE b \in Buffers /\ DropGuard(t, b)
  <2>1. Owners' = Owners
    BY <1>6 DEF IInv, TypeOK, CallInv, Owners, DropGuard, Enter
  <2> QED BY <1>6, <2>1 DEF IInv, OwnersCounted, DropGuard, Enter
<1>7. CASE b \in Buffers /\ DropOwned(t, b)
  <2>1. Guard(b) \in Owners /\ Caller(t) \notin Owners
    BY <1>7, OwnersAre DEF DropOwned, Enter, IInv, TypeOK, CallInv
  <2>2. Owners' = (Owners \ {Guard(b)}) \cup {Caller(t)}
    BY <1>7 DEF IInv, TypeOK, CallInv, Owners, Handle, Guard, Caller, DropOwned, Enter
  <2> QED BY <1>7, <2>1, <2>2, CountSwap DEF IInv, DropOwned, Enter
<1>8. CASE b \in Buffers /\ IntoInner(t, b)
  <2>1. Owners' = Owners
    BY <1>8 DEF IInv, TypeOK, CallInv, Owners, IntoInner
  <2> QED BY <1>8, <2>1 DEF IInv, OwnersCounted, IntoInner
<1>9. CASE b \in Buffers /\ IntoInnerOwned(t, b)
  <2>1. Guard(b) \in Owners /\ Caller(t) \notin Owners
    BY <1>9, OwnersAre DEF IntoInnerOwned, Enter, IInv, TypeOK, CallInv
  <2>2. Owners' = (Owners \ {Guard(b)}) \cup {Caller(t)}
    BY <1>9 DEF IInv, TypeOK, CallInv, Owners, Handle, Guard, Caller, IntoInnerOwned, Enter
  <2> QED BY <1>9, <2>1, <2>2, CountSwap DEF IInv, IntoInnerOwned, Enter
<1>10. CASE Release(t)
  <2>1. Caller(t) \in Owners
    BY <1>10, OwnersAre DEF IInv, TypeOK, CallInv, Release
  <2>2. Owners' = Owners \ {Caller(t)}
    BY <1>10 DEF IInv, TypeOK, Owners, Handle, Guard, Caller, Release, buffers
  <2> QED BY <1>10, <2>1, <2>2, CountRemove DEF IInv, Release
<1>11. CASE DropInner(t)
  <2>1. Owners' = Owners
    BY <1>11 DEF IInv, TypeOK, CallInv, Owners, DropInner, Finish
  <2> QED BY <1>11, <2>1 DEF IInv, OwnersCounted, DropInner, Finish
<1>12. CASE GetMut(t)
  <2>0. PICK g \in Handles \ handles : handles' = handles \cup {g}
    BY <1>12 DEF GetMut, Rebuilt
  <2>1. Caller(t) \in Owners /\ Handle(g) \notin Owners
    BY <1>12, <2>0, OwnersAre DEF GetMut, IInv, TypeOK, CallInv
  <2>2. Owners' = (Owners \ {Caller(t)}) \cup {Handle(g)}
    BY <1>12, <2>0 DEF IInv, TypeOK, CallInv, Owners, Handle, Guard, Caller, GetMut, Rebuilt, Finish, buffers
  <2> QED BY <1>12, <2>0, <2>1, <2>2, CountSwap DEF IInv, GetMut, Rebuilt, Finish, buffers
<1>13. CASE GetMutPanics(t)
  <2>1. Owners' = Owners
    BY <1>13 DEF IInv, TypeOK, CallInv, Owners, GetMutPanics, buffers
  <2> QED BY <1>13, <2>1 DEF IInv, OwnersCounted, GetMutPanics, buffers
<1>14. CASE Fill(t)
  <2>1. CASE UNCHANGED <<pc, via, handles>>
    BY <1>14, <2>1 DEF IInv, Owners, OwnersCounted, Fill
  <2>2. CASE Rebuilt(t)
    <3>0. PICK g \in Handles \ handles : handles' = handles \cup {g}
      BY <2>2 DEF Rebuilt
    <3>1. Caller(t) \in Owners /\ Handle(g) \notin Owners
      BY <1>14, <3>0, OwnersAre DEF Fill, IInv, TypeOK, CallInv
    <3>2. Owners' = (Owners \ {Caller(t)}) \cup {Handle(g)}
      BY <1>14, <2>2, <3>0 DEF IInv, TypeOK, CallInv, Owners, Handle, Guard, Caller, Fill, Rebuilt, Finish
    <3> QED BY <1>14, <3>0, <3>1, <3>2, CountSwap DEF IInv, Fill
  <2> QED BY <1>14, <2>1, <2>2 DEF Fill
<1>15. CASE FillEnds(t)
  <2>0. PICK g \in Handles \ handles : handles' = handles \cup {g}
    BY <1>15 DEF FillEnds, Rebuilt
  <2>1. Caller(t) \in Owners /\ Handle(g) \notin Owners
    BY <1>15, <2>0, OwnersAre DEF FillEnds, IInv, TypeOK, CallInv
  <2>2. Owners' = (Owners \ {Caller(t)}) \cup {Handle(g)}
    BY <1>15, <2>0 DEF IInv, TypeOK, CallInv, Owners, Handle, Guard, Caller, FillEnds, Rebuilt, Finish, buffers
  <2> QED BY <1>15, <2>0, <2>1, <2>2, CountSwap DEF IInv, FillEnds, Rebuilt, Finish, buffers
<1>16. CASE FillPanics(t)
  <2>1. Owners' = Owners
    BY <1>16 DEF IInv, TypeOK, CallInv, Owners, FillPanics, buffers
  <2> QED BY <1>16, <2>1 DEF IInv, OwnersCounted, FillPanics, buffers
<1>17. CASE Lease(t)
  <2>1. Owners' = Owners
    BY <1>17 DEF IInv, TypeOK, CallInv, Owners, Lease, Finish
  <2> QED BY <1>17, <2>1 DEF IInv, OwnersCounted, Lease, Finish
<1>18. CASE LeasePanics(t)
  <2>1. Owners' = Owners
    BY <1>18 DEF IInv, TypeOK, CallInv, Owners, LeasePanics, Finish, buffers
  <2> QED BY <1>18, <2>1 DEF IInv, OwnersCounted, LeasePanics, Finish, buffers
<1>19. CASE CloneArc(t)
  <2>1. Guard(hand[t]) \notin Owners
    BY <1>19, OwnersAre DEF IInv, CallInv, Apart, CloneArc
  <2>2. Owners' = Owners \cup {Guard(hand[t])}
    BY <1>19 DEF IInv, TypeOK, CallInv, Owners, Guard, CloneArc, Finish
  <2> QED BY <1>19, <2>1, <2>2, CountAdd DEF IInv, CloneArc
<1>20. CASE Recycle(t)
  <2>1. Owners' = Owners
    BY <1>20 DEF IInv, TypeOK, CallInv, Owners, Recycle, Finish
  <2> QED BY <1>20, <2>1 DEF IInv, OwnersCounted, Recycle, Finish
<1>21. CASE Drain(t)
  <2>1. Owners' = Owners
    BY <1>21 DEF IInv, TypeOK, CallInv, Owners, Drain, Finish
  <2> QED BY <1>21, <2>1 DEF IInv, OwnersCounted, Drain, Finish
<1> QED BY <1>1, <1>2, <1>3, <1>4, <1>5, <1>6, <1>7, <1>8, <1>9, <1>10, <1>11, <1>12, <1>13, <1>14, <1>15, <1>16, <1>17, <1>18, <1>19, <1>20, <1>21 DEF Action, Step

LEMMA InitInvariant == Init => IInv
<1> SUFFICES ASSUME Init PROVE IInv
  OBVIOUS
<1>1. TypeOK
  BY DEF Init, TypeOK, PC
<1>2. CallInv /\ LenderInv /\ Apart /\ DropInv
  BY DEF Init, CallInv, LenderInv, Apart, DropInv, Borrowed
<1>3. PICK h \in Handles : handles = {h}
  BY DEF Init
<1>4. Owners = {Handle(h)}
  BY <1>3 DEF Init, Owners, Handle
<1>5. OwnersCounted
  BY <1>4, FS_Singleton DEF Init, OwnersCounted
<1> QED BY <1>1, <1>2, <1>5 DEF IInv

\* User code that drops a loose buffer touches nobody's reference.
LEMMA DropLooseStep ==
  ASSUME IInv, NEW b \in Buffers, DropLoose(b)
  PROVE  IInv'
<1>1. TypeOK' /\ CallInv' /\ LenderInv' /\ DropInv'
  BY DEF IInv, TypeOK, CallInv, LenderInv, DropInv, DropLoose
<1>2. Apart'
  BY DEF IInv, TypeOK, Apart, Borrowed, DropLoose
<1>3. OwnersCounted'
  BY DEF IInv, OwnersCounted, Owners, DropLoose
<1> QED BY <1>1, <1>2, <1>3 DEF IInv

\* The steps of Next are those of Action, some of which take no handle or buffer.
LEMMA NextInvariant == IInv /\ [Next]_vars => IInv'
<1> SUFFICES ASSUME IInv, [Next]_vars PROVE IInv'
  OBVIOUS
<1>1. ASSUME NEW t \in Threads, NEW h, NEW b, Action(t, h, b)
      PROVE  IInv'
  BY <1>1, TypeStep, CallStep, LenderStep, ApartStep, DropStep, OwnersStep DEF IInv
<1>2. CASE \E b \in Buffers : DropLoose(b)
  BY <1>2, DropLooseStep
<1>3. CASE UNCHANGED vars
  BY <1>3 DEF vars, IInv, TypeOK, CallInv, LenderInv, Apart, DropInv, Borrowed,
              OwnersCounted, Owners
<1> QED BY <1>1, <1>2, <1>3 DEF Next, Action

LEMMA Invariant == Spec => []IInv
  BY InitInvariant, NextInvariant, PTL DEF Spec

-----------------------------------------------------------------------------
(* The theorems.                                                            *)

\* Every variable keeps its type (buffer.rs, Arc of PoolInner).
THEOREM LifetimeTyped == Spec => []TypeOK
<1>1. IInv => TypeOK
  BY DEF IInv
<1> QED BY <1>1, Invariant, PTL

\* The strong count is the number of owners (buffer.rs, get_owned, Clone).
THEOREM CountIsOwners == Spec => []OwnersCounted
<1>1. IInv => OwnersCounted
  BY DEF IInv
<1> QED BY <1>1, Invariant, PTL

\* A pool that anything can reach has not been dropped (buffer.rs,
\* SharedPooledOwned).
THEOREM ReachableIsAlive == Spec => []UsersKeepPoolAlive
<1>1. IInv => UsersKeepPoolAlive
  <2> SUFFICES ASSUME IInv, ~alive PROVE UsersKeepPoolAlive
    BY DEF UsersKeepPoolAlive
  <2>1. /\ handles = {} /\ owned = {}
        /\ \A b \in Buffers : lender[b] = None
        /\ \A t \in Threads : via[t] = None
        /\ \A t \in Threads : pc[t] \in {"ready", "drop_inner"}
    BY Reach
  <2>2. \A t \in Threads : pc[t] # "drop_inner"
    BY DEF IInv, DropInv
  <2> QED BY <2>1, <2>2 DEF UsersKeepPoolAlive
<1> QED BY <1>1, Invariant, PTL

\* No buffer is left in a pool that is gone (buffer.rs, Drop for
\* SharedPooledOwned).
THEOREM DeadPoolIsEmpty == Spec => []BuffersDieWithPool
<1>1. IInv => BuffersDieWithPool
  <2> SUFFICES ASSUME IInv, ~alive
               PROVE  Made = loose \cup destroyed /\ loose \cap destroyed = {}
    BY DEF BuffersDieWithPool
  <2>1. /\ owned = {} /\ \A b \in Buffers : lender[b] = None
        /\ \A t \in Threads : pc[t] \in {"ready", "drop_inner"}
    BY Reach
  <2>2. InHand = {} /\ Borrowed = {} /\ idle = {}
    BY <2>1 DEF IInv, CallInv, DropInv, InHand, Borrowed
  <2> QED BY <2>1, <2>2 DEF IInv, Apart, Made
<1> QED BY <1>1, Invariant, PTL

\* Only the sole owner reconfigures the pool, with no call beside its own
\* (buffer.rs, with_max_idle, with_reset).
THEOREM ReconfigurationIsExclusive == Spec => ReconfiguredAlone
<1>1. ASSUME IInv, [Next]_vars, config' # config
      PROVE  /\ handles = {} /\ owned = {} /\ Borrowed = {}
             /\ Cardinality({t \in Threads : pc[t] # "ready"}) = 1
  <2>1. PICK t \in Threads : GetMut(t)
    BY <1>1 DEF Next, Step, vars, Clone, DropHandle, Build, Call, Put, DropGuard,
       DropOwned, IntoInner, IntoInnerOwned, Release, DropInner, GetMutPanics, Fill,
       FillEnds, FillPanics, Lease, LeasePanics, CloneArc, Recycle, Drain, DropLoose
  <2>2. pc[t] = "get_mut" /\ via[t] = Own /\ strong = 1
    BY <1>1, <2>1 DEF GetMut, IInv, TypeOK, CallInv
  <2>3. Owners = {Caller(t)}
    <3>1. PICK x : Owners = {x}
      BY <1>1, <2>2, OwnersFinite, FS_Singleton DEF IInv, OwnersCounted
    <3>2. Caller(t) \in Owners
      BY <2>2, OwnersAre
    <3> QED BY <3>1, <3>2
  <2>4. handles = {} /\ owned = {} /\ \A u \in Threads : via[u] = Own => u = t
    <3>1. \A h : Handle(h) # Caller(t)
      BY DEF Handle, Caller
    <3>2. \A b : Guard(b) # Caller(t)
      BY DEF Guard, Caller
    <3>3. \A u : Caller(u) = Caller(t) => u = t
      BY DEF Caller
    <3> QED BY <2>3, <3>1, <3>2, <3>3, OwnersAre
  <2>5. Borrowed = {}
    BY <1>1, <2>4 DEF IInv, LenderInv, Borrowed
  <2>6. \A u \in Threads : pc[u] # "drop_inner"
    BY <1>1, <2>2, Reach
  <2>7. {u \in Threads : pc[u] # "ready"} = {t}
    BY <1>1, <2>2, <2>4, <2>6 DEF IInv, TypeOK, CallInv
  <2> QED BY <2>4, <2>5, <2>7, FS_Singleton
<1>2. IInv /\ [Next]_vars =>
        [config' # config =>
           /\ handles = {} /\ owned = {} /\ Borrowed = {}
           /\ Cardinality({t \in Threads : pc[t] # "ready"}) = 1]_vars
  BY <1>1
<1> QED BY <1>2, Invariant, PTL DEF Spec, ReconfiguredAlone

=============================================================================

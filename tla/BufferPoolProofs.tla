--------------------------- MODULE BufferPoolProofs ---------------------------
(****************************************************************************)
(* Proofs about BufferPool, for every number of threads, buffers and shards *)
(* and every cap.                                                           *)
(****************************************************************************)
EXTENDS BufferPool, FiniteSetTheorems, SequenceTheorems, TLAPS

-----------------------------------------------------------------------------
(* Piles are sequences without repetition: what pop, push and take do to    *)
(* the set of parked buffers; counting positions is counting buffers.       *)

\* An empty pile holds nothing.
LEMMA EmptyPile == Range(<<>>) = {} /\ IsInjective(<<>>)
  BY DEF Range, IsInjective

\* Vec::push of a buffer the pile does not hold adds that buffer.
LEMMA PushRange ==
  ASSUME NEW B, NEW s \in Seq(B), NEW b \in B, b \notin Range(s), IsInjective(s)
  PROVE  /\ Append(s, b) \in Seq(B)
         /\ Range(Append(s, b)) = Range(s) \cup {b}
         /\ IsInjective(Append(s, b))
<1> DEFINE r == Append(s, b)
<1>1. /\ r \in Seq(B)
      /\ Len(r) = Len(s) + 1
      /\ \A i \in 1 .. Len(s) : r[i] = s[i]
      /\ r[Len(s) + 1] = b
  BY AppendProperties
<1>2. DOMAIN r = 1 .. Len(s) + 1 /\ DOMAIN s = 1 .. Len(s) /\ Len(s) \in Nat
  BY <1>1, LenProperties
<1> HIDE DEF r
<1>3. Range(r) = Range(s) \cup {b}
  <2>1. ASSUME NEW x \in Range(r) PROVE x \in Range(s) \cup {b}
    BY <1>1, <1>2 DEF Range
  <2>2. ASSUME NEW x \in Range(s) PROVE x \in Range(r)
    BY <1>1, <1>2 DEF Range
  <2>3. b \in Range(r)
    BY <1>1, <1>2 DEF Range
  <2> QED
    BY <2>1, <2>2, <2>3
<1>4. IsInjective(r)
  <2> SUFFICES ASSUME NEW i \in 1 .. Len(s) + 1, NEW j \in 1 .. Len(s) + 1, r[i] = r[j]
               PROVE  i = j
    BY <1>2 DEF IsInjective
  <2>1. \A k \in 1 .. Len(s) : r[k] # b
    BY <1>1, <1>2 DEF Range
  <2> QED
    BY <1>1, <1>2, <2>1 DEF IsInjective
<1> QED
  BY <1>1, <1>3, <1>4 DEF r

\* The parts of a pile that is not empty have its type.
LEMMA PopTypes ==
  ASSUME NEW B, NEW s \in Seq(B), s # <<>>
  PROVE  Last(s) \in B /\ Front(s) \in Seq(B)
<1>1. Len(s) \in Nat \ {0} /\ \A i \in 1 .. Len(s) : s[i] \in B
  BY EmptySeq, LenProperties
<1>2. SubSeq(s, 1, Len(s) - 1) \in Seq(B)
  <2>1. 1 \in Int /\ Len(s) - 1 \in Int /\ \A i \in 1 .. Len(s) - 1 : s[i] \in B
    BY <1>1
  <2> QED
    BY <2>1, SubSeqProperties
<1> QED
  BY <1>1, <1>2 DEF Last, Front

\* Vec::pop of a pile that is not empty removes one buffer, the last.
LEMMA PopRange ==
  ASSUME NEW B, NEW s \in Seq(B), s # <<>>, IsInjective(s)
  PROVE  /\ Last(s) \in Range(s)
         /\ Front(s) \in Seq(B)
         /\ Range(Front(s)) = Range(s) \ {Last(s)}
         /\ IsInjective(Front(s))
<1> DEFINE n == Len(s)
           r == Front(s)
<1>1. n \in Nat \ {0} /\ DOMAIN s = 1 .. n /\ \A i \in 1 .. n : s[i] \in B
  BY EmptySeq, LenProperties
<1>2. /\ r \in Seq(B)
      /\ Len(r) = n - 1
      /\ \A i \in 1 .. n - 1 : r[i] = s[i]
  <2>1. \A i \in 1 .. n - 1 : s[i] \in B
    BY <1>1
  <2>2. /\ SubSeq(s, 1, n - 1) \in Seq(B)
        /\ Len(SubSeq(s, 1, n - 1)) = IF 1 <= n - 1 THEN (n - 1) - 1 + 1 ELSE 0
        /\ \A i \in 1 .. (n - 1) - 1 + 1 : SubSeq(s, 1, n - 1)[i] = s[1 + i - 1]
    <3> HIDE DEF n
    <3> QED
      BY <1>1, <2>1, SubSeqProperties
  <2> QED
    BY <1>1, <2>2 DEF Front
<1>3. DOMAIN r = 1 .. n - 1
  BY <1>2, LenProperties
<1>4. Last(s) = s[n]
  BY DEF Last
<1> HIDE DEF n, r
<1>5. Range(r) = Range(s) \ {s[n]}
  <2>1. ASSUME NEW x \in Range(r) PROVE x \in Range(s) /\ x # s[n]
    BY <1>1, <1>2, <1>3 DEF Range, IsInjective
  <2>2. ASSUME NEW x \in Range(s), x # s[n] PROVE x \in Range(r)
    BY <1>1, <1>2, <1>3, <2>2 DEF Range
  <2> QED
    BY <2>1, <2>2
<1>6. IsInjective(r)
  BY <1>1, <1>2, <1>3 DEF IsInjective
<1>7. s[n] \in Range(s)
  BY <1>1 DEF Range
<1> QED
  BY <1>2, <1>4, <1>5, <1>6, <1>7 DEF r

\* Vec::extend with a pile that shares no buffer with the vector.
LEMMA ConcatRange ==
  ASSUME NEW B, NEW s \in Seq(B), NEW r \in Seq(B), IsInjective(s), IsInjective(r),
         Range(s) \cap Range(r) = {}
  PROVE  /\ s \o r \in Seq(B)
         /\ Range(s \o r) = Range(s) \cup Range(r)
         /\ IsInjective(s \o r)
<1> DEFINE c == s \o r
           n == Len(s)
           m == Len(r)
<1>1. n \in Nat /\ m \in Nat /\ DOMAIN s = 1 .. n /\ DOMAIN r = 1 .. m
  BY LenProperties
<1>2. /\ c \in Seq(B)
      /\ Len(c) = n + m
      /\ \A i \in 1 .. n + m : c[i] = IF i <= n THEN s[i] ELSE r[i - n]
  BY ConcatProperties
<1>3. DOMAIN c = 1 .. n + m
  BY <1>2, LenProperties
<1> HIDE DEF c, n, m
<1>4. Range(c) = Range(s) \cup Range(r)
  <2>1. ASSUME NEW i \in 1 .. n + m PROVE c[i] \in Range(s) \cup Range(r)
    <3>1. CASE i <= n
      <4>1. i \in 1 .. n /\ c[i] = s[i]
        BY <1>1, <1>2, <3>1
      <4> QED
        BY <1>1, <4>1 DEF Range
    <3>2. CASE i > n
      <4>1. i - n \in 1 .. m /\ c[i] = r[i - n]
        BY <1>1, <1>2, <3>2
      <4> QED
        BY <1>1, <4>1 DEF Range
    <3> QED
      BY <1>1, <3>1, <3>2
  <2>2. ASSUME NEW i \in 1 .. n PROVE s[i] \in Range(c)
    <3>1. i \in 1 .. n + m /\ c[i] = s[i]
      BY <1>1, <1>2
    <3> QED
      BY <1>3, <3>1 DEF Range
  <2>3. ASSUME NEW i \in 1 .. m PROVE r[i] \in Range(c)
    <3>1. n + i \in 1 .. n + m /\ c[n + i] = r[i]
      BY <1>1, <1>2
    <3> QED
      BY <1>3, <3>1 DEF Range
  <2>4. Range(c) \subseteq Range(s) \cup Range(r)
    BY <1>3, <2>1 DEF Range
  <2>5. Range(s) \subseteq Range(c) /\ Range(r) \subseteq Range(c)
    BY <1>1, <2>2, <2>3 DEF Range
  <2> QED
    BY <2>4, <2>5
<1>5. IsInjective(c)
  <2> SUFFICES ASSUME NEW i \in 1 .. n + m, NEW j \in 1 .. n + m, c[i] = c[j]
               PROVE  i = j
    BY <1>3 DEF IsInjective
  <2>1. ASSUME NEW k \in 1 .. n, NEW l \in 1 .. n + m, l > n PROVE c[k] # c[l]
    <3>1. c[k] = s[k] /\ c[l] = r[l - n] /\ l - n \in 1 .. m
      BY <1>1, <1>2, <2>1
    <3>2. s[k] \in Range(s) /\ r[l - n] \in Range(r)
      BY <1>1, <3>1 DEF Range
    <3> QED
      BY <3>1, <3>2
  <2>2. CASE i <= n /\ j <= n
    <3>1. i \in 1 .. n /\ j \in 1 .. n /\ s[i] = s[j]
      BY <1>1, <1>2, <2>2
    <3> QED
      BY <1>1, <3>1 DEF IsInjective
  <2>3. CASE i > n /\ j > n
    <3>1. i - n \in 1 .. m /\ j - n \in 1 .. m /\ r[i - n] = r[j - n]
      BY <1>1, <1>2, <2>3
    <3>2. i - n = j - n
      BY <1>1, <3>1 DEF IsInjective
    <3> QED
      BY <1>1, <3>2
  <2> QED
    BY <1>1, <2>1, <2>2, <2>3
<1> QED
  BY <1>2, <1>4, <1>5 DEF c

\* The length of a pile is the number of buffers in it.
LEMMA InjectiveLen ==
  ASSUME NEW B, NEW s \in Seq(B), IsInjective(s)
  PROVE  /\ IsFiniteSet(Range(s))
         /\ Cardinality(Range(s)) = Len(s)
         /\ Len(s) \in Nat
<1>1. /\ s \in Surjection(1 .. Len(s), Range(s))
      /\ s \in Injection(1 .. Len(s), Range(s))
      /\ Len(s) \in Nat
  BY LenProperties DEF Range, Surjection, Injection
<1>2. ASSUME NEW n \in Nat
      PROVE  IsFiniteSet(1 .. n) /\ Cardinality(1 .. n) = n
  <2>1. /\ IsFiniteSet(1 .. n)
        /\ Cardinality(1 .. n) = IF 1 > n THEN 0 ELSE n - 1 + 1
    BY FS_Interval
  <2> QED
    BY <2>1
<1>3. IsFiniteSet(1 .. Len(s)) /\ Cardinality(1 .. Len(s)) = Len(s)
  BY <1>1, <1>2
<1> QED
  BY <1>1, <1>3, FS_Surjection

-----------------------------------------------------------------------------
(* Types, hands and steps.                                                  *)

\* The steps in which a thread's hand holds a buffer.
Moving == {"unpark", "reset", "cap_allows", "unclaim", "push"}

\* TypeOK, but for the sign of the counter, which is a consequence of CountExact.
TypeInv ==
  /\ cap \in Caps \cup {Uncapped}
  /\ hook \in BOOLEAN
  /\ pile \in [Piles -> Seq(Buffers)]
  /\ parked \in Int
  /\ pc \in [Threads -> PC]
  /\ hand \in [Threads -> Buffers \cup {NoBuffer}]
  /\ guards \in [Threads -> SUBSET Buffers]
  /\ loose \subseteq Buffers
  /\ clean \subseteq Buffers
  /\ at \in [Threads -> Piles]
  /\ haul \in [Threads -> Seq(Buffers)]
  /\ toFill \in [Threads -> Nat]
  /\ tid \in [Threads -> Nat \cup {Unassigned}]
  /\ nextTid \in Nat

\* A hand is full exactly while its thread moves a buffer; only a drain in
\* progress has gathered anything; an uncapped pool refuses nothing and does not
\* count.
HandInv == \A t \in Threads : hand[t] # NoBuffer <=> pc[t] \in Moving
HaulInv == \A t \in Threads : pc[t] \notin {"drain", "settle"} => haul[t] = <<>>
UnclaimInv == \A t \in Threads : pc[t] = "unclaim" => cap # Uncapped
CounterOff == cap = Uncapped => parked = 0

\* The control part of the inductive invariant.
Control == TypeInv /\ HandInv /\ HaulInv /\ UnclaimInv

\* A thread's shard is one of the piles, and never the reserve.
LEMMA ShardIsPile ==
  ASSUME TypeInv, NEW t \in Threads
  PROVE  Tid(t) \in Nat /\ Shard(t) \in Piles /\ Shard(t) # Reserve
<1>1. Tid(t) \in Nat
  BY DEF TypeInv, Tid, Unassigned
<1>2. Shard(t) \in 0 .. NumShards - 1
  BY <1>1, ShardsAssumption DEF Shard
<1> QED
  BY <1>1, <1>2, ShardsAssumption DEF Piles, Reserve

\* A fresh pool has the types and empty hands.
LEMMA ControlInit == Init => Control /\ CounterOff
  BY ShardsAssumption, EmptySeq
  DEF Init, Control, TypeInv, HandInv, HaulInv, UnclaimInv, CounterOff, Piles, PC, Moving,
      Unassigned

\* Both pops keep the types, and fill the hand exactly when they hit.
LEMMA PopControl ==
  ASSUME Control, NEW t \in Threads, NEW p \in Piles, NEW miss \in {"pop_reserve", "init"},
         pc[t] \in {"pop_shard", "pop_reserve"}, Pop(t, p, miss)
  PROVE  /\ pile' \in [Piles -> Seq(Buffers)]
         /\ pc' \in [Threads -> PC]
         /\ hand' \in [Threads -> Buffers \cup {NoBuffer}]
         /\ HandInv'
         /\ \A u \in Threads : pc'[u] = "unclaim" => pc[u] = "unclaim"
         /\ \A u \in Threads : pc'[u] \notin {"drain", "settle"} => haul[u] = <<>>
<1>1. CASE pile[p] = <<>>
  BY <1>1 DEF Pop, Control, TypeInv, HandInv, HaulInv, PC, Moving
<1>2. CASE pile[p] # <<>>
  <2>1. Last(pile[p]) \in Buffers /\ Front(pile[p]) \in Seq(Buffers)
    BY <1>2, PopTypes DEF Control, TypeInv
  <2>2. /\ pc' = [pc EXCEPT ![t] = "unpark"]
        /\ hand' = [hand EXCEPT ![t] = Last(pile[p])]
        /\ pile' = [pile EXCEPT ![p] = Front(pile[p])]
    BY <1>2 DEF Pop
  <2> QED
    BY <2>1, <2>2, BuffersAssumption
    DEF Control, TypeInv, HandInv, HaulInv, PC, Moving
<1> QED
  BY <1>1, <1>2

\* A position of a pile, and the number of them.
Positions == UNION {{p} \X DOMAIN pile[p] : p \in Piles}

\* A pool has finitely many positions, so count_idle is a number.
LEMMA CountIdleNat ==
  ASSUME TypeInv
  PROVE  IsFiniteSet(Positions) /\ CountIdle \in Nat
<1> DEFINE slots(p) == {p} \X DOMAIN pile[p]
<1>1. IsFiniteSet(Piles)
  BY FS_Interval, ShardsAssumption DEF Piles
<1>2. ASSUME NEW p \in Piles PROVE IsFiniteSet(slots(p))
  <2>1. pile[p] \in Seq(Buffers)
    BY DEF TypeInv
  <2>2. DOMAIN pile[p] = 1 .. Len(pile[p]) /\ Len(pile[p]) \in Int
    BY <2>1, LenProperties
  <2>3. IsFiniteSet(DOMAIN pile[p])
    BY <2>2, FS_Interval
  <2> QED
    BY <2>3, FS_Product, FS_Singleton
<1>3. IsFiniteSet({slots(p) : p \in Piles})
  <2>1. [p \in Piles |-> slots(p)] \in Surjection(Piles, {slots(p) : p \in Piles})
    BY DEF Surjection
  <2> QED
    BY <1>1, <2>1, FS_Surjection
<1>4. IsFiniteSet(UNION {slots(p) : p \in Piles})
  BY <1>2, <1>3, FS_UNION
<1>5. IsFiniteSet(Positions)
  BY <1>4 DEF Positions
<1> QED
  BY <1>5, FS_CardinalityType DEF CountIdle, Positions

\* Every step keeps the types and the relation of hands to steps.
LEMMA ControlStep == Control /\ [Next]_vars => Control'
<1> SUFFICES ASSUME Control, [Next]_vars PROVE Control'
  OBVIOUS
<1> USE BuffersAssumption, CapsAssumption, ShardsAssumption, BoundsAssumption
        DEF Control, TypeInv, HandInv, HaulInv, UnclaimInv, PC, Moving
<1>1. ASSUME NEW t \in Threads, Get(t)
      PROVE  Control'
  BY <1>1 DEF Get
<1>2. ASSUME NEW t \in Threads, PopShard(t)
      PROVE  Control'
  <2>1. Shard(t) \in Piles /\ Tid(t) \in Nat
    BY ShardIsPile
  <2>2. tid' \in [Threads -> Nat \cup {Unassigned}] /\ nextTid' \in Nat
    BY <1>2, <2>1 DEF PopShard, AssignTid, Unassigned
  <2> QED
    BY <1>2, <2>1, <2>2, PopControl DEF PopShard
<1>3. ASSUME NEW t \in Threads, PopReserve(t)
      PROVE  Control'
  <2>1. Reserve \in Piles
    BY DEF Reserve, Piles
  <2> QED
    BY <1>3, <2>1, PopControl DEF PopReserve
<1>4. ASSUME NEW t \in Threads, Unpark(t)
      PROVE  Control'
  BY <1>4 DEF Unpark
<1>5. ASSUME NEW t \in Threads, RunInit(t)
      PROVE  Control'
  <2>1. PICK b \in Buffers : guards' = [guards EXCEPT ![t] = @ \cup {b}]
    BY <1>5 DEF RunInit
  <2> QED
    BY <1>5, <2>1 DEF RunInit
<1>6. ASSUME NEW t \in Threads, InitPanics(t)
      PROVE  Control'
  BY <1>6 DEF InitPanics
<1>7. ASSUME NEW t \in Threads, FillInit(t)
      PROVE  Control'
  BY <1>7 DEF FillInit
<1>8. ASSUME NEW t \in Threads, Reset(t)
      PROVE  Control'
  BY <1>8 DEF Reset
<1>9. ASSUME NEW t \in Threads, ResetPanics(t)
      PROVE  Control'
  BY <1>9 DEF ResetPanics
<1>10. ASSUME NEW t \in Threads, CapAllows(t)
      PROVE  Control'
  <2>1. parked' \in Int
    BY <1>10 DEF CapAllows
  <2>2. PICK to \in {"push", "unclaim"} :
          pc' = [pc EXCEPT ![t] = to] /\ (to = "unclaim" => cap # Uncapped)
    BY <1>10 DEF CapAllows
  <2>3. /\ pc[t] = "cap_allows"
        /\ UNCHANGED <<cap, hook, pile, hand, guards, loose, clean, at, haul,
                       toFill, tid, nextTid>>
    BY <1>10 DEF CapAllows
  <2> QED
    BY <2>1, <2>2, <2>3
<1>11. ASSUME NEW t \in Threads, Unclaim(t)
      PROVE  Control'
  BY <1>11 DEF Unclaim, FinishReturn
<1>12. ASSUME NEW t \in Threads, Push(t)
       PROVE  Control'
  <2>1. Shard(t) \in Piles /\ Tid(t) \in Nat /\ Reserve \in Piles
    BY ShardIsPile DEF Reserve, Piles
  <2>2. tid' \in [Threads -> Nat \cup {Unassigned}] /\ nextTid' \in Nat
    <3>1. CASE toFill[t] > 0
      BY <1>12, <3>1 DEF Push
    <3>2. CASE ~(toFill[t] > 0)
      <4>1. AssignTid(t)
        BY <1>12, <3>2 DEF Push
      <4> QED
        BY <2>1, <4>1 DEF AssignTid
    <3> QED
      BY <3>1, <3>2
  <2>3. \A p \in Piles : Append(pile[p], hand[t]) \in Seq(Buffers)
    BY <1>12, AppendProperties DEF Push
  <2>4. pile' \in [Piles -> Seq(Buffers)]
    BY <1>12, <2>1, <2>3 DEF Push
  <2>5. PICK to \in {"fill", "ready"} : pc' = [pc EXCEPT ![t] = to]
    BY <1>12 DEF Push, FinishReturn
  <2>6. toFill' \in [Threads -> Nat]
    BY <1>12 DEF Push, FinishReturn
  <2>7. /\ pc[t] = "push"
        /\ hand' = [hand EXCEPT ![t] = NoBuffer]
        /\ UNCHANGED <<cap, hook, parked, guards, loose, clean, at, haul>>
    BY <1>12 DEF Push, FinishReturn
  <2> QED
    BY <2>2, <2>4, <2>5, <2>6, <2>7
<1>13. ASSUME NEW t \in Threads, Drain(t)
      PROVE  Control'
  BY <1>13 DEF Drain, Piles
<1>14. ASSUME NEW t \in Threads, DrainPile(t)
       PROVE  Control'
  <2>1. at[t] \in Piles /\ Reserve \in Piles
    BY DEF Reserve, Piles
  <2>2. haul[t] \o pile[at[t]] \in Seq(Buffers) /\ <<>> \in Seq(Buffers)
    BY <2>1, ConcatProperties, EmptySeq
  <2>3. at' \in [Threads -> Piles]
    BY <1>14, <2>1 DEF DrainPile, Reserve, Piles
  <2> QED
    BY <1>14, <2>1, <2>2, <2>3 DEF DrainPile
<1>15. ASSUME NEW t \in Threads, DrainSettle(t)
       PROVE  Control'
  <2>1. Range(haul[t]) \subseteq Buffers /\ Len(haul[t]) \in Nat /\ <<>> \in Seq(Buffers)
    BY RangeOfSeq, LenProperties, EmptySeq
  <2> QED
    BY <1>15, <2>1 DEF DrainSettle
<1>16. ASSUME NEW t \in Threads, ThreadExit(t)
      PROVE  Control'
  BY <1>16 DEF ThreadExit
<1>17. ASSUME NEW t \in Threads, NEW n \in 1 .. MaxFill, Prefill(t, n)
      PROVE  Control'
  <2>1. n \in Nat
    OBVIOUS
  <2>2. toFill' \in [Threads -> Nat] /\ pc' \in [Threads -> PC]
    BY <1>17, <2>1 DEF Prefill
  <2> QED
    BY <1>17, <2>2 DEF Prefill
<1>18. ASSUME NEW t \in Threads, NEW b \in Buffers, IntoInner(t, b)
      PROVE  Control'
  BY <1>18 DEF IntoInner
<1>19. ASSUME NEW t \in Threads, NEW b \in Buffers, DropGuard(t, b)
      PROVE  Control'
  BY <1>19 DEF DropGuard
<1>20. ASSUME NEW t \in Threads, NEW b \in Buffers, Put(t, b)
      PROVE  Control'
  BY <1>20 DEF Put
<1>21. ASSUME NEW t \in Threads, NEW u \in Threads, NEW b \in Buffers, SendGuard(t, u, b)
      PROVE  Control'
  BY <1>21 DEF SendGuard
<1>22. ASSUME NEW b \in Buffers, DropLoose(b)
      PROVE  Control'
  BY <1>22 DEF DropLoose
<1>23. ASSUME NEW n \in Caps \cup {Uncapped}, WithMaxIdle(n)
       PROVE  Control'
  <2>1. CountIdle \in Nat
    BY CountIdleNat
  <2> QED
    BY <1>23, <2>1 DEF WithMaxIdle, Exclusive
<1>24. ASSUME WithReset
      PROVE  Control'
  BY <1>24 DEF WithReset
<1>25. CASE UNCHANGED vars
  BY <1>25 DEF vars
<1> QED
  BY <1>1, <1>2, <1>3, <1>4, <1>5, <1>6, <1>7, <1>8, <1>9, <1>10, <1>11, <1>12, <1>13,
     <1>14, <1>15, <1>16, <1>17, <1>18, <1>19, <1>20, <1>21, <1>22, <1>23, <1>24, <1>25
  DEF Next, Step, Call

-----------------------------------------------------------------------------
(* No aliasing, buffer by buffer.                                           *)

\* Buffer b is in one place at most.
OnePlace(b) ==
  /\ \A p, q \in Piles : b \in Range(pile[p]) /\ b \in Range(pile[q]) => p = q
  /\ \A t, u \in Threads : b \in Range(haul[t]) /\ b \in Range(haul[u]) => t = u
  /\ \A t, u \in Threads : b \in guards[t] /\ b \in guards[u] => t = u
  /\ \A t, u \in Threads : b = hand[t] /\ b = hand[u] => t = u
  /\ \A p \in Piles : b \in Range(pile[p]) =>
       /\ b \notin loose
       /\ \A t \in Threads : b # hand[t] /\ b \notin guards[t] /\ b \notin Range(haul[t])
  /\ \A t \in Threads : b = hand[t] =>
       /\ b \notin loose
       /\ \A u \in Threads : b \notin guards[u] /\ b \notin Range(haul[u])
  /\ \A t \in Threads : b \in guards[t] =>
       b \notin loose /\ \A u \in Threads : b \notin Range(haul[u])
  /\ \A t \in Threads : b \in Range(haul[t]) => b \notin loose

Apart ==
  /\ \A p \in Piles : IsInjective(pile[p])
  /\ \A t \in Threads : IsInjective(haul[t])
  /\ \A b \in Buffers : OnePlace(b)

\* A fresh pool holds no buffer at all.
LEMMA ApartInit == Init => Apart
  BY EmptyPile, BuffersAssumption DEF Init, Apart, OnePlace

\* A buffer that is not alive is nowhere.
LEMMA NotLive ==
  ASSUME NEW b, b \notin Live
  PROVE  /\ \A p \in Piles : b \notin Range(pile[p])
         /\ \A t \in Threads : b \notin guards[t] /\ b \notin Range(haul[t])
         /\ \A t \in Threads : b = hand[t] => b = NoBuffer
         /\ b \notin loose
  BY DEF Live, Parked, InHand, Guarded, Hauled

\* A pop moves one buffer from a pile into the hand.
LEMMA PopApart ==
  ASSUME Control, Apart, NEW t \in Threads, NEW p \in Piles, NEW miss,
         pc[t] \in {"pop_shard", "pop_reserve"}, Pop(t, p, miss),
         UNCHANGED <<guards, loose, haul>>
  PROVE  Apart'
<1>1. CASE pile[p] = <<>>
  BY <1>1 DEF Pop, Apart, OnePlace
<1>2. CASE pile[p] # <<>>
  <2> DEFINE b == Last(pile[p])
  <2>1. pile[p] \in Seq(Buffers) /\ IsInjective(pile[p])
    BY DEF Control, TypeInv, Apart
  <2>2. /\ b \in Range(pile[p])
        /\ Range(Front(pile[p])) = Range(pile[p]) \ {b}
        /\ IsInjective(Front(pile[p]))
        /\ b \in Buffers
    BY <1>2, <2>1, PopRange, PopTypes
  <2>3. /\ hand' = [hand EXCEPT ![t] = b]
        /\ pile' = [pile EXCEPT ![p] = Front(pile[p])]
        /\ UNCHANGED <<guards, loose, haul>>
    BY <1>2 DEF Pop
  <2> HIDE DEF b
  <2>4. /\ \A q \in Piles \ {p} : pile'[q] = pile[q]
        /\ Range(pile'[p]) = Range(pile[p]) \ {b}
        /\ IsInjective(pile'[p])
        /\ hand'[t] = b
        /\ \A u \in Threads \ {t} : hand'[u] = hand[u]
    BY <2>2, <2>3 DEF Control, TypeInv
  <2>5. \A c \in Buffers : OnePlace(c)'
    BY <2>2, <2>3, <2>4 DEF Apart, OnePlace
  <2> QED
    BY <2>3, <2>4, <2>5 DEF Apart
<1> QED
  BY <1>1, <1>2

\* A push moves one buffer from the hand into a pile.
LEMMA PushOnePlace ==
  ASSUME NEW t \in Threads, NEW p \in Piles, NEW b \in Buffers, OnePlace(b),
         hand \in [Threads -> Buffers \cup {NoBuffer}],
         hand' = [hand EXCEPT ![t] = NoBuffer],
         Range(pile'[p]) = Range(pile[p]) \cup {hand[t]},
         \A q \in Piles \ {p} : pile'[q] = pile[q],
         UNCHANGED <<guards, loose, haul>>
  PROVE  OnePlace(b)'
<1> DEFINE h == hand[t]
<1>1. /\ \A u \in Threads : b = hand'[u] => b = hand[u] /\ u # t
      /\ \A q \in Piles : b \in Range(pile'[q]) => b \in Range(pile[q]) \/ (q = p /\ b = h)
  BY BuffersAssumption
<1>2. CASE b = h
  <2>1. /\ \A q \in Piles : b \notin Range(pile[q])
        /\ \A u \in Threads : b \notin guards[u] /\ b \notin Range(haul[u])
        /\ \A u \in Threads : b = hand[u] => u = t
        /\ b \notin loose
    BY <1>2 DEF OnePlace
  <2> QED
    BY <1>1, <2>1 DEF OnePlace
<1>3. CASE b # h
  BY <1>1, <1>3 DEF OnePlace
<1> QED
  BY <1>2, <1>3

\* Every step moves a buffer from one place to another.
LEMMA ApartStep == Control /\ Apart /\ [Next]_vars => Apart'
<1> SUFFICES ASSUME Control, Apart, [Next]_vars PROVE Apart'
  OBVIOUS
<1> USE BuffersAssumption DEF Control, TypeInv, HandInv, Moving, Apart, OnePlace
<1>1. ASSUME NEW t \in Threads, Get(t)
      PROVE  Apart'
  BY <1>1 DEF Get
<1>2. ASSUME NEW t \in Threads, PopShard(t)
      PROVE  Apart'
  BY <1>2, ShardIsPile, PopApart DEF PopShard
<1>3. ASSUME NEW t \in Threads, PopReserve(t)
      PROVE  Apart'
  <2>1. Reserve \in Piles
    BY ShardsAssumption DEF Reserve, Piles
  <2>2. /\ pc[t] = "pop_reserve"
        /\ Pop(t, Reserve, "init")
        /\ UNCHANGED <<guards, loose, haul>>
    BY <1>3 DEF PopReserve
  <2> QED
    BY <2>1, <2>2, PopApart
<1>4. ASSUME NEW t \in Threads, Unpark(t)
      PROVE  Apart'
  BY <1>4 DEF Unpark
<1>5. ASSUME NEW t \in Threads, RunInit(t)
      PROVE  Apart'
  <2>1. PICK b \in Buffers \ Live : guards' = [guards EXCEPT ![t] = @ \cup {b}]
    BY <1>5 DEF RunInit
  <2> QED
    BY <1>5, <2>1, NotLive DEF RunInit
<1>6. ASSUME NEW t \in Threads, InitPanics(t)
      PROVE  Apart'
  BY <1>6 DEF InitPanics
<1>7. ASSUME NEW t \in Threads, FillInit(t)
      PROVE  Apart'
  <2>1. PICK b \in Buffers \ Live : hand' = [hand EXCEPT ![t] = b]
    BY <1>7 DEF FillInit
  <2> QED
    BY <1>7, <2>1, NotLive DEF FillInit
<1>8. ASSUME NEW t \in Threads, Reset(t)
      PROVE  Apart'
  BY <1>8 DEF Reset
<1>9. ASSUME NEW t \in Threads, ResetPanics(t)
      PROVE  Apart'
  BY <1>9 DEF ResetPanics
<1>10. ASSUME NEW t \in Threads, CapAllows(t)
      PROVE  Apart'
  BY <1>10 DEF CapAllows
<1>11. ASSUME NEW t \in Threads, Unclaim(t)
      PROVE  Apart'
  BY <1>11 DEF Unclaim, FinishReturn
<1>12. ASSUME NEW t \in Threads, Push(t)
       PROVE  Apart'
  <2>1. PICK p \in Piles : pile' = [pile EXCEPT ![p] = Append(@, hand[t])]
    <3>1. Shard(t) \in Piles /\ Reserve \in Piles
      BY ShardIsPile, ShardsAssumption DEF Reserve, Piles
    <3> QED
      BY <1>12, <3>1 DEF Push
  <2>2. /\ hand[t] \in Buffers
        /\ hand' = [hand EXCEPT ![t] = NoBuffer]
        /\ UNCHANGED <<guards, loose, haul>>
    BY <1>12 DEF Push, FinishReturn
  <2>3. hand[t] \notin Range(pile[p])
    BY <2>2
  <2>4. /\ Range(pile'[p]) = Range(pile[p]) \cup {hand[t]}
        /\ IsInjective(pile'[p])
        /\ \A q \in Piles \ {p} : pile'[q] = pile[q]
    BY <2>1, <2>2, <2>3, PushRange
  <2>5. ASSUME NEW b \in Buffers PROVE OnePlace(b)'
    <3>1. OnePlace(b) /\ hand \in [Threads -> Buffers \cup {NoBuffer}]
      OBVIOUS
    <3> HIDE DEF Control, TypeInv, HandInv, Apart, OnePlace
    <3> QED
      BY <2>2, <2>4, <3>1, PushOnePlace
  <2> QED
    BY <2>2, <2>4, <2>5
<1>13. ASSUME NEW t \in Threads, Drain(t)
      PROVE  Apart'
  BY <1>13 DEF Drain
<1>14. ASSUME NEW t \in Threads, DrainPile(t)
       PROVE  Apart'
  <2> DEFINE p == at[t]
  <2>1. /\ p \in Piles
        /\ haul' = [haul EXCEPT ![t] = haul[t] \o pile[p]]
        /\ pile' = [pile EXCEPT ![p] = <<>>]
        /\ UNCHANGED <<hand, guards, loose>>
    BY <1>14 DEF DrainPile
  <2> HIDE DEF p
  <2>2. Range(haul[t]) \cap Range(pile[p]) = {}
    BY <2>1, RangeOfSeq
  <2>3. /\ Range(haul'[t]) = Range(haul[t]) \cup Range(pile[p])
        /\ IsInjective(haul'[t])
        /\ Range(pile'[p]) = {}
        /\ IsInjective(pile'[p])
        /\ \A q \in Piles \ {p} : pile'[q] = pile[q]
        /\ \A u \in Threads \ {t} : haul'[u] = haul[u]
    BY <2>1, <2>2, ConcatRange, EmptyPile
  <2>4. ASSUME NEW b \in Buffers PROVE OnePlace(b)'
    <3>1. OnePlace(b)
      OBVIOUS
    <3> HIDE DEF Control, TypeInv, HandInv, Apart
    <3>2. CASE b \in Range(pile[p])
      BY <2>1, <2>3, <3>1, <3>2
    <3>3. CASE b \notin Range(pile[p])
      BY <2>1, <2>3, <3>1, <3>3
    <3> QED
      BY <3>2, <3>3
  <2> QED
    BY <2>1, <2>3, <2>4
<1>15. ASSUME NEW t \in Threads, DrainSettle(t)
       PROVE  Apart'
  <2>1. /\ Range(haul'[t]) = {}
        /\ IsInjective(haul'[t])
        /\ \A u \in Threads \ {t} : haul'[u] = haul[u]
        /\ loose' = loose \cup Range(haul[t])
        /\ UNCHANGED <<pile, hand, guards>>
    BY <1>15, EmptyPile DEF DrainSettle
  <2>2. ASSUME NEW b \in Buffers PROVE OnePlace(b)'
    <3>1. OnePlace(b)
      OBVIOUS
    <3>2. CASE b \in Range(haul[t])
      BY <2>1, <3>1, <3>2
    <3>3. CASE b \notin Range(haul[t])
      BY <2>1, <3>1, <3>3
    <3> QED
      BY <3>2, <3>3
  <2> QED
    BY <2>1, <2>2
<1>16. ASSUME NEW t \in Threads, ThreadExit(t)
      PROVE  Apart'
  BY <1>16 DEF ThreadExit
<1>17. ASSUME NEW t \in Threads, NEW n \in 1 .. MaxFill, Prefill(t, n)
      PROVE  Apart'
  BY <1>17 DEF Prefill
<1>18. ASSUME NEW t \in Threads, NEW b \in Buffers, IntoInner(t, b)
      PROVE  Apart'
  BY <1>18 DEF IntoInner
<1>19. ASSUME NEW t \in Threads, NEW b \in Buffers, DropGuard(t, b)
      PROVE  Apart'
  BY <1>19 DEF DropGuard
<1>20. ASSUME NEW t \in Threads, NEW b \in Buffers, Put(t, b)
      PROVE  Apart'
  BY <1>20, NotLive DEF Put
<1>21. ASSUME NEW t \in Threads, NEW u \in Threads, NEW b \in Buffers, SendGuard(t, u, b)
      PROVE  Apart'
  <2>1. /\ guards'[t] = guards[t] \ {b}
        /\ guards'[u] = guards[u] \cup {b}
        /\ \A v \in Threads \ {t, u} : guards'[v] = guards[v]
        /\ b \in guards[t]
        /\ UNCHANGED <<pile, hand, loose, haul>>
    BY <1>21 DEF SendGuard
  <2>2. ASSUME NEW c \in Buffers PROVE OnePlace(c)'
    <3>1. OnePlace(c)
      OBVIOUS
    <3> HIDE DEF Control, TypeInv, HandInv, Apart
    <3>2. CASE c = b
      BY <2>1, <3>1, <3>2
    <3>3. CASE c # b
      BY <2>1, <3>1, <3>3
    <3> QED
      BY <3>2, <3>3
  <2> QED
    BY <2>1, <2>2
<1>22. ASSUME NEW b \in Buffers, DropLoose(b)
      PROVE  Apart'
  BY <1>22 DEF DropLoose
<1>23. ASSUME NEW n \in Caps \cup {Uncapped}, WithMaxIdle(n)
      PROVE  Apart'
  BY <1>23 DEF WithMaxIdle
<1>24. ASSUME WithReset
      PROVE  Apart'
  BY <1>24 DEF WithReset
<1>25. CASE UNCHANGED vars
  BY <1>25 DEF vars
<1> QED
  BY <1>1, <1>2, <1>3, <1>4, <1>5, <1>6, <1>7, <1>8, <1>9, <1>10, <1>11, <1>12, <1>13,
     <1>14, <1>15, <1>16, <1>17, <1>18, <1>19, <1>20, <1>21, <1>22, <1>23, <1>24, <1>25
  DEF Next, Step, Call

\* The invariant of BufferPool, from the buffers' point of view.
LEMMA ApartNoAliasing == Control /\ Apart => NoAliasing
  BY RangeOfSeq, BuffersAssumption
  DEF Control, TypeInv, Apart, OnePlace, NoAliasing, Parked, InHand, Guarded, Hauled

=============================================================================

----------------------- MODULE BufferPoolContractProofs -----------------------
(****************************************************************************)
(* BufferPool implements PoolContract: every step of the pool, on whichever *)
(* pile and however calls interleave, is one step of the contract or none.  *)
(****************************************************************************)
EXTENDS BufferPoolCapProofs

\* What users own, named place by place: guards, results of drains, loose
\* buffers, and what a lease has popped and not yet handed over.
Popped == {hand[t] : t \in {u \in Threads : pc[u] = "unpark"}}
Owned  == Guarded \cup Hauled \cup loose \cup Popped

\* In a pool where every buffer is in one place, Out is just that.
LEMMA OutIsOwned ==
  ASSUME Control, Apart
  PROVE  Out = Owned
<1> USE DEF Control, TypeInv, HandInv, Moving
<1>1. ASSUME NEW b \in Out
      PROVE  b \in Owned
  <2>1. b \in InHand => b \in Popped
    BY <1>1 DEF Out, Returning, InHand, Popped
  <2> QED
    BY <1>1, <2>1 DEF Out, Live, Owned
<1>2. ASSUME NEW b \in Owned
      PROVE  b \in Out
  <2>1. b \in Buffers
    BY <1>2 DEF Owned, Guarded, Hauled, Popped, Range
  <2>2. OnePlace(b)
    BY <2>1 DEF Apart
  <2>3. b \in Live
    BY <1>2, <2>1, BuffersAssumption DEF Live, Owned, Popped, InHand
  <2>4. b \notin Parked
    BY <1>2, <2>2 DEF OnePlace, Parked, Owned, Guarded, Hauled, Popped
  <2>5. b \notin Returning
    BY <1>2, <2>2 DEF OnePlace, Returning, Owned, Guarded, Hauled, Popped
  <2> QED
    BY <2>3, <2>4, <2>5 DEF Out
<1> QED
  BY <1>1, <1>2

\* A fresh pool is a fresh contract.
LEMMA ContractInit == Init => Contract!Init
<1> SUFFICES ASSUME Init PROVE Contract!Init
  OBVIOUS
<1>1. Live = {}
  BY EmptyPile
  DEF Init, Live, Parked, InHand, Guarded, Hauled
<1>2. Returning = {}
  BY DEF Init, Returning
<1> QED
  BY <1>1, <1>2 DEF Init, Contract!Init, Out, Live

\* A step that moves no buffer in or out of the pool is no step of the contract.
LEMMA ContractStutter ==
  ASSUME UNCHANGED <<cap, hook, Parked, Owned, Returning>>,
         Out = Owned, Out' = Owned'
  PROVE  UNCHANGED Contract!vars
  BY DEF Contract!vars

\* A pop is a lease of one idle buffer, or nothing where the pile is empty.
LEMMA PopTakes ==
  ASSUME Control, Apart, NEW t \in Threads, NEW p \in Piles, NEW miss \in {"pop_reserve", "init"},
         pc[t] \in {"pop_shard", "pop_reserve"}, Pop(t, p, miss),
         UNCHANGED <<cap, hook, guards, loose, haul>>
  PROVE  /\ Returning' = Returning
         /\ \E S \in SUBSET Parked : Parked' = Parked \ S /\ Owned' = Owned \cup S
<1> USE DEF Control, TypeInv, HandInv, Moving
<1>1. CASE pile[p] = <<>>
  <2>1. pc' = [pc EXCEPT ![t] = miss] /\ UNCHANGED <<pile, hand>>
    BY <1>1 DEF Pop
  <2>2. Returning' = Returning
    BY <2>1 DEF Returning
  <2>3. Popped' = Popped
    BY <2>1 DEF Popped
  <2>4. Parked' = Parked
    BY <2>1 DEF Parked
  <2>5. Guarded' = Guarded /\ Hauled' = Hauled /\ loose' = loose
    BY DEF Guarded, Hauled
  <2>6. Owned' = Owned
    BY <2>3, <2>5 DEF Owned
  <2>7. {} \in SUBSET Parked /\ Parked' = Parked \ {} /\ Owned' = Owned \cup {}
    BY <2>4, <2>6
  <2> QED
    BY <2>2, <2>7
<1>2. CASE pile[p] # <<>>
  <2> DEFINE b == Last(pile[p])
  <2>1. /\ pc' = [pc EXCEPT ![t] = "unpark"]
        /\ hand' = [hand EXCEPT ![t] = b]
        /\ pile' = [pile EXCEPT ![p] = Front(pile[p])]
    BY <1>2 DEF Pop
  <2>2. /\ b \in Range(pile[p]) /\ b \in Buffers
        /\ Range(Front(pile[p])) = Range(pile[p]) \ {b}
    BY <1>2, PopRange, PopTypes DEF Apart
  <2> HIDE DEF b
  <2>3. /\ Range(pile'[p]) = Range(pile[p]) \ {b}
        /\ \A q \in Piles \ {p} : pile'[q] = pile[q] /\ b \notin Range(pile[q])
    BY <2>1, <2>2 DEF Apart, OnePlace
  <2>4. b \in Parked /\ Parked' = Parked \ {b}
    <3>1. ASSUME NEW c
          PROVE  c \in Parked' <=> c \in Parked /\ c # b
      <4>1. c \in Parked <=> \E q \in Piles : c \in Range(pile[q])
        BY DEF Parked
      <4>2. c \in Parked' <=> \E q \in Piles : c \in Range(pile'[q])
        BY DEF Parked
      <4> QED
        BY <2>3, <4>1, <4>2
    <3>2. b \in Parked
      BY <2>2 DEF Parked
    <3> QED
      BY <3>1, <3>2
  <2>5. Returning' = Returning
    BY <2>1 DEF Returning
  <2>6. Popped' = Popped \cup {b}
    BY <2>1 DEF Popped
  <2>7. Owned' = Owned \cup {b}
    BY <2>6 DEF Owned, Guarded, Hauled
  <2> QED
    BY <2>4, <2>5, <2>7
<1> QED
  BY <1>1, <1>2

\* A push parks what it claimed a slot for, under the cap.
LEMMA PushFits ==
  ASSUME Control, Apart, ClaimsFitCap, NEW t \in Threads, Push(t)
  PROVE  /\ Parked' = Parked \cup {hand[t]}
         /\ Returning' = Returning \ {hand[t]}
         /\ Owned' = Owned
         /\ hand[t] \in Returning \cap Buffers
         /\ cap # Uncapped => Cardinality(Parked) < cap
<1> USE DEF Control, TypeInv, HandInv, Moving
<1>1. pc[t] = "push" /\ hand[t] \in Buffers
  BY DEF Push
<1>2. /\ hand' = [hand EXCEPT ![t] = NoBuffer]
      /\ pc' = [pc EXCEPT ![t] = IF toFill[t] > 1 THEN "fill" ELSE "ready"]
      /\ UNCHANGED <<cap, hook, guards, loose, haul>>
  BY DEF Push, FinishReturn
<1>3. hand[t] \in Returning
  BY <1>1 DEF Returning
<1>4. \A u \in Threads : hand[u] = hand[t] => u = t
  BY <1>1 DEF Apart, OnePlace
<1>5. Returning' = Returning \ {hand[t]}
  BY <1>1, <1>2, <1>4 DEF Returning
<1>6. Popped' = Popped
  BY <1>1, <1>2 DEF Popped
<1>7. Owned' = Owned
  BY <1>2, <1>6 DEF Owned, Guarded, Hauled
<1>8. ASSUME cap # Uncapped
      PROVE  Cardinality(Parked) < cap
  <2>1. t \in Claims /\ Parked \cup {hand[t]} \subseteq Admitted
    BY <1>1 DEF Claims, Admitted
  <2>2. hand[t] \notin Parked
    BY <1>1 DEF Apart, OnePlace, Parked
  <2>3. IsFiniteSet(Parked) /\ IsFiniteSet(Admitted)
    <3>1. Parked \in SUBSET Admitted /\ Admitted \in SUBSET Admitted
      BY <2>1
    <3> QED
      BY <3>1, AdmittedFinite
  <2>4. Cardinality(Parked \cup {hand[t]}) = Cardinality(Parked) + 1
    BY <2>2, <2>3, FS_AddElement
  <2>5. /\ Cardinality(Parked) \in Nat /\ Cardinality(Admitted) \in Nat
        /\ Cardinality(Parked \cup {hand[t]}) <= Cardinality(Admitted)
    BY <2>1, <2>3, FS_CardinalityType, FS_Subset
  <2>6. Cardinality(Admitted) <= cap /\ cap \in Nat
    BY <1>8, <2>1, CapsAssumption DEF ClaimsFitCap
  <2> QED
    BY <2>4, <2>5, <2>6
<1> QED
  BY <1>1, <1>3, <1>5, <1>7, <1>8, PushParks

\* Every step of the pool is a step of the contract or changes nothing in it.
LEMMA ContractStep ==
  ASSUME Control, Apart, ClaimsFitCap, Out = Owned, Out' = Owned', [Next]_vars
  PROVE  [Contract!Next]_(Contract!vars)
<1> USE DEF Control, TypeInv, HandInv, Moving
<1>1. ASSUME NEW t \in Threads, NEW p \in Piles, NEW miss \in {"pop_reserve", "init"},
             pc[t] \in {"pop_shard", "pop_reserve"}, Pop(t, p, miss),
             UNCHANGED <<cap, hook, guards, loose, haul>>
      PROVE  Contract!Next
  <2>1. PICK S \in SUBSET Parked : Parked' = Parked \ S /\ Owned' = Owned \cup S
    BY <1>1, PopTakes
  <2>2. Returning' = Returning
    BY <1>1, PopTakes
  <2>3. Contract!Take(S)
    BY <1>1, <2>1, <2>2 DEF Contract!Take
  <2> QED
    BY <2>3 DEF Contract!Next
<1>2. ASSUME NEW t \in Threads, PopShard(t) \/ PopReserve(t)
      PROVE  Contract!Next
  <2>1. Shard(t) \in Piles /\ Reserve \in Piles
    BY ShardIsPile, ShardsAssumption DEF Reserve, Piles
  <2> QED
    BY <1>1, <1>2, <2>1 DEF PopShard, PopReserve
<1>3. ASSUME NEW t \in Threads,
             \/ Get(t) \/ (\E n \in 1 .. MaxFill : Prefill(t, n)) \/ Drain(t) \/ ThreadExit(t) \/ Reset(t)
             \/ CapAllows(t) \/ InitPanics(t)
      PROVE  UNCHANGED <<cap, hook, Parked, Owned, Returning>>
  <2>1. UNCHANGED <<cap, hook, pile, hand, guards, loose, haul>>
    BY <1>3 DEF Get, Prefill, Drain, ThreadExit, Reset, CapAllows, InitPanics
  <2>2. Returning' = Returning
    BY <1>3, <2>1
    DEF Returning, Get, Prefill, Drain, ThreadExit, Reset, CapAllows, InitPanics
  <2>3. Popped' = Popped
    BY <1>3, <2>1
    DEF Popped, Get, Prefill, Drain, ThreadExit, Reset, CapAllows, InitPanics
  <2>4. Parked' = Parked /\ Guarded' = Guarded /\ Hauled' = Hauled
    BY <2>1 DEF Parked, Guarded, Hauled
  <2> QED
    BY <2>1, <2>2, <2>3, <2>4 DEF Owned
<1>4. ASSUME NEW t \in Threads, Unpark(t)
      PROVE  UNCHANGED <<cap, hook, Parked, Owned, Returning>>
  <2>1. /\ pc[t] = "unpark" /\ hand[t] \in Buffers
        /\ guards' = [guards EXCEPT ![t] = @ \cup {hand[t]}]
        /\ hand' = [hand EXCEPT ![t] = NoBuffer]
        /\ pc' = [pc EXCEPT ![t] = "ready"]
        /\ UNCHANGED <<cap, hook, pile, loose, haul>>
    BY <1>4 DEF Unpark
  <2>2. Returning' = Returning
    BY <2>1 DEF Returning
  <2>3. Guarded' = Guarded \cup {hand[t]}
    BY <2>1 DEF Guarded
  <2>4. Popped' \cup {hand[t]} = Popped /\ Popped' \subseteq Popped
    BY <2>1 DEF Popped
  <2>5. Parked' = Parked /\ Hauled' = Hauled
    BY <2>1 DEF Parked, Hauled
  <2> QED
    BY <2>1, <2>2, <2>3, <2>4, <2>5 DEF Owned
<1>5. ASSUME NEW t \in Threads, NEW u \in Threads, NEW b \in Buffers, SendGuard(t, u, b)
      PROVE  UNCHANGED <<cap, hook, Parked, Owned, Returning>>
  <2>1. Guarded' = Guarded
    <3>1. /\ t # u /\ b \in guards[t]
          /\ guards'[t] = guards[t] \ {b} /\ guards'[u] = guards[u] \cup {b}
          /\ \A v \in Threads \ {t, u} : guards'[v] = guards[v]
      BY <1>5 DEF SendGuard
    <3>2. ASSUME NEW c
          PROVE  c \in Guarded' <=> c \in Guarded
      <4>1. c \in Guarded <=> \E v \in Threads : c \in guards[v]
        BY DEF Guarded
      <4>2. c \in Guarded' <=> \E v \in Threads : c \in guards'[v]
        BY DEF Guarded
      <4>3. CASE c = b
        BY <3>1, <4>1, <4>2, <4>3
      <4>4. CASE c # b
        <5>1. \A v \in Threads : c \in guards'[v] <=> c \in guards[v]
          BY <3>1, <4>4
        <5> QED
          BY <4>1, <4>2, <5>1
      <4> QED
        BY <4>3, <4>4
    <3> QED
      BY <3>2
  <2>2. UNCHANGED <<Parked, Hauled, Popped, Returning>>
    BY <1>5 DEF SendGuard, Parked, Hauled, Popped, Returning
  <2> QED
    BY <1>5, <2>1, <2>2 DEF SendGuard, Owned
<1>6. ASSUME NEW t \in Threads, NEW b \in Buffers, IntoInner(t, b)
      PROVE  UNCHANGED <<cap, hook, Parked, Owned, Returning>>
  <2>1. Guarded' \cup {b} = Guarded /\ Guarded' \subseteq Guarded \cup loose'
    BY <1>6 DEF IntoInner, Guarded, Apart, OnePlace
  <2>2. UNCHANGED <<Parked, Hauled, Popped, Returning>> /\ loose' = loose \cup {b}
    BY <1>6 DEF IntoInner, Parked, Hauled, Popped, Returning
  <2> QED
    BY <1>6, <2>1, <2>2 DEF IntoInner, Owned
<1>7. ASSUME NEW t \in Threads, DrainSettle(t)
      PROVE  UNCHANGED <<cap, hook, Parked, Owned, Returning>>
  <2>1. Hauled' \cup Range(haul[t]) = Hauled
    <3>1. /\ Range(haul'[t]) = {}
          /\ \A v \in Threads \ {t} : haul'[v] = haul[v]
      BY <1>7, EmptyPile DEF DrainSettle
    <3>2. ASSUME NEW c
          PROVE  c \in Hauled' \/ c \in Range(haul[t]) <=> c \in Hauled
      <4>1. c \in Hauled <=> \E v \in Threads : c \in Range(haul[v])
        BY DEF Hauled
      <4>2. c \in Hauled' <=> \E v \in Threads : c \in Range(haul'[v])
        BY DEF Hauled
      <4> QED
        BY <3>1, <4>1, <4>2
    <3> QED
      BY <3>2
  <2>2. UNCHANGED <<Parked, Guarded, Popped, Returning>> /\ loose' = loose \cup Range(haul[t])
    BY <1>7 DEF DrainSettle, Parked, Guarded, Popped, Returning
  <2> QED
    BY <1>7, <2>1, <2>2 DEF DrainSettle, Owned
<1>8. ASSUME NEW t \in Threads, RunInit(t)
      PROVE  Contract!Next
  <2>1. PICK b \in Buffers \ Live : guards' = [guards EXCEPT ![t] = @ \cup {b}]
    BY <1>8 DEF RunInit
  <2>2. Guarded' = Guarded \cup {b}
    BY <2>1 DEF Guarded
  <2>3. UNCHANGED <<Parked, Hauled, Popped, Returning, loose, cap, hook>>
    BY <1>8 DEF RunInit, Parked, Hauled, Popped, Returning
  <2>4. Owned' = Owned \cup {b}
    BY <2>2, <2>3 DEF Owned
  <2>5. b \notin Parked \cup Out \cup Returning
    BY <2>1 DEF Live, Out, Returning, InHand
  <2>6. Contract!Make(b)
    BY <2>3, <2>4, <2>5 DEF Contract!Make
  <2> QED
    BY <2>6 DEF Contract!Next
<1>9. ASSUME NEW b \in Buffers, DropLoose(b)
      PROVE  Contract!Next
  <2>1. UNCHANGED <<Parked, Guarded, Hauled, Popped, Returning, cap, hook>>
    BY <1>9 DEF DropLoose, Parked, Guarded, Hauled, Popped, Returning
  <2>2. b \in loose /\ loose' = loose \ {b}
    BY <1>9 DEF DropLoose
  <2>3. b \notin Guarded \cup Hauled \cup Popped
    BY <2>2 DEF Apart, OnePlace, Guarded, Hauled, Popped
  <2>4. Owned' = Owned \ {b} /\ b \in Owned
    BY <2>1, <2>2, <2>3 DEF Owned
  <2>5. Contract!Discard(b)
    BY <2>1, <2>4 DEF Contract!Discard
  <2> QED
    BY <2>5 DEF Contract!Next
<1>10. ASSUME NEW t \in Threads, DrainPile(t)
      PROVE  Contract!Next
  <2> DEFINE S == Range(pile[at[t]])
  <2>1. /\ at[t] \in Piles
        /\ haul' = [haul EXCEPT ![t] = haul[t] \o pile[at[t]]]
        /\ pile' = [pile EXCEPT ![at[t]] = <<>>]
        /\ UNCHANGED <<cap, hook, guards, loose, hand>>
        /\ pc' = [pc EXCEPT ![t] = IF at[t] = Reserve THEN "settle" ELSE "drain"]
        /\ pc[t] = "drain"
    BY <1>10 DEF DrainPile
  <2>2. Range(haul[t] \o pile[at[t]]) = Range(haul[t]) \cup S
    <3> HIDE DEF Control, TypeInv, HandInv, Moving
    <3>1. /\ IsInjective(haul[t]) /\ IsInjective(pile[at[t]])
          /\ haul[t] \in Seq(Buffers) /\ pile[at[t]] \in Seq(Buffers)
      BY <2>1 DEF Apart, Control, TypeInv
    <3>2. S \subseteq Buffers
      BY <3>1 DEF Range
    <3>3. Range(haul[t]) \cap Range(pile[at[t]]) = {}
      BY <2>1, <3>2 DEF Apart, OnePlace
    <3> QED
      BY <3>1, <3>3, ConcatRange
  <2>3. S \subseteq Parked
    BY <2>1 DEF Parked
  <2>4. Parked' = Parked \ S
    <3>1. /\ Range(pile'[at[t]]) = {}
          /\ \A q \in Piles \ {at[t]} : pile'[q] = pile[q]
      BY <2>1, EmptyPile
    <3>2. \A q \in Piles \ {at[t]} : Range(pile[q]) \cap S = {}
      <4>1. S \subseteq Buffers
        BY <2>1 DEF Range
      <4> QED
        BY <2>1, <4>1 DEF Apart, OnePlace
    <3> HIDE DEF S
    <3>3. ASSUME NEW c
          PROVE  c \in Parked' <=> c \in Parked /\ c \notin S
      <4>1. c \in Parked <=> \E q \in Piles : c \in Range(pile[q])
        BY DEF Parked
      <4>2. c \in Parked' <=> \E q \in Piles : c \in Range(pile'[q])
        BY DEF Parked
      <4>3. c \in S <=> c \in Range(pile[at[t]])
        BY DEF S
      <4> QED
        BY <2>1, <3>1, <3>2, <4>1, <4>2, <4>3
    <3> QED
      BY <3>3
  <2> HIDE DEF S
  <2>5. Hauled' = Hauled \cup S
    <3>1. /\ Range(haul'[t]) = Range(haul[t]) \cup S
          /\ \A u \in Threads \ {t} : haul'[u] = haul[u]
      BY <2>1, <2>2
    <3>2. ASSUME NEW c
          PROVE  c \in Hauled' <=> c \in Hauled \/ c \in S
      <4>1. c \in Hauled <=> \E v \in Threads : c \in Range(haul[v])
        BY DEF Hauled
      <4>2. c \in Hauled' <=> \E v \in Threads : c \in Range(haul'[v])
        BY DEF Hauled
      <4> QED
        BY <3>1, <4>1, <4>2
    <3> QED
      BY <3>2
  <2>6. Returning' = Returning
    BY <2>1 DEF Returning
  <2>7. Popped' = Popped
    BY <2>1 DEF Popped
  <2>8. Guarded' = Guarded /\ loose' = loose
    BY <2>1 DEF Guarded
  <2>9. Owned' = Owned \cup S
    BY <2>5, <2>7, <2>8 DEF Owned
  <2>10. Contract!Take(S)
    BY <2>1, <2>4, <2>6, <2>9 DEF Contract!Take
  <2> QED
    BY <2>3, <2>10 DEF Contract!Next
<1>11. ASSUME NEW t \in Threads, NEW b \in Buffers, DropGuard(t, b)
       PROVE  Contract!Next
  <2>1. /\ pc[t] = "ready" /\ b \in guards[t]
        /\ guards' = [guards EXCEPT ![t] = @ \ {b}]
        /\ hand' = [hand EXCEPT ![t] = b]
        /\ pc' = [pc EXCEPT ![t] = "reset"]
        /\ UNCHANGED <<cap, hook, pile, loose, haul>>
    BY <1>11 DEF DropGuard
  <2>2. Returning' = Returning \cup {b}
    BY <2>1 DEF Returning
  <2>3. Guarded' = Guarded \ {b}
    BY <2>1 DEF Guarded, Apart, OnePlace
  <2>4. UNCHANGED <<Parked, Hauled, Popped>>
    BY <2>1 DEF Parked, Hauled, Popped
  <2>5. b \notin Parked \cup Returning \cup Hauled \cup Popped \cup loose
    BY <2>1 DEF Apart, OnePlace, Parked, Returning, Hauled, Popped
  <2>6. Owned' = Owned \ {b}
    BY <2>1, <2>3, <2>4, <2>5 DEF Owned
  <2>7. Contract!Return(b)
    BY <2>1, <2>2, <2>4, <2>5, <2>6 DEF Contract!Return
  <2> QED
    BY <2>7 DEF Contract!Next
<1>12. ASSUME NEW t \in Threads, NEW b \in Buffers, Put(t, b)
       PROVE  Contract!Next
  <2>1. /\ b \in loose \/ b \notin Live
        /\ loose' = loose \ {b}
        /\ hand' = [hand EXCEPT ![t] = b]
        /\ pc' = [pc EXCEPT ![t] = "reset"]
        /\ UNCHANGED <<cap, hook, pile, guards, haul>>
    BY <1>12 DEF Put
  <2>0. pc[t] = "ready"
    BY <1>12 DEF Put
  <2>2. Returning' = Returning \cup {b}
    BY <2>0, <2>1 DEF Returning
  <2>3. Popped' = Popped
    BY <2>0, <2>1 DEF Popped
  <2>4. UNCHANGED <<Parked, Guarded, Hauled>>
    BY <2>1 DEF Parked, Guarded, Hauled
  <2>5. b \notin Parked \cup Returning \cup Guarded \cup Hauled \cup Popped
    <3>1. CASE b \in loose
      BY <3>1 DEF Apart, OnePlace, Parked, Returning, Guarded, Hauled, Popped
    <3>2. CASE b \notin Live
      BY <3>2, BuffersAssumption DEF Live, InHand, Returning, Popped
    <3> QED
      BY <2>1, <3>1, <3>2
  <2>6. Owned' = Owned \ {b}
    BY <2>1, <2>3, <2>4, <2>5 DEF Owned
  <2>7. Contract!Return(b)
    BY <2>1, <2>2, <2>4, <2>5, <2>6 DEF Contract!Return
  <2> QED
    BY <2>7 DEF Contract!Next
<1>13. ASSUME NEW t \in Threads, FillInit(t)
       PROVE  Contract!Next
  <2>1. PICK b \in Buffers \ Live : hand' = [hand EXCEPT ![t] = b]
    BY <1>13 DEF FillInit
  <2>2. /\ pc[t] = "fill" /\ pc' = [pc EXCEPT ![t] = "reset"]
        /\ UNCHANGED <<cap, hook, pile, guards, loose, haul>>
    BY <1>13 DEF FillInit
  <2>3. Returning' = Returning \cup {b}
    BY <2>1, <2>2 DEF Returning
  <2>4. UNCHANGED <<Parked, Guarded, Hauled, Popped>>
    BY <2>1, <2>2 DEF Parked, Guarded, Hauled, Popped
  <2>5. b \notin Parked \cup Returning \cup Owned
    BY <2>1, BuffersAssumption DEF Live, InHand, Returning, Popped, Owned
  <2>6. Owned' = Owned \ {b}
    BY <2>2, <2>4, <2>5 DEF Owned
  <2>7. Contract!Return(b)
    BY <2>2, <2>3, <2>4, <2>5, <2>6 DEF Contract!Return
  <2> QED
    BY <2>7 DEF Contract!Next
<1>14. ASSUME NEW t \in Threads, ResetPanics(t) \/ Unclaim(t)
       PROVE  Contract!Next
  <2>0. PICK to \in {"ready", "fill"} : pc' = [pc EXCEPT ![t] = to]
    BY <1>14 DEF ResetPanics, Unclaim, FinishReturn
  <2>1. /\ pc[t] \in {"reset", "unclaim"} /\ hand[t] \in Buffers
        /\ hand' = [hand EXCEPT ![t] = NoBuffer]
        /\ UNCHANGED <<cap, hook, pile, guards, loose, haul>>
    BY <1>14 DEF ResetPanics, Unclaim, FinishReturn
  <2>2. cap # Uncapped \/ hook
    BY <1>14, CapsAssumption DEF ResetPanics, Unclaim, UnclaimInv
  <2>3. \A u \in Threads : hand[u] = hand[t] => u = t
    BY <2>1 DEF Apart, OnePlace
  <2>4. hand[t] \in Returning /\ Returning' = Returning \ {hand[t]}
    BY <2>0, <2>1, <2>3 DEF Returning
  <2>5. Popped' = Popped
    BY <2>0, <2>1 DEF Popped
  <2>6. UNCHANGED <<Parked, Owned>>
    BY <2>1, <2>5 DEF Parked, Owned, Guarded, Hauled
  <2>7. Contract!Lose(hand[t])
    BY <2>1, <2>2, <2>4, <2>6 DEF Contract!Lose
  <2> QED
    BY <2>1, <2>7 DEF Contract!Next
<1>15. ASSUME NEW t \in Threads, Push(t)
       PROVE  Contract!Next
  <2>1. /\ Parked' = Parked \cup {hand[t]}
        /\ Returning' = Returning \ {hand[t]}
        /\ Owned' = Owned
        /\ hand[t] \in Returning \cap Buffers
        /\ cap # Uncapped => Cardinality(Parked) < cap
    BY <1>15, PushFits
  <2>2. UNCHANGED <<cap, hook>>
    BY <1>15 DEF Push
  <2> PICK b : b = hand[t]
    OBVIOUS
  <2>3. /\ b \in Returning /\ Returning' = Returning \ {b}
        /\ Parked' = Parked \cup {b} /\ Out' = Out
    BY <2>1
  <2>4. Contract!Park(b)
    <3>1. Contract!Cardinality(Parked) = Cardinality(Parked)
      BY Zenon DEF Contract!Cardinality, Cardinality
    <3> QED
      BY <2>1, <2>2, <2>3, <3>1, Zenon DEF Contract!Park
  <2> QED
    BY <2>1, <2>4 DEF Contract!Next
<1>16. ASSUME WithReset \/ \E n \in Caps \cup {Uncapped} : WithMaxIdle(n)
       PROVE  Contract!Next
  <2>1. /\ Exclusive
        /\ \/ hook' = TRUE /\ UNCHANGED cap
           \/ \E n \in Caps \cup {Uncapped} : cap' = n /\ UNCHANGED hook
        /\ UNCHANGED <<pile, pc, hand, guards, loose, haul>>
    BY <1>16 DEF WithReset, WithMaxIdle
  <2>2. Returning = {}
    BY <2>1 DEF Exclusive, Returning
  <2>3. UNCHANGED <<Parked, Owned, Returning>>
    BY <2>1 DEF Parked, Owned, Guarded, Hauled, Popped, Returning
  <2>4. Contract!SetHook \/ \E n \in Caps \cup {Uncapped} : Contract!SetCap(n)
    BY <2>1, <2>2, <2>3 DEF Contract!SetHook, Contract!SetCap
  <2> QED
    BY <2>4 DEF Contract!Next
<1>17. CASE UNCHANGED vars
  BY <1>17, ContractStutter
  DEF vars, Parked, Owned, Guarded, Hauled, Popped, Returning
<1>18. ASSUME NEW t \in Threads, Step(t)
       PROVE  Contract!Next \/ UNCHANGED Contract!vars
  <2>1. CASE PopShard(t) \/ PopReserve(t)
    BY <1>2, <2>1
  <2>2. CASE Reset(t) \/ CapAllows(t) \/ InitPanics(t)
    BY <1>3, <2>2, ContractStutter
  <2>3. CASE Unpark(t)
    BY <1>4, <2>3, ContractStutter
  <2>4. CASE DrainSettle(t)
    BY <1>7, <2>4, ContractStutter
  <2> QED
    BY <1>18, <1>8, <1>10, <1>13, <1>14, <1>15, <2>1, <2>2, <2>3, <2>4, Zenon DEF Step
<1>19. ASSUME NEW t \in Threads, Call(t)
       PROVE  Contract!Next \/ UNCHANGED Contract!vars
  BY <1>19, <1>3, <1>5, <1>6, <1>11, <1>12, ContractStutter DEF Call
<1> QED
  BY <1>9, <1>16, <1>17, <1>18, <1>19 DEF Next

\* Whatever the threads, buffers, shards and caps: every behaviour of the pool
\* is one of the contract, so no idle buffer is lost, a buffer is given to one
\* user, and a return ends in the pool unless a cap or a hook's panic forbids.
THEOREM ImplementsContract == Spec => KeepsContract
<1>1. IInv => Out = Owned
  BY OutIsOwned DEF IInv
<1>2. IInv /\ Out = Owned /\ (Out = Owned)' /\ [Next]_vars => [Contract!Next]_(Contract!vars)
  BY ContractStep DEF IInv
<1> QED
  BY <1>1, <1>2, ContractInit, Inductive, PTL DEF Spec, KeepsContract, Contract!Spec

=============================================================================

-------------------------- MODULE BufferPoolCapProofs --------------------------
(****************************************************************************)
(* Proofs that the counter of a capped pool is exact and that its claims    *)
(* keep the pool under the cap.                                             *)
(****************************************************************************)
EXTENDS BufferPoolProofs

\* The steps at which the counter has yet to follow a pile, or a pile the counter.
PendingSteps == {"push", "unclaim", "unpark"}

\* What it takes for a buffer to be counted, without the sets.
IsCounted(b) ==
  \/ \E p \in Piles : b \in Range(pile[p])
  \/ \E t \in Threads : pc[t] \in PendingSteps /\ b = hand[t]
  \/ \E t \in Threads : b \in Range(haul[t])

\* Counted and IsCounted agree, before and after a step.
LEMMA CountedIs ==
  /\ \A b : b \in Counted <=> IsCounted(b)
  /\ \A b : b \in Counted' <=> IsCounted(b)'
  BY DEF Counted, IsCounted, Parked, Hauled, Pending, PendingSteps

\* The counted buffers are finitely many.
LEMMA CountedFinite ==
  ASSUME Control
  PROVE  /\ Counted \subseteq Buffers
         /\ IsFiniteSet(Counted)
         /\ Cardinality(Counted) \in Nat
<1>1. Counted \subseteq Buffers
  <2>1. Parked \subseteq Buffers /\ Hauled \subseteq Buffers
    BY RangeOfSeq DEF Control, TypeInv, Parked, Hauled
  <2>2. \A t \in Pending : hand[t] \in Buffers
    BY DEF Control, TypeInv, HandInv, Moving, Pending
  <2> QED
    BY <2>1, <2>2 DEF Counted
<1> QED
  BY <1>1, BuffersAssumption, FS_Subset, FS_CardinalityType

\* Under exclusive access every counted buffer is parked, and with_max_idle
\* counts it once.
LEMMA Recount ==
  ASSUME Control, Apart, Exclusive
  PROVE  /\ Counted = Parked
         /\ CountIdle = Cardinality(Counted)
<1>1. Counted = Parked
  <2>1. Pending = {} /\ \A t \in Threads : haul[t] = <<>>
    BY DEF Exclusive, Pending, Control, HaulInv
  <2> QED
    BY <2>1, EmptyPile DEF Counted, Hauled
<1> DEFINE f == [x \in Positions |-> pile[x[1]][x[2]]]
<1>2. \A x \in Positions : x[1] \in Piles /\ x[2] \in DOMAIN pile[x[1]] /\ x = <<x[1], x[2]>>
  BY DEF Positions
<1>3. \A p \in Piles : \A i \in DOMAIN pile[p] : <<p, i>> \in Positions
  BY DEF Positions
<1>4. f \in Surjection(Positions, Parked)
  <2>1. \A x \in Positions : f[x] \in Parked
    BY <1>2 DEF Parked, Range
  <2>2. \A b \in Parked : \E x \in Positions : f[x] = b
    <3> SUFFICES ASSUME NEW p \in Piles, NEW i \in DOMAIN pile[p]
                 PROVE  \E x \in Positions : f[x] = pile[p][i]
      BY DEF Parked, Range
    <3>1. <<p, i>> \in Positions /\ f[<<p, i>>] = pile[p][i]
      BY <1>3
    <3> QED
      BY <3>1
  <2> QED
    BY <2>1, <2>2 DEF Surjection
<1>5. f \in Injection(Positions, Parked)
  <2>1. ASSUME NEW x \in Positions, NEW y \in Positions, f[x] = f[y]
        PROVE  x = y
    <3>1. /\ x[1] \in Piles /\ x[2] \in DOMAIN pile[x[1]] /\ x = <<x[1], x[2]>>
          /\ y[1] \in Piles /\ y[2] \in DOMAIN pile[y[1]] /\ y = <<y[1], y[2]>>
          /\ pile[x[1]][x[2]] = pile[y[1]][y[2]]
      BY <1>2, <2>1
    <3>2. pile[x[1]][x[2]] \in Range(pile[x[1]]) /\ pile[x[1]][x[2]] \in Range(pile[y[1]])
      BY <3>1 DEF Range
    <3>3. pile[x[1]][x[2]] \in Buffers
      BY <3>1, <3>2, RangeOfSeq DEF Control, TypeInv
    <3>4. x[1] = y[1]
      BY <3>1, <3>2, <3>3 DEF Apart, OnePlace
    <3>5. x[2] = y[2]
      BY <3>1, <3>4 DEF Apart, IsInjective
    <3> QED
      BY <3>1, <3>4, <3>5
  <2> QED
    BY <1>4, <2>1 DEF Injection, Surjection, IsInjective
<1>6. IsFiniteSet(Positions)
  BY CountIdleNat DEF Control
<1>7. Cardinality(Parked) = Cardinality(Positions)
  <2> HIDE DEF f
  <2> QED
    BY <1>4, <1>5, <1>6, FS_Surjection
<1> QED
  BY <1>1, <1>7 DEF CountIdle, Positions

\* A step that changes neither the counter nor the counted buffers.
LEMMA CountKept ==
  ASSUME Control, Apart, CountExact, UNCHANGED <<cap, parked>>,
         \A b : IsCounted(b)' <=> IsCounted(b)
  PROVE  CountExact'
  BY CountedIs DEF CountExact

\* A pop moves a counted buffer from a pile to a hand that awaits unpark.
LEMMA PopCounted ==
  ASSUME Control, Apart, NEW t \in Threads, NEW p \in Piles,
         NEW miss \in {"pop_reserve", "init"}, pc[t] \in {"pop_shard", "pop_reserve"},
         Pop(t, p, miss), UNCHANGED haul
  PROVE  \A b : IsCounted(b)' <=> IsCounted(b)
<1>1. CASE pile[p] = <<>>
  BY <1>1 DEF Pop, Control, TypeInv, IsCounted, PendingSteps
<1>2. CASE pile[p] # <<>>
  <2>1. pile[p] \in Seq(Buffers) /\ Last(pile[p]) \in Buffers
    BY <1>2, PopTypes DEF Control, TypeInv
  <2>2. /\ pc' = [pc EXCEPT ![t] = "unpark"]
        /\ hand' = [hand EXCEPT ![t] = Last(pile[p])]
        /\ pile' = [pile EXCEPT ![p] = Front(pile[p])]
    BY <1>2 DEF Pop
  <2>3. Range(Front(pile[p])) = Range(pile[p]) \ {Last(pile[p])}
        /\ Last(pile[p]) \in Range(pile[p])
    BY <1>2, <2>1, PopRange DEF Apart
  <2> PICK b : b = Last(pile[p])
    OBVIOUS
  <2>4. /\ \A q \in Piles \ {p} : pile'[q] = pile[q]
        /\ Range(pile'[p]) = Range(pile[p]) \ {b}
        /\ b \in Range(pile[p])
        /\ hand'[t] = b /\ pc'[t] = "unpark"
        /\ \A u \in Threads \ {t} : hand'[u] = hand[u] /\ pc'[u] = pc[u]
        /\ pc[t] \notin PendingSteps
    BY <2>2, <2>3 DEF Control, TypeInv, PendingSteps
  <2>5. ASSUME NEW c, c # b PROVE IsCounted(c)' <=> IsCounted(c)
    <3>1. \A q \in Piles : c \in Range(pile'[q]) <=> c \in Range(pile[q])
      BY <2>4, <2>5
    <3>2. \A u \in Threads : /\ pc'[u] \in PendingSteps /\ c = hand'[u]
                             <=> pc[u] \in PendingSteps /\ c = hand[u]
      BY <2>4, <2>5
    <3> QED
      BY <3>1, <3>2 DEF IsCounted
  <2>6. IsCounted(b) /\ IsCounted(b)'
    BY <2>4 DEF IsCounted, PendingSteps
  <2> QED
    BY <2>5, <2>6
<1> QED
  BY <1>1, <1>2

\* A call that ends after a counted step takes its buffer out of the count.
LEMMA HandLeaves ==
  ASSUME Control, Apart, NEW t \in Threads, pc[t] \in PendingSteps,
         NEW to \in PC \ PendingSteps,
         hand' = [hand EXCEPT ![t] = NoBuffer], pc' = [pc EXCEPT ![t] = to],
         UNCHANGED <<pile, haul>>
  PROVE  /\ Counted' = Counted \ {hand[t]}
         /\ hand[t] \in Counted
<1>1. hand[t] \in Buffers
  BY DEF Control, TypeInv, HandInv, Moving, PendingSteps
<1>2. /\ \A p \in Piles : hand[t] \notin Range(pile[p])
      /\ \A u \in Threads : hand[t] \notin Range(haul[u]) /\ (hand[u] = hand[t] => u = t)
  BY <1>1 DEF Apart, OnePlace
<1>3. /\ \A u \in Threads \ {t} : hand'[u] = hand[u] /\ pc'[u] = pc[u]
      /\ pc'[t] \notin PendingSteps
  BY DEF Control, TypeInv
<1>4. ASSUME NEW c, c # hand[t] PROVE IsCounted(c)' <=> IsCounted(c)
  BY <1>3, <1>4 DEF IsCounted
<1>5. IsCounted(hand[t])
  BY DEF IsCounted
<1> PICK h : h = hand[t]
  OBVIOUS
<1>6. /\ \A p \in Piles : h \notin Range(pile'[p])
      /\ \A u \in Threads : pc'[u] \in PendingSteps => h # hand'[u]
      /\ \A u \in Threads : h \notin Range(haul'[u])
  BY <1>2, <1>3
<1>7. /\ \A c : c # h => (c \in Counted' <=> c \in Counted)
      /\ h \in Counted
  BY <1>4, <1>5, CountedIs
<1>8. h \notin Counted'
  <2>1. ~IsCounted(h)'
    BY <1>6 DEF IsCounted
  <2> QED
    BY <2>1, CountedIs
<1> QED
  BY <1>7, <1>8

\* A fresh pool is uncapped and counts nothing.
LEMMA CountInit == Init => CountExact /\ CounterOff
  BY DEF Init, CountExact, CounterOff

\* Every step keeps the count exact: it changes the counter and the counted
\* buffers together, or neither.
LEMMA CountStep ==
  Control /\ CounterOff /\ Apart /\ CountExact /\ [Next]_vars
    => CountExact' /\ CounterOff'
<1> SUFFICES ASSUME Control, CounterOff, Apart, CountExact, [Next]_vars
             PROVE  CountExact' /\ CounterOff'
  OBVIOUS
<1>0. /\ \A t \in Threads : hand[t] # NoBuffer => hand[t] \in Buffers
      /\ \A t \in Threads : hand[t] # NoBuffer <=> pc[t] \in Moving
      /\ NoBuffer \notin Buffers
      /\ hand \in [Threads -> Buffers \cup {NoBuffer}]
      /\ pc \in [Threads -> PC]
      /\ haul \in [Threads -> Seq(Buffers)]
      /\ pile \in [Piles -> Seq(Buffers)]
      /\ parked \in Int
  BY BuffersAssumption DEF Control, TypeInv, HandInv
<1>k. ASSUME UNCHANGED <<cap, parked>>, \A b : IsCounted(b)' <=> IsCounted(b)
      PROVE  CountExact' /\ CounterOff'
  BY <1>k, CountKept DEF CounterOff
<1>1. ASSUME NEW t \in Threads, Get(t)
      PROVE  CountExact' /\ CounterOff'
  <2>1. \A b : IsCounted(b)' <=> IsCounted(b)
    BY <1>0, <1>1 DEF Get, IsCounted, PendingSteps
  <2> QED
    BY <1>1, <1>k, <2>1 DEF Get
<1>2. ASSUME NEW t \in Threads, PopShard(t)
      PROVE  CountExact' /\ CounterOff'
  <2>1. \A b : IsCounted(b)' <=> IsCounted(b)
    BY <1>2, ShardIsPile, PopCounted DEF PopShard, Control
  <2> QED
    BY <1>2, <1>k, <2>1 DEF PopShard
<1>3. ASSUME NEW t \in Threads, PopReserve(t)
      PROVE  CountExact' /\ CounterOff'
  <2>1. Reserve \in Piles
    BY ShardsAssumption DEF Reserve, Piles
  <2>2. \A b : IsCounted(b)' <=> IsCounted(b)
    BY <1>3, <2>1, PopCounted DEF PopReserve
  <2> QED
    BY <1>3, <1>k, <2>2 DEF PopReserve
<1>4. ASSUME NEW t \in Threads, Unpark(t)
      PROVE  CountExact' /\ CounterOff'
  <2>1. pc[t] \in PendingSteps /\ haul' = haul /\ pile' = pile /\ cap' = cap
    BY <1>4 DEF Unpark, PendingSteps
  <2>2. hand' = [hand EXCEPT ![t] = NoBuffer] /\ pc' = [pc EXCEPT ![t] = "ready"]
    BY <1>4 DEF Unpark
  <2>3. Counted' = Counted \ {hand[t]} /\ hand[t] \in Counted
    <3>1. "ready" \in PC \ PendingSteps
      BY DEF PC, PendingSteps
    <3> QED
      BY <2>1, <2>2, <3>1, HandLeaves
  <2>4. parked' = IF cap = Uncapped THEN parked ELSE parked - 1
    BY <1>4 DEF Unpark
  <2> QED
    BY <2>1, <2>3, <2>4, CountedFinite, FS_RemoveElement DEF CountExact, CounterOff
<1>5. ASSUME NEW t \in Threads, RunInit(t)
      PROVE  CountExact' /\ CounterOff'
  <2>1. \A b : IsCounted(b)' <=> IsCounted(b)
    BY <1>0, <1>5 DEF RunInit, IsCounted, PendingSteps
  <2> QED
    BY <1>5, <1>k, <2>1 DEF RunInit
<1>6. ASSUME NEW t \in Threads, InitPanics(t)
      PROVE  CountExact' /\ CounterOff'
  <2>1. \A b : IsCounted(b)' <=> IsCounted(b)
    BY <1>0, <1>6 DEF InitPanics, IsCounted, PendingSteps
  <2> QED
    BY <1>6, <1>k, <2>1 DEF InitPanics
<1>7. ASSUME NEW t \in Threads, FillInit(t)
      PROVE  CountExact' /\ CounterOff'
  <2>0. /\ pc[t] = "fill" /\ pc' = [pc EXCEPT ![t] = "reset"]
        /\ \A u \in Threads \ {t} : hand'[u] = hand[u]
        /\ UNCHANGED <<pile, haul>>
    BY <1>0, <1>7 DEF FillInit
  <2>1. \A b : IsCounted(b)' <=> IsCounted(b)
    BY <1>0, <2>0 DEF IsCounted, PendingSteps
  <2> QED
    BY <1>7, <1>k, <2>1 DEF FillInit
<1>8. ASSUME NEW t \in Threads, Reset(t)
      PROVE  CountExact' /\ CounterOff'
  <2>1. \A b : IsCounted(b)' <=> IsCounted(b)
    BY <1>0, <1>8 DEF Reset, IsCounted, PendingSteps
  <2> QED
    BY <1>8, <1>k, <2>1 DEF Reset
<1>9. ASSUME NEW t \in Threads, ResetPanics(t)
      PROVE  CountExact' /\ CounterOff'
  <2>1. \A b : IsCounted(b)' <=> IsCounted(b)
    BY <1>0, <1>9 DEF ResetPanics, IsCounted, PendingSteps
  <2> QED
    BY <1>9, <1>k, <2>1 DEF ResetPanics
<1>10. ASSUME NEW t \in Threads, CapAllows(t)
       PROVE  CountExact' /\ CounterOff'
  <2>1. PICK to \in {"push", "unclaim"} : pc' = [pc EXCEPT ![t] = to]
    BY <1>10 DEF CapAllows
  <2>2. pc[t] = "cap_allows" /\ UNCHANGED <<cap, pile, hand, haul>>
    BY <1>10 DEF CapAllows
  <2>3. Counted' = Counted \cup {hand[t]}
    <3>1. \A b : IsCounted(b)' <=> IsCounted(b) \/ b = hand[t]
      BY <1>0, <2>1, <2>2 DEF IsCounted, PendingSteps
    <3> QED
      BY <3>1, CountedIs
  <2>4. hand[t] \notin Counted
    BY <1>0, <2>2, CountedIs DEF IsCounted, PendingSteps, Moving, Apart, OnePlace
  <2>5. parked' = IF cap = Uncapped THEN parked ELSE parked + 1
    BY <1>10 DEF CapAllows
  <2> QED
    BY <2>2, <2>3, <2>4, <2>5, CountedFinite, FS_AddElement DEF CountExact, CounterOff
<1>11. ASSUME NEW t \in Threads, Unclaim(t)
       PROVE  CountExact' /\ CounterOff'
  <2>1. pc[t] \in PendingSteps /\ UNCHANGED <<cap, pile, haul>>
    BY <1>11 DEF Unclaim, PendingSteps
  <2>2. PICK to \in {"fill", "ready"} : pc' = [pc EXCEPT ![t] = to]
    BY <1>11 DEF Unclaim, FinishReturn
  <2>3. hand' = [hand EXCEPT ![t] = NoBuffer]
    BY <1>11 DEF Unclaim, FinishReturn
  <2>4. Counted' = Counted \ {hand[t]} /\ hand[t] \in Counted
    <3>1. to \in PC \ PendingSteps
      BY DEF PC, PendingSteps
    <3> QED
      BY <2>1, <2>2, <2>3, <3>1, HandLeaves
  <2>5. parked' = parked - 1
    BY <1>11 DEF Unclaim
  <2>6. cap # Uncapped
    BY <1>11 DEF Unclaim, Control, UnclaimInv
  <2> QED
    BY <2>1, <2>4, <2>5, <2>6, CountedFinite, FS_RemoveElement DEF CountExact, CounterOff
<1>12. ASSUME NEW t \in Threads, Push(t)
       PROVE  CountExact' /\ CounterOff'
  <2>1. PICK p \in Piles : pile' = [pile EXCEPT ![p] = Append(@, hand[t])]
    <3>1. Shard(t) \in Piles /\ Reserve \in Piles
      BY ShardIsPile, ShardsAssumption DEF Reserve, Piles, Control
    <3> QED
      BY <1>12, <3>1 DEF Push
  <2>2. PICK to \in {"fill", "ready"} : pc' = [pc EXCEPT ![t] = to]
    BY <1>12 DEF Push, FinishReturn
  <2>3. /\ pc[t] = "push"
        /\ hand' = [hand EXCEPT ![t] = NoBuffer]
        /\ UNCHANGED <<cap, parked, haul>>
    BY <1>12 DEF Push, FinishReturn
  <2>4. hand[t] \in Buffers /\ hand[t] \notin Range(pile[p])
    BY <1>0, <2>3 DEF Moving, Apart, OnePlace
  <2>5. Range(pile'[p]) = Range(pile[p]) \cup {hand[t]}
    BY <1>0, <2>1, <2>4, PushRange DEF Apart
  <2> PICK h : h = hand[t]
    OBVIOUS
  <2>6. /\ \A q \in Piles \ {p} : pile'[q] = pile[q]
        /\ \A u \in Threads \ {t} : hand'[u] = hand[u] /\ pc'[u] = pc[u]
        /\ pc'[t] \notin PendingSteps /\ pc[t] \in PendingSteps
        /\ Range(pile'[p]) = Range(pile[p]) \cup {h}
    BY <1>0, <2>1, <2>2, <2>3, <2>5 DEF PendingSteps
  <2>7. IsCounted(h)
    BY <2>6 DEF IsCounted
  <2>8. h \in Counted'
    BY <2>6, CountedIs DEF IsCounted
  <2>9. ASSUME NEW c, c # h PROVE IsCounted(c)' <=> IsCounted(c)
    BY <2>3, <2>6, <2>9 DEF IsCounted
  <2> QED
    BY <1>k, <2>3, <2>7, <2>8, <2>9, CountedIs
<1>13. ASSUME NEW t \in Threads, Drain(t)
       PROVE  CountExact' /\ CounterOff'
  <2>1. \A b : IsCounted(b)' <=> IsCounted(b)
    BY <1>0, <1>13 DEF Drain, IsCounted, PendingSteps
  <2> QED
    BY <1>13, <1>k, <2>1 DEF Drain
<1>14. ASSUME NEW t \in Threads, DrainPile(t)
       PROVE  CountExact' /\ CounterOff'
  <2> PICK p : p = at[t]
    OBVIOUS
  <2>1. /\ p \in Piles
        /\ haul' = [haul EXCEPT ![t] = haul[t] \o pile[p]]
        /\ pile' = [pile EXCEPT ![p] = <<>>]
        /\ UNCHANGED <<hand, cap, parked>>
        /\ pc[t] = "drain"
    BY <1>14 DEF DrainPile, Control, TypeInv
  <2>2. PICK to \in {"settle", "drain"} : pc' = [pc EXCEPT ![t] = to]
    BY <1>14 DEF DrainPile
  <2>3. Range(haul[t]) \cap Range(pile[p]) = {}
    BY <1>0, <2>1, RangeOfSeq DEF Apart, OnePlace
  <2>4. /\ Range(haul'[t]) = Range(haul[t]) \cup Range(pile[p])
        /\ Range(pile'[p]) = {}
        /\ \A q \in Piles \ {p} : pile'[q] = pile[q]
        /\ \A u \in Threads \ {t} : haul'[u] = haul[u]
    <3>1. Range(haul[t] \o pile[p]) = Range(haul[t]) \cup Range(pile[p])
      BY <1>0, <2>1, <2>3, ConcatRange DEF Apart
    <3>2. haul'[t] = haul[t] \o pile[p] /\ pile'[p] = <<>>
      BY <1>0, <2>1
    <3> QED
      BY <1>0, <2>1, <3>1, <3>2, EmptyPile
  <2>5. \A u \in Threads : pc'[u] \in PendingSteps <=> pc[u] \in PendingSteps
    BY <1>0, <2>1, <2>2 DEF PendingSteps
  <2>6. \A b : IsCounted(b)' <=> IsCounted(b)
    BY <2>1, <2>4, <2>5 DEF IsCounted
  <2> QED
    BY <1>k, <2>1, <2>6
<1>15. ASSUME NEW t \in Threads, DrainSettle(t)
       PROVE  CountExact' /\ CounterOff'
  <2>1. /\ parked' = IF cap = Uncapped THEN parked ELSE parked - Len(haul[t])
        /\ haul' = [haul EXCEPT ![t] = <<>>]
        /\ pc' = [pc EXCEPT ![t] = "ready"]
        /\ pc[t] = "settle"
        /\ UNCHANGED <<cap, pile, hand>>
    BY <1>15 DEF DrainSettle
  <2> DEFINE gone == Range(haul[t])
  <2>2. /\ gone \subseteq Counted
        /\ Cardinality(gone) = Len(haul[t])
        /\ IsFiniteSet(gone)
    <3>1. gone \subseteq Counted
      BY CountedIs DEF IsCounted
    <3> QED
      BY <1>0, <3>1, InjectiveLen DEF Apart
  <2>3. Counted' = Counted \ gone
    <3>1. /\ \A u \in Threads \ {t} : haul'[u] = haul[u]
          /\ Range(haul'[t]) = {}
          /\ \A u \in Threads : pc'[u] \in PendingSteps <=> pc[u] \in PendingSteps
      BY <1>0, <2>1, EmptyPile DEF PendingSteps
    <3>2. /\ gone \subseteq Buffers
          /\ \A b \in gone : OnePlace(b)
      BY <1>0, RangeOfSeq DEF Apart
    <3>3. ASSUME NEW b \in gone PROVE ~IsCounted(b)'
      BY <2>1, <3>1, <3>2 DEF IsCounted, OnePlace
    <3>4. ASSUME NEW b, b \notin gone PROVE IsCounted(b)' <=> IsCounted(b)
      BY <2>1, <3>1, <3>4 DEF IsCounted
    <3> QED
      BY <2>2, <3>3, <3>4, CountedIs
  <2>4. Cardinality(Counted') = Cardinality(Counted) - Len(haul[t])
    <3> HIDE DEF gone
    <3>1. Cardinality(Counted \ gone) = Cardinality(Counted) - Cardinality(Counted \cap gone)
      BY CountedFinite, FS_Difference
    <3>2. Counted \cap gone = gone
      BY <2>2
    <3> QED
      BY <2>2, <2>3, <3>1, <3>2
  <2> QED
    BY <2>1, <2>4 DEF CountExact, CounterOff
<1>16. ASSUME NEW t \in Threads, ThreadExit(t)
       PROVE  CountExact' /\ CounterOff'
  BY <1>16, <1>k DEF ThreadExit, IsCounted
<1>17. ASSUME NEW t \in Threads, NEW n \in 1 .. MaxFill, Prefill(t, n)
       PROVE  CountExact' /\ CounterOff'
  <2>1. \A b : IsCounted(b)' <=> IsCounted(b)
    BY <1>0, <1>17 DEF Prefill, IsCounted, PendingSteps
  <2> QED
    BY <1>17, <1>k, <2>1 DEF Prefill
<1>18. ASSUME NEW t \in Threads, NEW b \in Buffers, IntoInner(t, b)
       PROVE  CountExact' /\ CounterOff'
  BY <1>18, <1>k DEF IntoInner, IsCounted
<1>19. ASSUME NEW t \in Threads, NEW b \in Buffers, DropGuard(t, b)
       PROVE  CountExact' /\ CounterOff'
  <2>0. /\ pc[t] = "ready" /\ pc' = [pc EXCEPT ![t] = "reset"]
        /\ \A u \in Threads \ {t} : hand'[u] = hand[u]
        /\ UNCHANGED <<cap, parked, pile, haul>>
    BY <1>0, <1>19 DEF DropGuard
  <2>1. \A c : IsCounted(c)' <=> IsCounted(c)
    BY <1>0, <2>0 DEF IsCounted, PendingSteps
  <2> QED
    BY <1>k, <2>0, <2>1
<1>20. ASSUME NEW t \in Threads, NEW b \in Buffers, Put(t, b)
       PROVE  CountExact' /\ CounterOff'
  <2>0. /\ pc[t] = "ready" /\ pc' = [pc EXCEPT ![t] = "reset"]
        /\ \A u \in Threads \ {t} : hand'[u] = hand[u]
        /\ UNCHANGED <<cap, parked, pile, haul>>
    BY <1>0, <1>20 DEF Put
  <2>1. \A c : IsCounted(c)' <=> IsCounted(c)
    BY <1>0, <2>0 DEF IsCounted, PendingSteps
  <2> QED
    BY <1>k, <2>0, <2>1
<1>21. ASSUME NEW t \in Threads, NEW u \in Threads, NEW b \in Buffers, SendGuard(t, u, b)
       PROVE  CountExact' /\ CounterOff'
  BY <1>21, <1>k DEF SendGuard, IsCounted
<1>22. ASSUME NEW b \in Buffers, DropLoose(b)
       PROVE  CountExact' /\ CounterOff'
  BY <1>22, <1>k DEF DropLoose, IsCounted
<1>23. ASSUME NEW n \in Caps \cup {Uncapped}, WithMaxIdle(n)
       PROVE  CountExact' /\ CounterOff'
  <2>1. /\ Exclusive
        /\ cap' = n
        /\ parked' = IF n = Uncapped THEN 0 ELSE CountIdle
        /\ UNCHANGED <<pile, pc, hand, haul>>
    BY <1>23 DEF WithMaxIdle
  <2>2. Counted' = Counted
    BY <2>1, CountedIs DEF IsCounted
  <2> QED
    BY <2>1, <2>2, Recount DEF CountExact, CounterOff
<1>24. ASSUME WithReset
       PROVE  CountExact' /\ CounterOff'
  BY <1>24, <1>k DEF WithReset, IsCounted
<1>25. CASE UNCHANGED vars
  BY <1>25, <1>k DEF vars, IsCounted
<1> QED
  BY <1>1, <1>2, <1>3, <1>4, <1>5, <1>6, <1>7, <1>8, <1>9, <1>10, <1>11, <1>12, <1>13,
     <1>14, <1>15, <1>16, <1>17, <1>18, <1>19, <1>20, <1>21, <1>22, <1>23, <1>24, <1>25
  DEF Next, Step, Call

-----------------------------------------------------------------------------
(* The cap.                                                                 *)

\* The admitted buffers are finitely many, and all of them are counted.
LEMMA AdmittedFinite ==
  ASSUME Control
  PROVE  /\ Admitted \subseteq Counted
         /\ \A S \in SUBSET Admitted : IsFiniteSet(S) /\ Cardinality(S) \in Nat
                                      /\ Cardinality(S) <= Cardinality(Admitted)
         /\ Cardinality(Admitted) \in Nat
         /\ Cardinality(Admitted) <= Cardinality(Counted)
<1>1. Admitted \subseteq Counted
  BY DEF Admitted, Counted, Claims, Pending
<1>2. IsFiniteSet(Admitted)
  BY <1>1, CountedFinite, FS_Subset
<1> QED
  BY <1>1, <1>2, CountedFinite, FS_Subset, FS_CardinalityType

\* A step that parks nothing and claims nothing keeps the claims under the cap.
LEMMA ClaimsKept ==
  ASSUME Control, ClaimsFitCap, cap \in Nat \cup {Uncapped}, UNCHANGED cap,
         \A p \in Piles : Range(pile'[p]) \subseteq Range(pile[p]),
         \A t \in Threads : pc'[t] = "push" => pc[t] = "push" /\ hand'[t] = hand[t]
  PROVE  ClaimsFitCap'
<1>1. Admitted' \subseteq Admitted
  BY DEF Admitted, Parked, Claims
<1>2. Claims' \subseteq Claims
  BY DEF Claims
<1>3. Cardinality(Admitted') \in Nat /\ Cardinality(Admitted') <= Cardinality(Admitted)
      /\ Cardinality(Admitted) \in Nat
  BY <1>1, AdmittedFinite
<1> QED
  BY <1>2, <1>3 DEF ClaimsFitCap

\* A push parks the buffer of its claim and no other.
LEMMA PushParks ==
  ASSUME Control, Apart, NEW t \in Threads, Push(t)
  PROVE  Parked' = Parked \cup {hand[t]}
<1>0. pile \in [Piles -> Seq(Buffers)]
  BY DEF Control, TypeInv
<1>1. PICK p \in Piles : pile' = [pile EXCEPT ![p] = Append(@, hand[t])]
  <2>1. Shard(t) \in Piles /\ Reserve \in Piles
    BY ShardIsPile, ShardsAssumption DEF Reserve, Piles, Control
  <2> QED
    BY <2>1 DEF Push
<1>2. hand[t] \in Buffers /\ hand[t] \notin Range(pile[p])
  BY DEF Push, Control, TypeInv, HandInv, Moving, Apart, OnePlace
<1>3. Range(pile'[p]) = Range(pile[p]) \cup {hand[t]}
  BY <1>0, <1>1, <1>2, PushRange DEF Apart
<1>4. \A q \in Piles \ {p} : pile'[q] = pile[q]
  BY <1>0, <1>1
<1> QED
  BY <1>3, <1>4 DEF Parked

\* A fresh pool has no claims.
LEMMA ClaimsInit == Init => ClaimsFitCap
  BY DEF Init, ClaimsFitCap

\* Every step keeps the claims under the cap; only cap_allows adds one, and only
\* below the cap.
LEMMA ClaimsStep ==
  Control /\ Apart /\ CountExact /\ ClaimsFitCap /\ [Next]_vars => ClaimsFitCap'
<1> SUFFICES ASSUME Control, Apart, CountExact, ClaimsFitCap, [Next]_vars
             PROVE  ClaimsFitCap'
  OBVIOUS
<1>0. /\ pc \in [Threads -> PC]
      /\ hand \in [Threads -> Buffers \cup {NoBuffer}]
      /\ pile \in [Piles -> Seq(Buffers)]
      /\ cap \in Nat \cup {Uncapped}
      /\ parked \in Int
  BY CapsAssumption DEF Control, TypeInv
<1> DEFINE Kept == /\ UNCHANGED cap
                   /\ \A p \in Piles : Range(pile'[p]) \subseteq Range(pile[p])
                   /\ \A t \in Threads :
                        pc'[t] = "push" => pc[t] = "push" /\ hand'[t] = hand[t]
<1>k. Kept => ClaimsFitCap'
  BY <1>0, ClaimsKept
<1>p. ASSUME NEW t \in Threads, NEW p \in Piles, NEW miss \in {"pop_reserve", "init"},
             Pop(t, p, miss)
      PROVE  /\ \A q \in Piles : Range(pile'[q]) \subseteq Range(pile[q])
             /\ \A u \in Threads : pc'[u] = "push" => pc[u] = "push" /\ hand'[u] = hand[u]
  <2>1. CASE pile[p] = <<>>
    BY <1>0, <1>p, <2>1 DEF Pop
  <2>2. CASE pile[p] # <<>>
    <3>1. Range(Front(pile[p])) \subseteq Range(pile[p])
      BY <1>0, <2>2, PopRange DEF Apart
    <3> QED
      BY <1>0, <1>p, <2>2, <3>1 DEF Pop
  <2> QED
    BY <2>1, <2>2
<1>1. ASSUME NEW t \in Threads, Get(t)
      PROVE  ClaimsFitCap'
  BY <1>0, <1>1, <1>k DEF Get
<1>2. ASSUME NEW t \in Threads, PopShard(t)
      PROVE  ClaimsFitCap'
  <2>1. Shard(t) \in Piles
    BY ShardIsPile DEF Control
  <2> QED
    BY <1>2, <1>k, <1>p, <2>1 DEF PopShard
<1>3. ASSUME NEW t \in Threads, PopReserve(t)
      PROVE  ClaimsFitCap'
  <2>1. Reserve \in Piles
    BY ShardsAssumption DEF Reserve, Piles
  <2> QED
    BY <1>3, <1>k, <1>p, <2>1 DEF PopReserve
<1>4. ASSUME NEW t \in Threads, Unpark(t)
      PROVE  ClaimsFitCap'
  BY <1>0, <1>4, <1>k DEF Unpark
<1>5. ASSUME NEW t \in Threads, RunInit(t)
      PROVE  ClaimsFitCap'
  BY <1>0, <1>5, <1>k DEF RunInit
<1>6. ASSUME NEW t \in Threads, InitPanics(t)
      PROVE  ClaimsFitCap'
  BY <1>0, <1>6, <1>k DEF InitPanics
<1>7. ASSUME NEW t \in Threads, FillInit(t)
      PROVE  ClaimsFitCap'
  BY <1>0, <1>7, <1>k DEF FillInit
<1>8. ASSUME NEW t \in Threads, Reset(t)
      PROVE  ClaimsFitCap'
  BY <1>0, <1>8, <1>k DEF Reset
<1>9. ASSUME NEW t \in Threads, ResetPanics(t)
      PROVE  ClaimsFitCap'
  BY <1>0, <1>9, <1>k DEF ResetPanics
<1>10. ASSUME NEW t \in Threads, CapAllows(t)
       PROVE  ClaimsFitCap'
  <2>1. UNCHANGED <<cap, pile, hand>> /\ pc[t] = "cap_allows"
    BY <1>10 DEF CapAllows
  <2>2. CASE cap = Uncapped
    BY <2>1, <2>2 DEF ClaimsFitCap
  <2>3. CASE cap # Uncapped /\ ~(parked >= cap)
    <3>1. Admitted' = Admitted \cup {hand[t]}
      <4>1. pc' = [pc EXCEPT ![t] = "push"]
        BY <1>10, <2>3 DEF CapAllows, Full
      <4>2. Claims' = Claims \cup {t}
        BY <1>0, <4>1 DEF Claims
      <4>3. Parked' = Parked
        BY <2>1 DEF Parked
      <4> QED
        BY <2>1, <4>2, <4>3 DEF Admitted
    <3>2. Cardinality(Admitted) \in Nat /\ Cardinality(Admitted) <= parked
          /\ IsFiniteSet(Admitted)
      BY <2>3, AdmittedFinite, CountedFinite DEF CountExact
    <3>3. Cardinality(Admitted') <= Cardinality(Admitted) + 1
          /\ Cardinality(Admitted') \in Nat
      <4>1. Cardinality(Admitted \cup {hand[t]})
              = IF hand[t] \in Admitted THEN Cardinality(Admitted)
                                        ELSE Cardinality(Admitted) + 1
        BY <3>2, FS_AddElement
      <4> QED
        BY <3>1, <3>2, <4>1
    <3>4. cap \in Nat
      BY <1>0, <2>3
    <3>5. Cardinality(Admitted') <= cap
      BY <1>0, <2>3, <3>2, <3>3, <3>4
    <3> QED
      BY <2>1, <3>5 DEF ClaimsFitCap
  <2>4. CASE cap # Uncapped /\ parked >= cap
    <3>1. pc' = [pc EXCEPT ![t] = "unclaim"]
      BY <1>10, <2>4 DEF CapAllows, Full
    <3> QED
      BY <1>0, <1>k, <2>1, <3>1
  <2> QED
    BY <2>2, <2>3, <2>4
<1>11. ASSUME NEW t \in Threads, Unclaim(t)
       PROVE  ClaimsFitCap'
  BY <1>0, <1>11, <1>k DEF Unclaim, FinishReturn
<1>12. ASSUME NEW t \in Threads, Push(t)
       PROVE  ClaimsFitCap'
  <2>2. /\ pc[t] = "push" /\ pc'[t] # "push"
        /\ \A u \in Threads \ {t} : pc'[u] = pc[u] /\ hand'[u] = hand[u]
        /\ UNCHANGED cap
    BY <1>0, <1>12 DEF Push, FinishReturn
  <2>4. Parked' = Parked \cup {hand[t]}
    BY <1>12, PushParks
  <2>5. Admitted' \subseteq Admitted
    BY <2>2, <2>4 DEF Admitted, Claims
  <2>6. Claims # {}
    BY <2>2 DEF Claims
  <2>7. /\ Cardinality(Admitted') \in Nat
        /\ Cardinality(Admitted) \in Nat
        /\ Cardinality(Admitted') <= Cardinality(Admitted)
    BY <2>5, AdmittedFinite
  <2> QED
    BY <1>0, <2>2, <2>6, <2>7 DEF ClaimsFitCap
<1>13. ASSUME NEW t \in Threads, Drain(t)
       PROVE  ClaimsFitCap'
  BY <1>0, <1>13, <1>k DEF Drain
<1>14. ASSUME NEW t \in Threads, DrainPile(t)
       PROVE  ClaimsFitCap'
  <2>1. pile' = [pile EXCEPT ![at[t]] = <<>>]
    BY <1>14 DEF DrainPile
  <2> QED
    BY <1>0, <1>14, <1>k, <2>1, EmptyPile DEF DrainPile
<1>15. ASSUME NEW t \in Threads, DrainSettle(t)
       PROVE  ClaimsFitCap'
  BY <1>0, <1>15, <1>k DEF DrainSettle
<1>16. ASSUME NEW t \in Threads, ThreadExit(t)
       PROVE  ClaimsFitCap'
  BY <1>0, <1>16, <1>k DEF ThreadExit
<1>17. ASSUME NEW t \in Threads, NEW n \in 1 .. MaxFill, Prefill(t, n)
       PROVE  ClaimsFitCap'
  BY <1>0, <1>17, <1>k DEF Prefill
<1>18. ASSUME NEW t \in Threads, NEW b \in Buffers, IntoInner(t, b)
       PROVE  ClaimsFitCap'
  BY <1>0, <1>18, <1>k DEF IntoInner
<1>19. ASSUME NEW t \in Threads, NEW b \in Buffers, DropGuard(t, b)
       PROVE  ClaimsFitCap'
  BY <1>0, <1>19, <1>k DEF DropGuard
<1>20. ASSUME NEW t \in Threads, NEW b \in Buffers, Put(t, b)
       PROVE  ClaimsFitCap'
  BY <1>0, <1>20, <1>k DEF Put
<1>21. ASSUME NEW t \in Threads, NEW u \in Threads, NEW b \in Buffers, SendGuard(t, u, b)
       PROVE  ClaimsFitCap'
  BY <1>0, <1>21, <1>k DEF SendGuard
<1>22. ASSUME NEW b \in Buffers, DropLoose(b)
       PROVE  ClaimsFitCap'
  BY <1>0, <1>22, <1>k DEF DropLoose
<1>23. ASSUME NEW n \in Caps \cup {Uncapped}, WithMaxIdle(n)
       PROVE  ClaimsFitCap'
  BY <1>23 DEF WithMaxIdle, Exclusive, ClaimsFitCap, Claims
<1>24. ASSUME WithReset
       PROVE  ClaimsFitCap'
  BY <1>24, <1>k DEF WithReset
<1>25. CASE UNCHANGED vars
  BY <1>25, <1>k DEF vars
<1> QED
  BY <1>1, <1>2, <1>3, <1>4, <1>5, <1>6, <1>7, <1>8, <1>9, <1>10, <1>11, <1>12, <1>13,
     <1>14, <1>15, <1>16, <1>17, <1>18, <1>19, <1>20, <1>21, <1>22, <1>23, <1>24, <1>25
  DEF Next, Step, Call

-----------------------------------------------------------------------------
(* The hook.                                                                *)

\* Between the hook and the push a buffer stays reset. A late with_reset finds
\* no return under way.
CleanInv ==
  \A t \in Threads :
    hook /\ pc[t] \in {"cap_allows", "unclaim", "push"} => hand[t] \in clean

\* A fresh pool has no return under way.
LEMMA CleanInit == Init => CleanInv
  BY DEF Init, CleanInv

\* Every step keeps what a return has reset clean.
LEMMA CleanStep == Control /\ Apart /\ CleanInv /\ [Next]_vars => CleanInv'
<1> SUFFICES ASSUME Control, Apart, CleanInv, [Next]_vars, NEW w \in Threads, hook',
                    pc'[w] \in {"cap_allows", "unclaim", "push"}
             PROVE  hand'[w] \in clean'
  BY DEF CleanInv
<1>0. /\ pc \in [Threads -> PC]
      /\ hand \in [Threads -> Buffers \cup {NoBuffer}]
      /\ \A t \in Threads : hand[t] # NoBuffer <=> pc[t] \in Moving
      /\ hook \in BOOLEAN
  BY DEF Control, TypeInv, HandInv
<1>d. \A t, u \in Threads : hand[t] = hand[u] /\ pc[t] \in Moving => t = u
  BY <1>0 DEF Apart, OnePlace
<1>1. ASSUME NEW t \in Threads, Get(t)
      PROVE  hand'[w] \in clean'
  BY <1>0, <1>1 DEF Get, CleanInv
<1>2. ASSUME NEW t \in Threads, PopShard(t)
      PROVE  hand'[w] \in clean'
  BY <1>0, <1>2 DEF PopShard, Pop, CleanInv
<1>3. ASSUME NEW t \in Threads, PopReserve(t)
      PROVE  hand'[w] \in clean'
  BY <1>0, <1>3 DEF PopReserve, Pop, CleanInv
<1>4. ASSUME NEW t \in Threads, Unpark(t)
      PROVE  hand'[w] \in clean'
  BY <1>0, <1>d, <1>4 DEF Unpark, CleanInv, Moving
<1>5. ASSUME NEW t \in Threads, RunInit(t)
      PROVE  hand'[w] \in clean'
  BY <1>0, <1>5 DEF RunInit, CleanInv
<1>6. ASSUME NEW t \in Threads, InitPanics(t)
      PROVE  hand'[w] \in clean'
  BY <1>0, <1>6 DEF InitPanics, CleanInv
<1>7. ASSUME NEW t \in Threads, FillInit(t)
      PROVE  hand'[w] \in clean'
  BY <1>0, <1>7 DEF FillInit, CleanInv
<1>8. ASSUME NEW t \in Threads, Reset(t)
      PROVE  hand'[w] \in clean'
  BY <1>0, <1>8 DEF Reset, CleanInv
<1>9. ASSUME NEW t \in Threads, ResetPanics(t)
      PROVE  hand'[w] \in clean'
  BY <1>0, <1>9 DEF ResetPanics, CleanInv
<1>10. ASSUME NEW t \in Threads, CapAllows(t)
       PROVE  hand'[w] \in clean'
  BY <1>0, <1>10 DEF CapAllows, CleanInv
<1>11. ASSUME NEW t \in Threads, Unclaim(t)
       PROVE  hand'[w] \in clean'
  BY <1>0, <1>d, <1>11 DEF Unclaim, FinishReturn, CleanInv, Moving
<1>12. ASSUME NEW t \in Threads, Push(t)
       PROVE  hand'[w] \in clean'
  BY <1>0, <1>12 DEF Push, FinishReturn, CleanInv
<1>13. ASSUME NEW t \in Threads, Drain(t)
       PROVE  hand'[w] \in clean'
  BY <1>0, <1>13 DEF Drain, CleanInv
<1>14. ASSUME NEW t \in Threads, DrainPile(t)
       PROVE  hand'[w] \in clean'
  BY <1>0, <1>14 DEF DrainPile, CleanInv
<1>15. ASSUME NEW t \in Threads, DrainSettle(t)
       PROVE  hand'[w] \in clean'
  <2>1. hand[w] \in clean /\ hand[w] \in Buffers
    BY <1>0, <1>15 DEF DrainSettle, CleanInv, Moving
  <2>2. hand[w] \notin Range(haul[t])
    BY <2>1 DEF Apart, OnePlace
  <2> QED
    BY <1>15, <2>1, <2>2 DEF DrainSettle
<1>16. ASSUME NEW t \in Threads, ThreadExit(t)
       PROVE  hand'[w] \in clean'
  BY <1>0, <1>16 DEF ThreadExit, CleanInv
<1>17. ASSUME NEW t \in Threads, NEW n \in 1 .. MaxFill, Prefill(t, n)
       PROVE  hand'[w] \in clean'
  BY <1>0, <1>17 DEF Prefill, CleanInv
<1>18. ASSUME NEW t \in Threads, NEW b \in Buffers, IntoInner(t, b)
       PROVE  hand'[w] \in clean'
  BY <1>0, <1>18 DEF IntoInner, CleanInv
<1>19. ASSUME NEW t \in Threads, NEW b \in Buffers, DropGuard(t, b)
       PROVE  hand'[w] \in clean'
  BY <1>0, <1>19 DEF DropGuard, CleanInv
<1>20. ASSUME NEW t \in Threads, NEW b \in Buffers, Put(t, b)
       PROVE  hand'[w] \in clean'
  BY <1>0, <1>20 DEF Put, CleanInv
<1>21. ASSUME NEW t \in Threads, NEW u \in Threads, NEW b \in Buffers, SendGuard(t, u, b)
       PROVE  hand'[w] \in clean'
  BY <1>0, <1>21 DEF SendGuard, CleanInv
<1>22. ASSUME NEW b \in Buffers, DropLoose(b)
       PROVE  hand'[w] \in clean'
  BY <1>0, <1>22 DEF DropLoose, CleanInv
<1>23. ASSUME NEW n \in Caps \cup {Uncapped}, WithMaxIdle(n)
       PROVE  hand'[w] \in clean'
  BY <1>23 DEF WithMaxIdle, Exclusive
<1>24. ASSUME WithReset
       PROVE  hand'[w] \in clean'
  BY <1>24 DEF WithReset, Exclusive
<1>25. CASE UNCHANGED vars
  BY <1>25 DEF vars, CleanInv
<1> QED
  BY <1>1, <1>2, <1>3, <1>4, <1>5, <1>6, <1>7, <1>8, <1>9, <1>10, <1>11, <1>12, <1>13,
     <1>14, <1>15, <1>16, <1>17, <1>18, <1>19, <1>20, <1>21, <1>22, <1>23, <1>24, <1>25
  DEF Next, Step, Call

-----------------------------------------------------------------------------
(* The theorems.                                                            *)

\* Only a push parks a buffer.
LEMMA OnlyPushParks ==
  ASSUME Control, Apart, [Next]_vars, ~(Parked' \subseteq Parked)
  PROVE  \E t \in Threads : Push(t)
<1>0. pile \in [Piles -> Seq(Buffers)]
  BY DEF Control, TypeInv
<1>1. pile' # pile
  BY DEF Parked
<1>2. ASSUME NEW t \in Threads, NEW p \in Piles, NEW miss, Pop(t, p, miss)
      PROVE  FALSE
  <2>1. pile[p] # <<>> /\ pile' = [pile EXCEPT ![p] = Front(pile[p])]
    BY <1>1, <1>2 DEF Pop
  <2>2. Range(Front(pile[p])) \subseteq Range(pile[p])
    BY <1>0, <2>1, PopRange DEF Apart
  <2> QED
    BY <1>0, <2>1, <2>2 DEF Parked
<1>3. ASSUME NEW t \in Threads, PopShard(t)
      PROVE  FALSE
  BY <1>2, <1>3, ShardIsPile DEF PopShard, Control
<1>4. ASSUME NEW t \in Threads, PopReserve(t)
      PROVE  FALSE
  BY <1>2, <1>4, ShardsAssumption DEF PopReserve, Reserve, Piles
<1>5. ASSUME NEW t \in Threads, DrainPile(t)
      PROVE  FALSE
  <2>1. pile' = [pile EXCEPT ![at[t]] = <<>>]
    BY <1>5 DEF DrainPile
  <2> QED
    BY <1>0, <2>1, EmptyPile DEF Parked
<1> QED
  BY <1>1, <1>3, <1>4, <1>5
  DEF Next, Step, Call, vars, Get, RunInit, InitPanics, FillInit, Reset, ResetPanics, CapAllows, Drain, DrainSettle,
      ThreadExit, Prefill, IntoInner, DropGuard, Put, SendGuard, DropLoose, WithMaxIdle, WithReset, Unpark, Unclaim

\* The inductive invariant.
IInv ==
  /\ Control
  /\ CounterOff
  /\ Apart
  /\ CountExact
  /\ ClaimsFitCap
  /\ CleanInv

\* The invariant holds in every state of every behaviour.
LEMMA StepKeepsIInv == IInv /\ [Next]_vars => IInv'
  BY ControlStep, ApartStep, CountStep, ClaimsStep, CleanStep DEF IInv

\* The inductive invariant holds throughout.
LEMMA Inductive == Spec => []IInv
<1>1. Init => IInv
  BY ControlInit, ApartInit, CountInit, ClaimsInit, CleanInit DEF IInv
<1> QED
  BY <1>1, StepKeepsIInv, PTL DEF Spec

\* Every variable keeps its type; the unsigned counter never goes below zero.
THEOREM TypeCorrect == Spec => []TypeOK
<1>1. IInv => TypeOK
  <2> SUFFICES ASSUME IInv PROVE parked \in Nat
    BY DEF IInv, Control, TypeInv, TypeOK
  <2>1. CASE cap = Uncapped
    BY <2>1 DEF IInv, CounterOff
  <2>2. CASE cap # Uncapped
    BY <2>2, CountedFinite DEF IInv, CountExact
  <2> QED
    BY <2>1, <2>2
<1> QED
  BY <1>1, Inductive, PTL

\* No buffer is ever in two places: no two leases alias (pop, push, take).
THEOREM NoBufferAliased == Spec => []NoAliasing
<1>1. IInv => NoAliasing
  BY ApartNoAliasing DEF IInv
<1> QED
  BY <1>1, Inductive, PTL

\* The counter of a capped pool is exact up to the calls under way.
THEOREM CounterExact == Spec => []CountExact
<1>1. IInv => CountExact
  BY DEF IInv
<1> QED
  BY <1>1, Inductive, PTL

\* While a claim is out, parked and claimed buffers fit under the cap.
THEOREM ClaimsFit == Spec => []ClaimsFitCap
<1>1. IInv => ClaimsFitCap
  BY DEF IInv
<1> QED
  BY <1>1, Inductive, PTL

\* A push finds room for what it parks.
LEMMA ParkingStep ==
  ASSUME Control, Apart, ClaimsFitCap, [Next]_vars, cap # Uncapped, ~(Parked' \subseteq Parked)
  PROVE  Cardinality(Parked') <= cap
<1>1. PICK t \in Threads : Push(t)
  BY OnlyPushParks
<1>2. t \in Claims /\ hand[t] \in Admitted /\ Parked \subseteq Admitted
  BY <1>1 DEF Push, Claims, Admitted
<1>3. Parked' \subseteq Admitted
  BY <1>1, <1>2, PushParks
<1>4. /\ Cardinality(Parked') \in Nat
      /\ Cardinality(Admitted) \in Nat
      /\ Cardinality(Parked') <= Cardinality(Admitted)
  BY <1>3, AdmittedFinite
<1>5. Cardinality(Admitted) <= cap /\ cap \in Nat
  BY <1>2, CapsAssumption DEF ClaimsFitCap, Control, TypeInv
<1> QED
  BY <1>4, <1>5

\* No return takes a capped pool past its cap.
THEOREM ParkingFitsCap == Spec => ParkRespectsCap
<1>1. IInv /\ [Next]_vars
        => [cap # Uncapped /\ ~(Parked' \subseteq Parked) => Cardinality(Parked') <= cap]_vars
  BY ParkingStep DEF IInv
<1> QED
  BY <1>1, Inductive, PTL DEF Spec, ParkRespectsCap

\* A pool with a hook never parks a buffer that was not reset.
THEOREM ParkingIsClean == Spec => ResetBeforePark
<1>1. IInv /\ [Next]_vars => [hook => Parked' \ Parked \subseteq clean]_vars
  <2> SUFFICES ASSUME IInv, [Next]_vars, hook, NEW b \in Parked' \ Parked
               PROVE  b \in clean
    OBVIOUS
  <2>0. Control /\ Apart /\ CleanInv
    BY DEF IInv
  <2>1. PICK t \in Threads : Push(t)
    BY <2>0, OnlyPushParks
  <2>2. b = hand[t]
    BY <2>0, <2>1, PushParks
  <2> QED
    BY <2>0, <2>1, <2>2 DEF Push, CleanInv
<1> QED
  BY <1>1, Inductive, PTL DEF Spec, ResetBeforePark

=============================================================================

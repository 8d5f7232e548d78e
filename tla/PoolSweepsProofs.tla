--------------------------- MODULE PoolSweepsProofs ---------------------------
(****************************************************************************)
(* Proofs about drain and idle_len, for every number of threads, buffers    *)
(* and shards, and every interleaving with leases, returns and each other.  *)
(****************************************************************************)
EXTENDS PoolSweeps, BufferPoolCapProofs

\* Thread t's drain has not come to pile p.
NotYet(t, p) == pc[t] = "drain" /\ p >= at[t]

\* What a drain owes is in its haul or in a pile it will come to.
Reachable(t) ==
  \A b \in owed[t] :
    b \in Range(haul[t]) \/ \E p \in Piles : NotYet(t, p) /\ b \in Range(pile[p])

\* What lay in front of c is gathered before c, and lies in front of it still.
InOrder(t) ==
  \A b, c \in owed[t] : <<b, c>> \in ahead[t] =>
    /\ c \in Range(haul[t]) => b \in Range(haul[t])
    /\ \A i, j \in DOMAIN haul[t] : haul[t][i] = b /\ haul[t][j] = c => i < j
    /\ \A p, q \in Piles : b \in Range(pile[p]) /\ c \in Range(pile[q]) => p <= q
    /\ \A p \in Piles : \A i, j \in DOMAIN pile[p] :
         pile[p][i] = b /\ pile[p][j] = c => i < j

DrainInv ==
  \A t \in Threads :
    Draining(t) => /\ ahead[t] \subseteq owed[t] \X owed[t]
                   /\ Reachable(t)
                   /\ InOrder(t)

\* What this module's variables are.
SweepTypes ==
  /\ owed \in [Threads -> SUBSET Buffers]
  /\ ahead \in [Threads -> SUBSET (Buffers \X Buffers)]
  /\ next \in 0 .. Finished
  /\ sum \in Nat
  /\ stayed \subseteq Parked
  /\ steady \in BOOLEAN

\* The buffers of the piles that idle_len has counted.
Seen == UNION {Range(pile[p]) : p \in {q \in Piles : q < next}}

\* idle_len has counted whatever stayed where it has been, and nothing else if
\* no pile has changed.
CountInv ==
  /\ Cardinality(stayed \cap Seen) <= sum
  /\ steady => sum = Cardinality(Seen)

-----------------------------------------------------------------------------
(* What a step of the pool does to the piles.                               *)

\* Thread t pops the last buffer of pile p into its hand.
Popped(t, p) ==
  /\ pile[p] # <<>>
  /\ pile' = [pile EXCEPT ![p] = Front(pile[p])]
  /\ hand' = [hand EXCEPT ![t] = Last(pile[p])]
  /\ UNCHANGED haul

\* Thread t pushes the buffer in its hand onto pile p.
Pushed(t, p) ==
  /\ pc[t] = "push"
  /\ pile' = [pile EXCEPT ![p] = Append(pile[p], hand[t])]
  /\ UNCHANGED haul

\* Only pops, pushes and drains touch a pile.
LEMMA PileStep ==
  ASSUME Control, [Next]_vars
  PROVE  \/ UNCHANGED pile
         \/ \E t \in Threads : DrainPile(t)
         \/ \E t \in Threads, p \in Piles : Popped(t, p) \/ Pushed(t, p)
<1>1. Reserve \in Piles /\ \A t \in Threads : Shard(t) \in Piles
  BY ShardIsPile, ShardsAssumption DEF Control, Reserve, Piles
<1>2. ASSUME NEW t \in Threads, PopShard(t)
      PROVE  UNCHANGED pile \/ \E p \in Piles : Popped(t, p)
  BY <1>1, <1>2 DEF PopShard, Pop, Popped
<1>3. ASSUME NEW t \in Threads, PopReserve(t)
      PROVE  UNCHANGED pile \/ \E p \in Piles : Popped(t, p)
  BY <1>1, <1>3 DEF PopReserve, Pop, Popped
<1>4. ASSUME NEW t \in Threads, Push(t)
      PROVE  \E p \in Piles : Pushed(t, p)
  BY <1>1, <1>4 DEF Push, Pushed
<1> QED
  BY <1>2, <1>3, <1>4
  DEF Next, Step, Call, vars, Get, RunInit, InitPanics, FillInit, Reset, ResetPanics, CapAllows, Drain, DrainSettle,
      ThreadExit, Prefill, IntoInner, DropGuard, Put, SendGuard, DropLoose, WithMaxIdle, WithReset, Unpark, Unclaim

\* Nobody but its own thread moves a drain.
LEMMA DrainFrame ==
  ASSUME Control, [Next]_vars, NEW u \in Threads, Draining(u), Draining(u)'
  PROVE  DrainPile(u) \/ (pc'[u] = pc[u] /\ at'[u] = at[u] /\ haul'[u] = haul[u])
<1> DEFINE Frame == pc'[u] = pc[u] /\ at'[u] = at[u] /\ haul'[u] = haul[u]
<1> USE DEF Control, TypeInv, Draining
<1>1. ASSUME NEW t \in Threads, t # u, Step(t) PROVE Frame
  BY <1>1
  DEF Step, PopShard, PopReserve, Pop, Unpark, RunInit, InitPanics, FillInit, Reset, ResetPanics, CapAllows,
      Unclaim, Push, FinishReturn, DrainPile, DrainSettle
<1>2. ASSUME NEW t \in Threads, t # u, Call(t) PROVE Frame
  BY <1>2 DEF Call, Get, Drain, ThreadExit, Prefill, IntoInner, DropGuard, Put, SendGuard
<1>3. ASSUME Step(u) PROVE DrainPile(u)
  BY <1>3
  DEF Step, PopShard, PopReserve, Pop, Unpark, RunInit, InitPanics, FillInit, Reset, ResetPanics, CapAllows,
      Unclaim, Push, DrainSettle
<1>4. ASSUME Call(u) PROVE Frame
  BY <1>4 DEF Call, Get, Drain, ThreadExit, Prefill, IntoInner, DropGuard, Put, SendGuard
<1>5. ASSUME ~\E t \in Threads : Step(t) \/ Call(t) PROVE Frame
  BY <1>5 DEF Next, DropLoose, WithMaxIdle, WithReset, vars
<1> QED
  BY <1>1, <1>2, <1>3, <1>4, <1>5

\* A drain begins with its first pile and an empty haul.
LEMMA DrainStarts ==
  ASSUME Control, [Next]_vars, NEW u \in Threads, ~Draining(u), Draining(u)'
  PROVE  pc'[u] = "drain" /\ at'[u] = 0 /\ haul'[u] = <<>> /\ UNCHANGED pile
<1> USE DEF Control, TypeInv, HaulInv, Draining
<1>0. haul[u] = <<>>
  OBVIOUS
<1>1. ASSUME NEW t \in Threads, Step(t) PROVE FALSE
  BY <1>1
  DEF Step, PopShard, PopReserve, Pop, Unpark, RunInit, InitPanics, FillInit, Reset, ResetPanics, CapAllows,
      Unclaim, Push, FinishReturn, DrainPile, DrainSettle
<1>2. ASSUME NEW t \in Threads, Call(t) PROVE Drain(u)
  BY <1>2 DEF Call, Get, ThreadExit, Prefill, IntoInner, DropGuard, Put, SendGuard, Drain
<1>3. \E t \in Threads : Step(t) \/ Call(t)
  BY DEF Next, DropLoose, WithMaxIdle, WithReset, vars
<1> QED
  BY <1>0, <1>1, <1>2, <1>3 DEF Drain

\* Vec::pop leaves the buffers before the last where they are.
LEMMA FrontPositions ==
  ASSUME NEW B, NEW s \in Seq(B), s # <<>>
  PROVE  /\ DOMAIN s = 1 .. Len(s)
         /\ DOMAIN Front(s) = 1 .. Len(s) - 1
         /\ \A i \in DOMAIN Front(s) : Front(s)[i] = s[i]
         /\ Last(s) = s[Len(s)]
         /\ Len(s) \in Nat \ {0}
<1> DEFINE n == Len(s)
<1>1. n \in Nat \ {0} /\ DOMAIN s = 1 .. n /\ \A i \in 1 .. n : s[i] \in B
  BY EmptySeq, LenProperties
<1>2. \A i \in 1 .. n - 1 : s[i] \in B
  BY <1>1
<1>3. /\ SubSeq(s, 1, n - 1) \in Seq(B)
      /\ Len(SubSeq(s, 1, n - 1)) = IF 1 <= n - 1 THEN (n - 1) - 1 + 1 ELSE 0
      /\ \A i \in 1 .. (n - 1) - 1 + 1 : SubSeq(s, 1, n - 1)[i] = s[1 + i - 1]
  <2> HIDE DEF n
  <2> QED
    BY <1>1, <1>2, SubSeqProperties
<1>4. DOMAIN SubSeq(s, 1, n - 1) = 1 .. n - 1
  <2> HIDE DEF n
  <2> QED
    BY <1>1, <1>3, LenProperties
<1> QED
  BY <1>1, <1>3, <1>4 DEF Front, Last

\* What a drain owes stays where it is, as long as it is not this drain that
\* moves it: a pop or another drain would take it, and only what was in a hand
\* is pushed.
LEMMA OwedStay ==
  ASSUME Control, Apart, [Next]_vars, NEW u \in Threads, ~DrainPile(u), Reachable(u),
         NEW b \in Buffers, b \in owed[u], b \notin TakenFrom(u)', NEW p \in Piles
  PROVE  /\ b \in Range(pile[p]) => b \in Range(pile'[p])
         /\ \A i \in DOMAIN pile'[p] : pile'[p][i] = b => i \in DOMAIN pile[p] /\ pile[p][i] = b
<1>0. /\ pile \in [Piles -> Seq(Buffers)]
      /\ hand \in [Threads -> Buffers \cup {NoBuffer}]
      /\ haul \in [Threads -> Seq(Buffers)]
      /\ NoBuffer \notin Buffers
  BY BuffersAssumption DEF Control, TypeInv
<1>1. /\ \A t \in Threads : hand'[t] # b
      /\ \A t \in Threads \ {u} : b \notin Range(haul'[t])
  BY <1>0 DEF TakenFrom, InHand
<1>2. CASE UNCHANGED pile
  BY <1>2
<1>3. ASSUME NEW t \in Threads, DrainPile(t)
      PROVE  /\ b \in Range(pile[p]) => b \in Range(pile'[p])
             /\ \A i \in DOMAIN pile'[p] : pile'[p][i] = b => i \in DOMAIN pile[p] /\ pile[p][i] = b
  <2>1. /\ t # u /\ at[t] \in Piles
        /\ pile' = [pile EXCEPT ![at[t]] = <<>>]
        /\ haul'[t] = haul[t] \o pile[at[t]]
    BY <1>0, <1>3 DEF DrainPile, Control, TypeInv
  <2>2. CASE p = at[t]
    <3>1. Range(haul[t]) \cap Range(pile[p]) = {}
      BY <1>0, RangeOfSeq DEF Apart, OnePlace
    <3>2. Range(haul'[t]) = Range(haul[t]) \cup Range(pile[p])
      <4>1. /\ haul[t] \in Seq(Buffers) /\ IsInjective(haul[t])
            /\ pile[p] \in Seq(Buffers) /\ IsInjective(pile[p])
        BY <1>0, <2>1, <2>2 DEF Apart
      <4>2. Range(haul[t] \o pile[p]) = Range(haul[t]) \cup Range(pile[p])
        BY <3>1, <4>1, ConcatRange
      <4> QED
        BY <2>1, <2>2, <4>2
    <3>3. b \notin Range(pile[p])
      BY <1>1, <2>1, <3>2
    <3>4. pile'[p] = <<>>
      BY <1>0, <2>1, <2>2
    <3> QED
      BY <3>3, <3>4
  <2>3. CASE p # at[t]
    BY <1>0, <2>1, <2>3
  <2> QED
    BY <2>2, <2>3
<1>4. ASSUME NEW t \in Threads, NEW q \in Piles, Popped(t, q)
      PROVE  /\ b \in Range(pile[p]) => b \in Range(pile'[p])
             /\ \A i \in DOMAIN pile'[p] : pile'[p][i] = b => i \in DOMAIN pile[p] /\ pile[p][i] = b
  <2>1. CASE p = q
    <3>1. pile'[p] = Front(pile[p]) /\ pile[p] # <<>> /\ Last(pile[p]) # b
      BY <1>0, <1>1, <1>4, <2>1 DEF Popped
    <3>2. Range(Front(pile[p])) = Range(pile[p]) \ {Last(pile[p])}
      BY <1>0, <3>1, PopRange DEF Apart
    <3>3. /\ DOMAIN pile[p] = 1 .. Len(pile[p])
          /\ DOMAIN Front(pile[p]) = 1 .. Len(pile[p]) - 1
          /\ \A i \in DOMAIN Front(pile[p]) : Front(pile[p])[i] = pile[p][i]
          /\ Len(pile[p]) \in Nat \ {0}
      BY <1>0, <3>1, FrontPositions
    <3> QED
      BY <3>1, <3>2, <3>3
  <2>2. CASE p # q
    BY <1>0, <1>4, <2>2 DEF Popped
  <2> QED
    BY <2>1, <2>2
<1>5. ASSUME NEW t \in Threads, NEW q \in Piles, Pushed(t, q)
      PROVE  /\ b \in Range(pile[p]) => b \in Range(pile'[p])
             /\ \A i \in DOMAIN pile'[p] : pile'[p][i] = b => i \in DOMAIN pile[p] /\ pile[p][i] = b
  <2>1. CASE p = q
    <3>1. pile'[p] = Append(pile[p], hand[t]) /\ hand[t] \in Buffers
      BY <1>0, <1>5, <2>1 DEF Pushed, Control, HandInv, Moving
    <3>2. hand[t] # b
      BY DEF Reachable, Apart, OnePlace
    <3>3. /\ pile'[p] \in Seq(Buffers)
          /\ Len(pile'[p]) = Len(pile[p]) + 1
          /\ \A i \in 1 .. Len(pile[p]) : pile'[p][i] = pile[p][i]
          /\ pile'[p][Len(pile[p]) + 1] = hand[t]
      BY <1>0, <3>1, AppendProperties
    <3>4. /\ DOMAIN pile[p] = 1 .. Len(pile[p])
          /\ DOMAIN pile'[p] = 1 .. Len(pile[p]) + 1
          /\ Len(pile[p]) \in Nat
      BY <1>0, <3>3, LenProperties
    <3>5. \A i \in DOMAIN pile[p] : i \in DOMAIN pile'[p] /\ pile'[p][i] = pile[p][i]
      BY <3>3, <3>4
    <3>6. \A i \in DOMAIN pile'[p] : pile'[p][i] # hand[t] => i \in DOMAIN pile[p]
      BY <3>3, <3>4
    <3> QED
      BY <3>2, <3>5, <3>6 DEF Range
  <2>2. CASE p # q
    BY <1>0, <1>5, <2>2 DEF Pushed
  <2> QED
    BY <2>1, <2>2
<1> QED
  BY <1>2, <1>3, <1>4, <1>5, PileStep

-----------------------------------------------------------------------------
(* drain.                                                                   *)

\* A drain that begins owes what is parked, in the order it is parked in.
LEMMA DrainInvBegins ==
  ASSUME Control, Apart, PoolStep, NEW u \in Threads, ~Draining(u), Draining(u)'
  PROVE  /\ ahead'[u] \subseteq owed'[u] \X owed'[u]
         /\ Reachable(u)'
         /\ InOrder(u)'
<1>0. /\ pile \in [Piles -> Seq(Buffers)]
      /\ Piles \subseteq Int
      /\ \A q \in Piles : IsInjective(pile[q])
  BY ShardsAssumption DEF Control, TypeInv, Apart, Piles
<1>1. pc'[u] = "drain" /\ at'[u] = 0 /\ haul'[u] = <<>> /\ pile' = pile
  BY DrainStarts DEF PoolStep
<1>2. /\ owed'[u] = Parked
      /\ ahead'[u] = {x \in Parked \X Parked : InFront(x[1], x[2])}
  BY DEF PoolStep, Owed, Ahead
<1>3. Reachable(u)'
  <2> SUFFICES ASSUME NEW b \in Parked
               PROVE  \E q \in Piles : NotYet(u, q)' /\ b \in Range(pile'[q])
    BY <1>2 DEF Reachable
  <2>1. PICK q \in Piles : b \in Range(pile[q])
    BY DEF Parked
  <2>2. q >= 0
    BY DEF Piles
  <2> QED
    BY <1>1, <2>1, <2>2 DEF NotYet
<1>4. InOrder(u)'
  <2> SUFFICES ASSUME NEW b \in Parked, NEW c \in Parked, InFront(b, c)
               PROVE  /\ \A p, q \in Piles : b \in Range(pile[p]) /\ c \in Range(pile[q]) => p <= q
                      /\ \A p \in Piles : \A i, j \in DOMAIN pile[p] :
                           pile[p][i] = b /\ pile[p][j] = c => i < j
    BY <1>1, <1>2, EmptyPile DEF InOrder
  <2>a. PICK p \in Piles, q \in Piles : \E i \in DOMAIN pile[p], j \in DOMAIN pile[q] :
          pile[p][i] = b /\ pile[q][j] = c /\ (p < q \/ (p = q /\ i < j))
    BY DEF InFront
  <2>1. PICK i \in DOMAIN pile[p], j \in DOMAIN pile[q] :
          pile[p][i] = b /\ pile[q][j] = c /\ (p < q \/ (p = q /\ i < j))
    BY <2>a
  <2>2. b \in Buffers /\ c \in Buffers
    BY <1>0, RangeOfSeq DEF Parked
  <2>3. \A r \in Piles : (b \in Range(pile[r]) => r = p) /\ (c \in Range(pile[r]) => r = q)
    BY <2>1, <2>2 DEF Apart, OnePlace, Range
  <2>4. ASSUME NEW r \in Piles, NEW k \in DOMAIN pile[r], NEW l \in DOMAIN pile[r],
               pile[r][k] = b, pile[r][l] = c
        PROVE  k < l
    <3>1. r = p /\ r = q
      BY <2>3, <2>4 DEF Range
    <3>2. k = i /\ l = j
      BY <1>0, <2>1, <2>4, <3>1 DEF IsInjective
    <3> QED
      BY <1>0, <2>1, <3>1, <3>2
  <2> QED
    BY <1>0, <2>1, <2>3, <2>4
<1> QED
  BY <1>2, <1>3, <1>4

\* What others do to the piles leaves a drain's debt in place and in order.
LEMMA DrainInvOthers ==
  ASSUME Control, Apart, PoolStep, NEW u \in Threads, Draining(u), Draining(u)', ~DrainPile(u),
         ahead[u] \subseteq owed[u] \X owed[u], owed[u] \subseteq Buffers, Reachable(u), InOrder(u)
  PROVE  /\ ahead'[u] \subseteq owed'[u] \X owed'[u]
         /\ Reachable(u)'
         /\ InOrder(u)'
<1>1. pc'[u] = pc[u] /\ at'[u] = at[u] /\ haul'[u] = haul[u] /\ [Next]_vars
  BY DrainFrame DEF PoolStep
<1>2. /\ owed'[u] = owed[u] \ TakenFrom(u)'
      /\ ahead'[u] \subseteq ahead[u]
      /\ ahead'[u] \subseteq owed'[u] \X owed'[u]
  BY DEF PoolStep, Owed, Ahead
<1>3. ASSUME NEW b \in owed'[u], NEW p \in Piles
      PROVE  /\ b \in Range(pile[p]) => b \in Range(pile'[p])
             /\ \A i \in DOMAIN pile'[p] : pile'[p][i] = b => i \in DOMAIN pile[p] /\ pile[p][i] = b
  BY <1>1, <1>2, OwedStay
<1>4. Reachable(u)'
  BY <1>1, <1>2, <1>3 DEF Reachable, NotYet
<1>5. InOrder(u)'
  <2> SUFFICES ASSUME NEW b \in owed'[u], NEW c \in owed'[u], <<b, c>> \in ahead'[u]
               PROVE  /\ \A p, q \in Piles : b \in Range(pile'[p]) /\ c \in Range(pile'[q]) => p <= q
                      /\ \A p \in Piles : \A i, j \in DOMAIN pile'[p] :
                           pile'[p][i] = b /\ pile'[p][j] = c => i < j
    BY <1>1, <1>2 DEF InOrder
  <2>1. \A p \in Piles : /\ b \in Range(pile'[p]) => b \in Range(pile[p])
                         /\ c \in Range(pile'[p]) => c \in Range(pile[p])
    BY <1>3 DEF Range
  <2> QED
    BY <1>2, <1>3, <2>1 DEF InOrder
<1> QED
  BY <1>2, <1>4, <1>5

\* A drain that takes a pile gathers it behind what it has.
LEMMA DrainInvTakes ==
  ASSUME Control, Apart, PoolStep, NEW u \in Threads, DrainPile(u),
         ahead[u] \subseteq owed[u] \X owed[u], owed[u] \subseteq Buffers, Reachable(u), InOrder(u)
  PROVE  /\ ahead'[u] \subseteq owed'[u] \X owed'[u]
         /\ Reachable(u)'
         /\ InOrder(u)'
<1> DEFINE h == haul[u]
           q == at[u]
           s == pile[q]
<1>0. /\ pile \in [Piles -> Seq(Buffers)]
      /\ Piles \subseteq Int
      /\ q \in Piles
      /\ h \in Seq(Buffers) /\ s \in Seq(Buffers)
      /\ IsInjective(h) /\ IsInjective(s)
      /\ Range(h) \cap Range(s) = {}
  <2>1. q \in Piles /\ h \in Seq(Buffers) /\ s \in Seq(Buffers)
    BY DEF Control, TypeInv
  <2> QED
    BY <2>1, ShardsAssumption, RangeOfSeq DEF Control, TypeInv, Apart, OnePlace, Piles
<1>1. /\ pc[u] = "drain"
      /\ haul'[u] = h \o s
      /\ pile'[q] = <<>>
      /\ \A p \in Piles \ {q} : pile'[p] = pile[p]
      /\ \A p \in Piles : NotYet(u, p)' <=> NotYet(u, p) /\ p # q
  <2>1. /\ pc[u] = "drain"
        /\ haul'[u] = h \o s
        /\ pile' = [pile EXCEPT ![q] = <<>>]
        /\ at'[u] = (IF q = Reserve THEN 0 ELSE q + 1)
        /\ pc'[u] = (IF q = Reserve THEN "settle" ELSE "drain")
    BY DEF DrainPile, Control, TypeInv
  <2>2. \A p \in Piles : p <= Reserve
    BY ShardsAssumption DEF Piles, Reserve
  <2>3. ASSUME NEW p \in Piles PROVE NotYet(u, p)' <=> NotYet(u, p) /\ p # q
    <3>0. p \in Int /\ q \in Int /\ p <= Reserve
      BY <1>0, <2>2
    <3> HIDE DEF q
    <3>1. CASE q = Reserve
      <4>1. ~NotYet(u, p)'
        BY <2>1, <3>1 DEF NotYet
      <4>2. NotYet(u, p) => p = q
        BY <3>0, <3>1 DEF NotYet, q
      <4> QED
        BY <4>1, <4>2
    <3>2. CASE q # Reserve
      <4>1. NotYet(u, p)' <=> p >= q + 1
        BY <2>1, <3>2 DEF NotYet
      <4>2. NotYet(u, p) <=> p >= q
        BY <2>1 DEF NotYet, q
      <4> QED
        BY <3>0, <4>1, <4>2
    <3> QED
      BY <3>1, <3>2
  <2> QED
    BY <1>0, <2>1, <2>3
<1>2. /\ owed'[u] = owed[u] \ TakenFrom(u)'
      /\ ahead'[u] \subseteq ahead[u]
      /\ ahead'[u] \subseteq owed'[u] \X owed'[u]
  <2>1. Draining(u) /\ Draining(u)'
    BY DEF DrainPile, Draining, Control, TypeInv
  <2> QED
    BY <2>1 DEF PoolStep, Owed, Ahead
<1> DEFINE n == Len(h)
           m == Len(s)
           c == h \o s
<1>3. /\ n \in Nat /\ m \in Nat
      /\ DOMAIN h = 1 .. n /\ DOMAIN s = 1 .. m /\ DOMAIN c = 1 .. n + m
      /\ \A i \in 1 .. n : c[i] = h[i]
      /\ \A i \in 1 .. n + m : i > n => i - n \in 1 .. m /\ c[i] = s[i - n]
      /\ Range(c) = Range(h) \cup Range(s)
  <2>1. n \in Nat /\ m \in Nat /\ DOMAIN h = 1 .. n /\ DOMAIN s = 1 .. m
    BY <1>0, LenProperties
  <2>2. /\ c \in Seq(Buffers)
        /\ Len(c) = n + m
        /\ \A i \in 1 .. n + m : c[i] = IF i <= n THEN h[i] ELSE s[i - n]
    <3>1. h \in Seq(Buffers) /\ s \in Seq(Buffers)
      BY <1>0
    <3> HIDE DEF h, s
    <3> QED
      BY <3>1, ConcatProperties
  <2>3. DOMAIN c = 1 .. n + m
    BY <2>2, LenProperties
  <2>4. Range(c) = Range(h) \cup Range(s)
    BY <1>0, ConcatRange
  <2> HIDE DEF n, m, c, h, s
  <2> QED
    BY <2>1, <2>2, <2>3, <2>4
<1> HIDE DEF n, m, c
<1>4. Range(haul'[u]) = Range(h) \cup Range(s)
  BY <1>1, <1>3 DEF c
<1>5. Reachable(u)'
  <2> SUFFICES ASSUME NEW b \in owed[u], b \notin Range(h) \cup Range(s)
               PROVE  \E p \in Piles : NotYet(u, p)' /\ b \in Range(pile'[p])
    BY <1>2, <1>4 DEF Reachable
  <2>1. PICK p \in Piles : NotYet(u, p) /\ b \in Range(pile[p])
    BY DEF Reachable
  <2>2. p # q
    BY <2>1
  <2> QED
    BY <1>1, <2>1, <2>2
<1>6. ASSUME NEW x \in owed[u], NEW y \in owed[u], <<x, y>> \in ahead[u]
      PROVE  /\ y \in Range(haul'[u]) => x \in Range(haul'[u])
             /\ \A i, j \in DOMAIN c : c[i] = x /\ c[j] = y => i < j
  <2>1. ~(y \in Range(h) /\ x \in Range(s))
    BY <1>0, <1>6 DEF InOrder
  <2>2. y \in Range(s) => x \in Range(h) \cup Range(s)
    <3> SUFFICES ASSUME y \in Range(s), x \notin Range(h) PROVE x \in Range(s)
      OBVIOUS
    <3>1. PICK p \in Piles : NotYet(u, p) /\ x \in Range(pile[p])
      BY DEF Reachable
    <3>2. p <= q
      BY <1>0, <1>6, <3>1 DEF InOrder
    <3>3. p = q
      BY <1>0, <3>1, <3>2 DEF NotYet
    <3> QED
      BY <3>1, <3>3
  <2>3. y \in Range(h) => x \in Range(h)
    BY <1>6 DEF InOrder
  <2>4. ASSUME NEW i \in DOMAIN c, NEW j \in DOMAIN c, c[i] = x, c[j] = y
        PROVE  i < j
    <3>1. CASE i <= n /\ j <= n
      <4>1. i \in DOMAIN h /\ j \in DOMAIN h /\ h[i] = x /\ h[j] = y
        BY <1>3, <2>4, <3>1
      <4> QED
        BY <1>6, <4>1 DEF InOrder
    <3>2. CASE i > n /\ j > n
      <4>1. i - n \in DOMAIN s /\ j - n \in DOMAIN s /\ s[i - n] = x /\ s[j - n] = y
        BY <1>3, <2>4, <3>2
      <4>2. i - n < j - n
        BY <1>0, <1>6, <4>1 DEF InOrder
      <4> QED
        BY <1>3, <4>2
    <3>3. CASE i > n /\ j <= n
      <4>1. i - n \in DOMAIN s /\ s[i - n] = x /\ j \in DOMAIN h /\ h[j] = y
        BY <1>3, <2>4, <3>3
      <4> QED
        BY <2>1, <4>1 DEF Range
    <3>4. CASE i <= n /\ j > n
      BY <1>3, <3>4
    <3> QED
      BY <1>3, <3>1, <3>2, <3>3, <3>4
  <2> QED
    BY <1>4, <2>2, <2>3, <2>4
<1>7. InOrder(u)'
  <2> SUFFICES ASSUME NEW x \in owed[u], NEW y \in owed[u], <<x, y>> \in ahead[u]
               PROVE  /\ y \in Range(haul'[u]) => x \in Range(haul'[u])
                      /\ \A i, j \in DOMAIN haul'[u] : haul'[u][i] = x /\ haul'[u][j] = y => i < j
                      /\ \A p, r \in Piles : x \in Range(pile'[p]) /\ y \in Range(pile'[r]) => p <= r
                      /\ \A p \in Piles : \A i, j \in DOMAIN pile'[p] :
                           pile'[p][i] = x /\ pile'[p][j] = y => i < j
    BY <1>2 DEF InOrder
  <2>1. haul'[u] = c
    BY <1>1 DEF c
  <2>2. \A p \in Piles : pile'[p] = pile[p] \/ (DOMAIN pile'[p] = {} /\ Range(pile'[p]) = {})
    BY <1>1, EmptyPile
  <2>3. /\ \A p, r \in Piles : x \in Range(pile'[p]) /\ y \in Range(pile'[r]) => p <= r
        /\ \A p \in Piles : \A i, j \in DOMAIN pile'[p] :
             pile'[p][i] = x /\ pile'[p][j] = y => i < j
    BY <2>2 DEF InOrder
  <2> QED
    BY <1>6, <2>1, <2>3
<1> QED
  BY <1>2, <1>5, <1>7

\* Every step of the sweeps' world keeps what the drains owe within reach.
LEMMA DrainInvStep ==
  ASSUME Control, Apart, SweepTypes, DrainInv, [SweepNext]_<<vars, sweepVars>>
  PROVE  DrainInv'
<1>1. CASE PoolStep
  <2> SUFFICES ASSUME NEW u \in Threads, Draining(u)'
               PROVE  /\ ahead'[u] \subseteq owed'[u] \X owed'[u]
                      /\ Reachable(u)'
                      /\ InOrder(u)'
    BY DEF DrainInv
  <2>1. CASE ~Draining(u)
    BY <1>1, <2>1, DrainInvBegins
  <2>2. CASE Draining(u)
    <3>1. /\ ahead[u] \subseteq owed[u] \X owed[u]
          /\ owed[u] \subseteq Buffers
          /\ Reachable(u)
          /\ InOrder(u)
      BY <2>2 DEF DrainInv, SweepTypes
    <3> QED
      BY <1>1, <2>2, <3>1, DrainInvTakes, DrainInvOthers
  <2> QED
    BY <2>1, <2>2
<1>2. CASE UNCHANGED <<vars, owed, ahead>>
  BY <1>2 DEF DrainInv, Draining, Reachable, InOrder, NotYet, vars
<1> QED
  BY <1>1, <1>2 DEF SweepNext, IdleLen, CountPile, sweepVars

-----------------------------------------------------------------------------
(* idle_len.                                                                *)

\* The parked buffers, and those idle_len has seen, are finitely many.
LEMMA ParkedFinite ==
  ASSUME Control
  PROVE  Seen \subseteq Parked /\ Parked \subseteq Buffers /\ IsFiniteSet(Parked)
<1>1. Parked \subseteq Buffers
  BY RangeOfSeq DEF Control, TypeInv, Parked
<1> QED
  BY <1>1, BuffersAssumption, FS_Subset DEF Seen, Parked

\* A buffer parked before and after a step is in the same pile.
LEMMA ParkedAtHome ==
  ASSUME Control, Apart, [Next]_vars, NEW b \in Parked, NEW p \in Piles, b \in Range(pile'[p])
  PROVE  b \in Range(pile[p])
<1>0. pile \in [Piles -> Seq(Buffers)] /\ b \in Buffers
  BY ParkedFinite DEF Control, TypeInv
<1>1. ASSUME NEW t \in Threads, DrainPile(t) PROVE b \in Range(pile[p])
  BY <1>0, <1>1, EmptyPile DEF DrainPile
<1>2. ASSUME NEW t \in Threads, NEW q \in Piles, Popped(t, q) PROVE b \in Range(pile[p])
  <2>1. Range(Front(pile[q])) \subseteq Range(pile[q])
    BY <1>0, <1>2, PopRange DEF Popped, Apart
  <2> QED
    BY <1>0, <1>2, <2>1 DEF Popped
<1>3. ASSUME NEW t \in Threads, NEW q \in Piles, Pushed(t, q) PROVE b \in Range(pile[p])
  <2>1. hand[t] \in Buffers /\ \A r \in Piles : hand[t] \notin Range(pile[r])
    BY <1>3 DEF Pushed, Control, TypeInv, HandInv, Moving, Apart, OnePlace
  <2>2. Range(Append(pile[q], hand[t])) = Range(pile[q]) \cup {hand[t]}
    BY <1>0, <2>1, PushRange DEF Apart
  <2>3. b # hand[t]
    BY <2>1 DEF Parked
  <2> QED
    BY <1>0, <1>3, <2>2, <2>3 DEF Pushed
<1> QED
  BY <1>1, <1>2, <1>3, PileStep

\* A round of idle_len sees one more pile.
LEMMA SeenGrows ==
  ASSUME Control, SweepTypes, CountPile
  PROVE  next \in Piles /\ Seen' = Seen \cup Range(pile[next])
<1>1. /\ next \in Piles /\ next' = next + 1 /\ pile' = pile
      /\ Piles \subseteq Int
  BY ShardsAssumption DEF CountPile, SweepTypes, Finished, Piles, vars
<1>2. \A q \in Piles : q < next' <=> q < next \/ q = next
  BY <1>1
<1> QED
  BY <1>1, <1>2 DEF Seen

\* Every step keeps the count between what stayed and what was there.
LEMMA CountInvStep ==
  ASSUME Control, Apart, SweepTypes, CountInv, [SweepNext]_<<vars, sweepVars>>
  PROVE  CountInv'
<1>0. /\ IsFiniteSet(Seen) /\ Cardinality(Seen) \in Nat
      /\ IsFiniteSet(stayed \cap Seen) /\ Cardinality(stayed \cap Seen) \in Nat
      /\ sum \in Nat
  BY ParkedFinite, FS_Subset, FS_CardinalityType DEF SweepTypes
<1>1. CASE PoolStep
  <2>1. (stayed \cap Seen)' \subseteq stayed \cap Seen
    BY <1>1, ParkedAtHome DEF PoolStep, Seen, SweepTypes
  <2>2. /\ Cardinality((stayed \cap Seen)') \in Nat
        /\ Cardinality((stayed \cap Seen)') <= Cardinality(stayed \cap Seen)
    BY <1>0, <2>1, FS_Subset, FS_CardinalityType
  <2>3. sum' = sum /\ (steady' => steady /\ Seen' = Seen)
    BY <1>1 DEF PoolStep, Seen
  <2> QED
    BY <1>0, <2>2, <2>3 DEF CountInv
<1>2. CASE IdleLen
  <2>1. Seen' = {} /\ (stayed \cap Seen)' = {} /\ sum' = 0
    BY <1>2 DEF IdleLen, Seen, Piles
  <2> QED
    BY <2>1, FS_EmptySet DEF CountInv
<1>3. CASE CountPile
  <2> DEFINE R == Range(pile[next])
  <2>1. /\ Seen' = Seen \cup R /\ stayed' = stayed /\ sum' = sum + Len(pile[next])
        /\ steady' = steady /\ next \in Piles
    BY <1>3, SeenGrows DEF CountPile
  <2>2. pile[next] \in Seq(Buffers) /\ IsInjective(pile[next])
    BY <2>1 DEF Control, TypeInv, Apart
  <2>3. IsFiniteSet(R) /\ Cardinality(R) = Len(pile[next]) /\ Len(pile[next]) \in Nat
    BY <2>2, InjectiveLen
  <2>4. Seen \cap R = {}
    <3>1. ASSUME NEW b \in R, NEW q \in Piles, q < next PROVE b \notin Range(pile[q])
      <4>1. b \in Buffers /\ q # next
        BY <2>1, <2>2, <3>1, RangeOfSeq, ShardsAssumption DEF Piles
      <4> QED
        BY <2>1, <4>1 DEF Apart, OnePlace
    <3> QED
      BY <3>1 DEF Seen
  <2>5. Cardinality(Seen \cup R) = Cardinality(Seen) + Cardinality(R)
    <3> HIDE DEF R
    <3>1. Cardinality(Seen \cup R) = Cardinality(Seen) + Cardinality(R) - Cardinality(Seen \cap R)
      BY <1>0, <2>3, FS_Union
    <3>2. Cardinality(Seen \cap R) = 0
      BY <2>4, FS_EmptySet
    <3> QED
      BY <1>0, <2>3, <3>1, <3>2
  <2>6. /\ IsFiniteSet(stayed \cap R) /\ Cardinality(stayed \cap R) \in Nat
        /\ Cardinality(stayed \cap R) <= Cardinality(R)
    BY <2>3, FS_Subset, FS_CardinalityType
  <2>7. Cardinality((stayed \cap Seen) \cup (stayed \cap R))
          = Cardinality(stayed \cap Seen) + Cardinality(stayed \cap R)
    <3> DEFINE A == stayed \cap Seen
               B == stayed \cap R
    <3>1. A \cap B = {}
      BY <2>4
    <3>2. IsFiniteSet(A) /\ IsFiniteSet(B) /\ Cardinality(A) \in Nat /\ Cardinality(B) \in Nat
      BY <1>0, <2>6
    <3> HIDE DEF A, B
    <3>3. Cardinality(A \cup B) = Cardinality(A) + Cardinality(B) - Cardinality(A \cap B)
      BY <3>2, FS_Union
    <3>4. Cardinality(A \cap B) = 0
      BY <3>1, FS_EmptySet
    <3>5. Cardinality(A \cup B) = Cardinality(A) + Cardinality(B)
      BY <3>2, <3>3, <3>4
    <3> QED
      BY <3>5 DEF A, B
  <2>8. (stayed \cap Seen)' = (stayed \cap Seen) \cup (stayed \cap R)
    BY <2>1
  <2> HIDE DEF R
  <2>9. Cardinality((stayed \cap Seen)') <= sum'
    <3>1. Cardinality((stayed \cap Seen)')
            = Cardinality(stayed \cap Seen) + Cardinality(stayed \cap R)
      BY <2>7, <2>8
    <3>2. Cardinality(stayed \cap Seen) <= sum
      BY DEF CountInv
    <3> QED
      BY <1>0, <2>1, <2>3, <2>6, <3>1, <3>2
  <2>10. steady' => sum' = Cardinality(Seen')
    BY <1>0, <2>1, <2>3, <2>5 DEF CountInv
  <2> QED
    BY <2>9, <2>10 DEF CountInv
<1>4. CASE UNCHANGED <<vars, sweepVars>>
  BY <1>4 DEF CountInv, Seen, vars, sweepVars
<1> QED
  BY <1>1, <1>2, <1>3, <1>4 DEF SweepNext

-----------------------------------------------------------------------------
(* The theorems.                                                            *)

\* Every step keeps the types of the sweeps' variables.
LEMMA SweepTypesStep ==
  ASSUME Control, SweepTypes, [SweepNext]_<<vars, sweepVars>>
  PROVE  SweepTypes'
<1>0. Parked \subseteq Buffers
  BY ParkedFinite
<1>1. CASE PoolStep
  <2>1. \A t \in Threads : Owed(t) \subseteq Buffers
    BY <1>0 DEF Owed, SweepTypes
  <2>2. \A t \in Threads : Ahead(t) \subseteq Buffers \X Buffers
    BY <2>1 DEF Ahead
  <2>3. owed' = [t \in Threads |-> Owed(t)] /\ ahead' = [t \in Threads |-> Ahead(t)]
    BY <1>1 DEF PoolStep
  <2>4. owed' \in [Threads -> SUBSET Buffers] /\ ahead' \in [Threads -> SUBSET (Buffers \X Buffers)]
    BY <2>1, <2>2, <2>3
  <2> QED
    BY <1>1, <2>4 DEF PoolStep, SweepTypes
<1>2. CASE IdleLen
  <2>1. 0 \in 0 .. Finished
    BY ShardsAssumption DEF Finished
  <2> QED
    BY <1>2, <2>1 DEF IdleLen, SweepTypes, vars, Parked
<1>3. CASE CountPile
  <2>1. next' \in 0 .. Finished
    BY <1>3, ShardsAssumption DEF CountPile, SweepTypes, Finished
  <2>2. Len(pile[next]) \in Nat
    BY <1>3, SeenGrows, LenProperties DEF Control, TypeInv
  <2> QED
    BY <1>3, <2>1, <2>2 DEF CountPile, SweepTypes, vars, Parked
<1>4. CASE UNCHANGED <<vars, sweepVars>>
  BY <1>4 DEF SweepTypes, vars, sweepVars, Parked
<1> QED
  BY <1>1, <1>2, <1>3, <1>4 DEF SweepNext

\* The sweeps only watch: what they watch is a behaviour of the pool.
LEMMA SweepsWatch == SweepSpec => Spec
<1>1. SweepInit => Init
  BY DEF SweepInit
<1>2. [SweepNext]_<<vars, sweepVars>> => [Next]_vars
  BY DEF SweepNext, PoolStep, IdleLen, CountPile
<1> QED
  BY <1>1, <1>2, PTL DEF SweepSpec, Spec

\* The inductive invariant, beside that of the pool.
SweepInv == SweepTypes /\ DrainInv /\ CountInv

\* It holds in every state of every behaviour, and so does the pool's.
LEMMA SweepInductive == SweepSpec => [](IInv /\ SweepInv)
<1>1. SweepInit => SweepInv
  <2> SUFFICES ASSUME SweepInit PROVE SweepInv
    OBVIOUS
  <2>1. SweepTypes
    <3>1. Finished \in 0 .. Finished
      BY ShardsAssumption DEF Finished
    <3> QED
      BY <3>1 DEF SweepInit, SweepTypes
  <2>2. DrainInv
    BY DEF SweepInit, Init, DrainInv, Draining
  <2>3. stayed \cap Seen = {} /\ sum = 0 /\ ~steady
    BY DEF SweepInit
  <2> QED
    BY <2>1, <2>2, <2>3, FS_EmptySet DEF SweepInv, CountInv
<1>2. IInv /\ SweepInv /\ [SweepNext]_<<vars, sweepVars>> => SweepInv'
  BY SweepTypesStep, DrainInvStep, CountInvStep DEF IInv, SweepInv
<1> QED
  BY <1>1, <1>2, SweepsWatch, Inductive, PTL DEF SweepSpec

\* A drain returns all it owes, in pile order and parking order, whatever other
\* threads pop, push and drain meanwhile (buffer.rs, drain).
THEOREM DrainsComplete == SweepSpec => []DrainComplete
<1>1. IInv /\ SweepInv => DrainComplete
  <2> SUFFICES ASSUME IInv, SweepInv, NEW t \in Threads, pc[t] = "settle"
               PROVE  /\ owed[t] \subseteq Range(haul[t])
                      /\ \A i, j \in DOMAIN haul[t] :
                           <<haul[t][i], haul[t][j]>> \in ahead[t] => i < j
    BY DEF DrainComplete
  <2>1. ahead[t] \subseteq owed[t] \X owed[t] /\ Reachable(t) /\ InOrder(t)
    BY DEF SweepInv, DrainInv, Draining
  <2>2. owed[t] \subseteq Range(haul[t])
    BY <2>1 DEF Reachable, NotYet
  <2>3. ASSUME NEW i \in DOMAIN haul[t], NEW j \in DOMAIN haul[t],
               <<haul[t][i], haul[t][j]>> \in ahead[t]
        PROVE  i < j
    <3>1. haul[t][i] \in owed[t] /\ haul[t][j] \in owed[t]
      BY <2>1, <2>3
    <3> QED
      BY <2>1, <2>3, <3>1 DEF InOrder
  <2> QED
    BY <2>2, <2>3
<1> QED
  BY <1>1, SweepInductive, PTL

\* idle_len never misses a buffer that stayed, and is exact when no pile changed
\* (buffer.rs, idle_len and count_idle).
THEOREM IdleLenIsSound == SweepSpec => []IdleLenSound
<1>1. IInv /\ SweepInv => IdleLenSound
  <2> SUFFICES ASSUME IInv, SweepInv, next = Finished PROVE Seen = Parked /\ stayed \cap Seen = stayed
    BY ParkedFinite, FS_Subset, FS_CardinalityType
    DEF IInv, SweepInv, SweepTypes, CountInv, IdleLenSound
  <2>1. \A p \in Piles : p < next
    BY ShardsAssumption DEF Piles, Finished
  <2> QED
    BY <2>1 DEF Seen, Parked, SweepInv, SweepTypes
<1> QED
  BY <1>1, SweepInductive, PTL

=============================================================================

---------------------------- MODULE PoolJobsProofs ----------------------------
(****************************************************************************)
(* What the counters of PoolStatistics and the parallel programs of         *)
(* PoolJobs rely on, for any number of threads, buffers, shards and items.  *)
(****************************************************************************)
EXTENDS PoolJobs, BufferPoolCapProofs

-----------------------------------------------------------------------------
(* The counters.                                                            *)

\* The steps of a lease from its count to its guard.
LeaseSteps == {"pop_shard", "pop_reserve", "unpark", "init"}

\* How a call proceeds, whatever it is.
Proceeds(t) ==
  \/ pc'[t] = pc[t]
  \/ pc[t] = "ready" /\ pc'[t] \in {"pop_shard", "reset", "fill", "drain"}
  \/ pc[t] = "pop_shard" /\ pc'[t] \in {"pop_reserve", "unpark"}
  \/ pc[t] = "pop_reserve" /\ pc'[t] \in {"init", "unpark"}
  \/ pc[t] \in {"unpark", "init"} /\ pc'[t] = "ready"
  \/ pc[t] = "fill" /\ pc'[t] \in {"ready", "reset"}
  \/ pc[t] = "reset" /\ pc'[t] \in {"ready", "cap_allows"}
  \/ pc[t] = "cap_allows" /\ pc'[t] \in {"push", "unclaim"}
  \/ pc[t] \in {"push", "unclaim"} /\ pc'[t] \in {"ready", "fill"}
  \/ pc[t] = "drain" /\ pc'[t] = "settle"
  \/ pc[t] = "settle" /\ pc'[t] = "ready"

\* Every step of the pool moves a call along its path, or leaves it alone.
LEMMA CallsProceed ==
  ASSUME Control, [Next]_vars, NEW w \in Threads
  PROVE  Proceeds(w)
<1>0. pc \in [Threads -> PC]
  BY DEF Control, TypeInv
<1> USE DEF Proceeds
<1>1. ASSUME NEW t \in Threads, Step(t)
      PROVE  Proceeds(w)
  <2>1. PopShard(t) => Proceeds(w)
    BY <1>0 DEF PopShard, Pop
  <2>2. PopReserve(t) => Proceeds(w)
    BY <1>0 DEF PopReserve, Pop
  <2>3. Unpark(t) \/ RunInit(t) \/ InitPanics(t) \/ FillInit(t) => Proceeds(w)
    BY <1>0 DEF Unpark, RunInit, InitPanics, FillInit
  <2>4. Reset(t) \/ ResetPanics(t) \/ CapAllows(t) => Proceeds(w)
    BY <1>0 DEF Reset, ResetPanics, CapAllows
  <2>5. Unclaim(t) \/ Push(t) => Proceeds(w)
    BY <1>0 DEF Unclaim, Push, FinishReturn
  <2>6. DrainPile(t) \/ DrainSettle(t) => Proceeds(w)
    BY <1>0 DEF DrainPile, DrainSettle
  <2> QED
    BY <1>1, <2>1, <2>2, <2>3, <2>4, <2>5, <2>6 DEF Step
<1>2. ASSUME NEW t \in Threads, Call(t)
      PROVE  Proceeds(w)
  BY <1>0, <1>2
  DEF Call, Get, Drain, ThreadExit, Prefill, IntoInner, DropGuard, Put, SendGuard
<1> QED
  BY <1>1, <1>2 DEF Next, vars, DropLoose, WithMaxIdle, WithReset

\* A call moves by its own steps only.
LEMMA OwnSteps ==
  ASSUME Control, [Next]_vars, NEW w \in Threads, pc'[w] # pc[w]
  PROVE  Step(w) \/ Call(w)
<1>0. pc \in [Threads -> PC]
  BY DEF Control, TypeInv
<1>1. ASSUME NEW t \in Threads, Step(t)
      PROVE  t = w
  <2>1. \A u \in Threads \ {t} : pc'[u] = pc[u]
    BY <1>0, <1>1
    DEF Step, PopShard, PopReserve, Pop, Unpark, RunInit, InitPanics, FillInit, Reset, ResetPanics,
        CapAllows, Unclaim, Push, FinishReturn, DrainPile, DrainSettle
  <2> QED
    BY <2>1
<1>2. ASSUME NEW t \in Threads, Call(t)
      PROVE  t = w
  BY <1>0, <1>2
  DEF Call, Get, Drain, ThreadExit, Prefill, IntoInner, DropGuard, Put, SendGuard
<1> QED
  BY <1>1, <1>2 DEF Next, vars, DropLoose, WithMaxIdle, WithReset

\* The counters as natural numbers.
CountersType ==
  /\ leases \in Nat
  /\ allocations \in Nat
  /\ recycled \in Nat
  /\ filled \in Nat

\* The leases under way.
LeaseThreads == {t \in Threads : pc[t] \in LeaseSteps}

\* A lease is in flight from its count to the guard, or to the unwinding of the
\* initializer.
LEMMA LeaseCountStep ==
  ASSUME Control, [Next]_vars, CountersType, LeasesAccounted,
         Count \/ (UNCHANGED <<counters, history>>
                     /\ \A t \in Threads : pc'[t] \in LeaseSteps \/ pc[t] \in LeaseSteps
                          => pc'[t] = pc[t])
  PROVE  CountersType' /\ LeasesAccounted'
<1> DEFINE L == LeaseThreads
           A == {t \in Threads : pc[t] = "init" /\ pc'[t] # "init"}
           F == {t \in Threads : pc[t] = "fill" /\ pc'[t] # "fill"}
           R == {t \in Threads : pc[t] = "unpark" /\ pc'[t] # "unpark"}
           S == LeaseStarts
           M == LeaseThreads'
<1>0. \A t \in Threads : Proceeds(t)
  BY CallsProceed
<1>1. LeasesAccounted <=> leases = recycled + (allocations - filled) + Cardinality(L)
  BY DEF LeasesAccounted, LeaseThreads, LeaseSteps
<1>2. LeasesAccounted' <=> leases' = recycled' + (allocations' - filled') + Cardinality(M)
  BY DEF LeasesAccounted, LeaseThreads, LeaseSteps
<1>3. CASE UNCHANGED <<counters, history>>
             /\ \A t \in Threads : pc'[t] \in LeaseSteps \/ pc[t] \in LeaseSteps => pc'[t] = pc[t]
  <2>1. L = M
    BY <1>3 DEF LeaseThreads
  <2>2. UNCHANGED <<leases, allocations, recycled, filled>>
    BY <1>3 DEF counters, history
  <2> QED
    BY <1>1, <1>2, <2>1, <2>2 DEF CountersType
<1>4. CASE Count
  <2>1. InitRuns = A \cup F /\ A \cap F = {}
    BY DEF InitRuns
  <2>2. M = ((L \ A) \ R) \cup S
    BY <1>0 DEF LeaseThreads, LeaseSteps, LeaseStarts, Proceeds
  <2>3. /\ A \subseteq L /\ R \subseteq L \ A /\ S \cap L = {}
        /\ S \subseteq Threads /\ L \subseteq Threads /\ F \subseteq Threads
    BY DEF LeaseThreads, LeaseSteps, LeaseStarts
  <2>4. /\ leases' = leases + Cardinality(S)
        /\ allocations' = allocations + Cardinality(InitRuns)
        /\ recycled' = recycled + Cardinality(R)
        /\ filled' = filled + Cardinality(F)
    BY <1>4 DEF Count
  <2> HIDE DEF L, A, F, R, S, M
  <2>5. /\ IsFiniteSet(L) /\ IsFiniteSet(F) /\ IsFiniteSet(S)
        /\ IsFiniteSet(A) /\ IsFiniteSet(R) /\ IsFiniteSet(L \ A)
    <3>1. IsFiniteSet(L) /\ IsFiniteSet(F) /\ IsFiniteSet(S)
      BY <2>3, BuffersAssumption, FS_Subset
    <3>2. IsFiniteSet(A) /\ IsFiniteSet(L \ A)
      BY <2>3, <3>1, FS_Subset
    <3> QED
      BY <2>3, <3>1, <3>2, FS_Subset
  <2>6. Cardinality(InitRuns) = Cardinality(A) + Cardinality(F)
    <3>1. Cardinality(A \cup F) = Cardinality(A) + Cardinality(F) - Cardinality(A \cap F)
      BY <2>5, FS_Union
    <3>2. Cardinality(A \cap F) = 0
      BY <2>1, FS_EmptySet
    <3> QED
      BY <2>1, <2>5, <3>1, <3>2, FS_CardinalityType
  <2>7. Cardinality(L \ A) = Cardinality(L) - Cardinality(A)
    <3>1. L \cap A = A
      BY <2>3
    <3> QED
      BY <2>5, <3>1, FS_Difference
  <2>8. /\ IsFiniteSet((L \ A) \ R)
        /\ Cardinality((L \ A) \ R) = Cardinality(L \ A) - Cardinality(R)
    <3> DEFINE D == L \ A
    <3>1. IsFiniteSet(D) /\ D \cap R = R
      BY <2>3, <2>5
    <3> HIDE DEF D
    <3>2. IsFiniteSet(D \ R) /\ Cardinality(D \ R) = Cardinality(D) - Cardinality(R)
      BY <3>1, FS_Difference
    <3> QED
      BY <3>2 DEF D
  <2>9. Cardinality(M) = Cardinality((L \ A) \ R) + Cardinality(S)
    <3>1. ((L \ A) \ R) \cap S = {}
      BY <2>3
    <3>2. Cardinality(((L \ A) \ R) \cup S)
            = Cardinality((L \ A) \ R) + Cardinality(S) - Cardinality(((L \ A) \ R) \cap S)
      BY <2>5, <2>8, FS_Union
    <3>3. Cardinality((L \ A) \ R) \in Nat /\ Cardinality(S) \in Nat
      BY <2>5, <2>8, FS_CardinalityType
    <3>4. Cardinality(((L \ A) \ R) \cap S) = 0
      BY <3>1, FS_EmptySet
    <3>5. Cardinality(M) = Cardinality(((L \ A) \ R) \cup S)
      BY <2>2
    <3> QED
      BY <3>2, <3>3, <3>4, <3>5
  <2>10. /\ Cardinality(L) \in Nat /\ Cardinality(A) \in Nat /\ Cardinality(R) \in Nat
         /\ Cardinality(F) \in Nat /\ Cardinality(S) \in Nat
    BY <2>5, FS_CardinalityType
  <2>11. CountersType'
    BY <2>4, <2>6, <2>10 DEF CountersType
  <2>12. leases' = recycled' + (allocations' - filled') + Cardinality(M)
    BY <1>1, <2>4, <2>6, <2>7, <2>8, <2>9, <2>10 DEF CountersType
  <2> QED
    BY <1>2, <2>11, <2>12 DEF M
<1> QED
  BY <1>3, <1>4

-----------------------------------------------------------------------------
(* The buffers that exist.                                                  *)

\* What it takes for a buffer to be alive, without the sets.
IsLive(b) ==
  \/ \E p \in Piles : b \in Range(pile[p])
  \/ \E t \in Threads : b = hand[t] \/ b \in guards[t] \/ b \in Range(haul[t])
  \/ b \in loose

\* What exists, buffer by buffer.
LEMMA LiveIs ==
  /\ \A b \in Buffers : b \in Live <=> IsLive(b)
  /\ \A b \in Buffers : b \in Live' <=> IsLive(b)'
  BY BuffersAssumption DEF Live, Parked, InHand, Guarded, Hauled, IsLive

\* The buffers that exist are finitely many.
LEMMA LiveFinite ==
  ASSUME Control
  PROVE  Live \subseteq Buffers /\ IsFiniteSet(Live)
<1>1. Live \subseteq Buffers
  <2>1. Parked \subseteq Buffers /\ Hauled \subseteq Buffers
    BY RangeOfSeq DEF Control, TypeInv, Parked, Hauled
  <2>2. InHand \subseteq Buffers /\ Guarded \subseteq Buffers /\ loose \subseteq Buffers
    BY DEF Control, TypeInv, InHand, Guarded
  <2> QED
    BY <2>1, <2>2 DEF Live
<1> QED
  BY <1>1, BuffersAssumption, FS_Subset

\* Only buffers exist.
LEMMA LiveTyped ==
  ASSUME Control'
  PROVE  Live' \subseteq Buffers
<1>1. Parked' \subseteq Buffers /\ Hauled' \subseteq Buffers
  BY RangeOfSeq DEF Control, TypeInv, Parked, Hauled
<1>2. InHand' \subseteq Buffers /\ Guarded' \subseteq Buffers /\ loose' \subseteq Buffers
  BY DEF Control, TypeInv, InHand, Guarded
<1> QED
  BY <1>1, <1>2 DEF Live

\* A pop, a push and a taken pile make no buffer.
LEMMA PilesMakeNone ==
  ASSUME Control, Apart, NEW t \in Threads, PopShard(t) \/ PopReserve(t) \/ Push(t) \/ DrainPile(t),
         NEW b \in Buffers, IsLive(b)'
  PROVE  IsLive(b)
<1>0. /\ pile \in [Piles -> Seq(Buffers)] /\ haul \in [Threads -> Seq(Buffers)]
      /\ hand \in [Threads -> Buffers \cup {NoBuffer}]
      /\ at[t] \in Piles /\ Reserve \in Piles /\ Shard(t) \in Piles
  <2>1. Reserve \in Piles
    BY ShardsAssumption DEF Reserve, Piles
  <2>2. Shard(t) \in Piles
    BY ShardIsPile DEF Control
  <2> QED
    BY <2>1, <2>2 DEF Control, TypeInv
<1>1. ASSUME NEW p \in Piles, NEW miss, Pop(t, p, miss), UNCHANGED <<guards, loose, haul>>
      PROVE  IsLive(b)
  <2>1. CASE pile[p] = <<>>
    BY <1>1, <2>1 DEF Pop, IsLive
  <2>2. CASE pile[p] # <<>>
    <3>1. /\ Last(pile[p]) \in Range(pile[p])
          /\ Range(Front(pile[p])) \subseteq Range(pile[p])
      BY <1>0, <2>2, PopRange DEF Apart
    <3>2. /\ pile' = [pile EXCEPT ![p] = Front(@)]
          /\ hand' = [hand EXCEPT ![t] = Last(pile[p])]
      BY <1>1, <2>2 DEF Pop
    <3>3. /\ \A q \in Piles : Range(pile'[q]) \subseteq Range(pile[q])
          /\ \A w \in Threads : hand'[w] = hand[w] \/ hand'[w] \in Range(pile[p])
      BY <1>0, <3>1, <3>2
    <3> QED
      BY <1>1, <3>3 DEF IsLive
  <2> QED
    BY <2>1, <2>2
<1>2. CASE PopShard(t)
  BY <1>0, <1>1, <1>2 DEF PopShard
<1>3. CASE PopReserve(t)
  BY <1>0, <1>1, <1>3 DEF PopReserve
<1>4. CASE Push(t)
  <2>1. Parked' = Parked \cup {hand[t]}
    BY <1>4, PushParks
  <2>2. /\ UNCHANGED <<guards, loose, haul>>
        /\ \A u \in Threads : hand'[u] = hand[u] \/ hand'[u] = NoBuffer
    BY <1>0, <1>4 DEF Push, FinishReturn
  <2>3. \A c : c \in Parked <=> \E p \in Piles : c \in Range(pile[p])
    BY DEF Parked
  <2>4. \A c : c \in Parked' <=> \E p \in Piles : c \in Range(pile'[p])
    BY DEF Parked
  <2> QED
    BY <2>1, <2>2, <2>3, <2>4, BuffersAssumption DEF IsLive
<1>5. CASE DrainPile(t)
  <2>1. /\ haul' = [haul EXCEPT ![t] = haul[t] \o pile[at[t]]]
        /\ pile' = [pile EXCEPT ![at[t]] = <<>>]
        /\ UNCHANGED <<guards, loose, hand>>
    BY <1>5 DEF DrainPile
  <2>2. Range(haul[t] \o pile[at[t]]) \subseteq Range(haul[t]) \cup Range(pile[at[t]])
    BY <1>0, RangeConcatenation
  <2> QED
    BY <1>0, <2>1, <2>2, EmptyPile DEF IsLive
<1> QED
  BY <1>2, <1>3, <1>4, <1>5

\* The buffers of the next state are those that are alive in it.
LEMMA NoneMade ==
  ASSUME Control, [Next]_vars, \A b \in Buffers : IsLive(b)' => IsLive(b)
  PROVE  Live' \subseteq Live
<1>1. Live' \subseteq Buffers
  BY ControlStep, LiveTyped
<1> QED
  BY <1>1, LiveIs

\* Of the steps of a call, only a run of the initializer makes a buffer.
LEMMA StepMakesNone ==
  ASSUME Control, Apart, NEW t \in Threads, Step(t), ~RunInit(t), ~FillInit(t)
  PROVE  Live' \subseteq Live
<1>0. /\ haul \in [Threads -> Seq(Buffers)] /\ guards \in [Threads -> SUBSET Buffers]
      /\ hand \in [Threads -> Buffers \cup {NoBuffer}]
      /\ [Next]_vars /\ NoBuffer \notin Buffers
  BY BuffersAssumption DEF Control, TypeInv, Next
<1>1. ASSUME PopShard(t) \/ PopReserve(t) \/ Push(t) \/ DrainPile(t)
      PROVE  Live' \subseteq Live
  BY <1>0, <1>1, PilesMakeNone, NoneMade
<1>2. ASSUME Unpark(t)
      PROVE  Live' \subseteq Live
  <2>1. \A b \in Buffers : IsLive(b)' => IsLive(b)
    BY <1>0, <1>2 DEF Unpark, IsLive
  <2> QED
    BY <1>0, <2>1, NoneMade
<1>3. ASSUME InitPanics(t) \/ Reset(t) \/ ResetPanics(t) \/ CapAllows(t) \/ Unclaim(t)
      PROVE  Live' \subseteq Live
  <2>1. /\ UNCHANGED <<pile, guards, loose, haul>>
        /\ \A u \in Threads : hand'[u] = hand[u] \/ hand'[u] = NoBuffer
    BY <1>0, <1>3 DEF InitPanics, Reset, ResetPanics, CapAllows, Unclaim, FinishReturn
  <2>2. \A b \in Buffers : IsLive(b)' => IsLive(b)
    BY <1>0, <2>1 DEF IsLive
  <2> QED
    BY <1>0, <2>2, NoneMade
<1>4. ASSUME DrainSettle(t)
      PROVE  Live' \subseteq Live
  <2>1. /\ haul' = [haul EXCEPT ![t] = <<>>] /\ loose' = loose \cup Range(haul[t])
        /\ UNCHANGED <<pile, guards, hand>>
    BY <1>4 DEF DrainSettle
  <2>2. \A b \in Buffers : IsLive(b)' => IsLive(b)
    BY <1>0, <2>1, EmptyPile DEF IsLive
  <2> QED
    BY <1>0, <2>2, NoneMade
<1> QED
  BY <1>1, <1>2, <1>3, <1>4 DEF Step

\* The initializer makes one buffer.
LEMMA InitMakesOne ==
  ASSUME Control, NEW t \in Threads, RunInit(t) \/ FillInit(t)
  PROVE  \E b \in Buffers \ Live : Live' \subseteq Live \cup {b} /\ b \in Live'
<1>0. /\ guards \in [Threads -> SUBSET Buffers]
      /\ hand \in [Threads -> Buffers \cup {NoBuffer}]
      /\ [Next]_vars
  BY DEF Control, TypeInv, Next, Step
<1>1. \E b \in Buffers \ Live :
        \/ guards' = [guards EXCEPT ![t] = @ \cup {b}] /\ UNCHANGED hand
        \/ hand' = [hand EXCEPT ![t] = b] /\ UNCHANGED guards
  <2>1. CASE RunInit(t)
    BY <2>1 DEF RunInit
  <2>2. CASE FillInit(t)
    BY <2>2 DEF FillInit
  <2> QED
    BY <2>1, <2>2
<1> PICK b \in Buffers \ Live :
      \/ guards' = [guards EXCEPT ![t] = @ \cup {b}] /\ UNCHANGED hand
      \/ hand' = [hand EXCEPT ![t] = b] /\ UNCHANGED guards
  BY <1>1
<1>2. UNCHANGED <<pile, haul, loose>>
  BY DEF RunInit, FillInit
<1>3. \A c \in Buffers : IsLive(c)' => IsLive(c) \/ c = b
  BY <1>0, <1>2 DEF IsLive
<1>4. Live' \subseteq Buffers
  BY <1>0, ControlStep, LiveTyped
<1>5. IsLive(b)'
  BY <1>0, <1>1 DEF IsLive
<1> QED
  BY <1>3, <1>4, <1>5, LiveIs

\* Every buffer that appears is made by a run of the initializer, one by each.
OnlyInitMakes ==
  \/ Live' \subseteq Live
  \/ InitRuns # {} /\ \E c \in Buffers : Live' \subseteq Live \cup {c}

\* Where nothing foreign is put, only the initializer makes buffers.
LEMMA LiveStep ==
  ASSUME Control, Apart, [Next]_vars, "foreign" \notin Workload
  PROVE  OnlyInitMakes
<1>0. /\ pc \in [Threads -> PC] /\ guards \in [Threads -> SUBSET Buffers]
      /\ hand \in [Threads -> Buffers \cup {NoBuffer}] /\ NoBuffer \notin Buffers
  BY BuffersAssumption DEF Control, TypeInv
<1>1. ASSUME NEW t \in Threads, RunInit(t) \/ FillInit(t)
      PROVE  InitRuns # {} /\ \E c \in Buffers : Live' \subseteq Live \cup {c}
  <2>1. t \in InitRuns
    BY <1>0, <1>1 DEF RunInit, FillInit, InitRuns
  <2> QED
    BY <1>1, <2>1, InitMakesOne
<1>2. ASSUME NEW t \in Threads, Call(t)
      PROVE  Live' \subseteq Live
  <2>1. ASSUME NEW b \in Buffers, Put(t, b)
        PROVE  Live' \subseteq Live
    <3>1. \A c \in Buffers : IsLive(c)' => IsLive(c) \/ c = b
      BY <1>0, <2>1 DEF Put, IsLive
    <3>2. IsLive(b)
      BY <2>1 DEF Put, IsLive
    <3> QED
      BY <3>1, <3>2, NoneMade
  <2>2. ASSUME Get(t) \/ Drain(t) \/ ThreadExit(t) \/ (\E n \in 1 .. MaxFill : Prefill(t, n))
        PROVE  Live' \subseteq Live
    <3>1. UNCHANGED <<pile, hand, guards, haul, loose>>
      BY <2>2 DEF Get, Drain, ThreadExit, Prefill
    <3> QED
      BY <3>1 DEF Live, Parked, InHand, Guarded, Hauled
  <2>3. ASSUME NEW b \in Buffers,
               IntoInner(t, b) \/ DropGuard(t, b) \/ (\E u \in Threads : SendGuard(t, u, b))
        PROVE  Live' \subseteq Live
    <3>1. \A c \in Buffers : IsLive(c)' => IsLive(c)
      BY <1>0, <2>3 DEF IntoInner, DropGuard, SendGuard, IsLive
    <3> QED
      BY <3>1, NoneMade
  <2> QED
    BY <1>2, <2>1, <2>2, <2>3 DEF Call
<1>3. ASSUME \/ \E b \in Buffers : DropLoose(b)
             \/ \E n \in Caps \cup {Uncapped} : WithMaxIdle(n)
             \/ WithReset
             \/ UNCHANGED vars
      PROVE  Live' \subseteq Live
  <2>1. UNCHANGED <<pile, hand, guards, haul>> /\ loose' \subseteq loose
    BY <1>3 DEF DropLoose, WithMaxIdle, WithReset, vars
  <2> QED
    BY <2>1 DEF Live, Parked, InHand, Guarded, Hauled
<1> QED
  BY <1>1, <1>2, <1>3, StepMakesNone DEF Next, OnlyInitMakes

\* The memory is accounted for as long as nothing foreign is put.
LEMMA MemoryStep ==
  ASSUME Control, Apart, [Next]_vars, CountersType, AllocationsBoundMemory, OnlyInitMakes,
         Count \/ (UNCHANGED allocations /\ InitRuns = {})
  PROVE  AllocationsBoundMemory'
<1>0. /\ IsFiniteSet(Live) /\ Cardinality(Live) \in Nat
      /\ IsFiniteSet(InitRuns) /\ Cardinality(InitRuns) \in Nat
  <2>1. InitRuns \subseteq Threads
    BY DEF InitRuns
  <2>2. IsFiniteSet(InitRuns)
    BY <2>1, BuffersAssumption, FS_Subset
  <2> QED
    BY <2>2, LiveFinite, FS_CardinalityType
<1>1. allocations' = allocations + Cardinality(InitRuns)
  <2>1. CASE InitRuns = {}
    BY <2>1, FS_EmptySet DEF Count, CountersType
  <2> QED
    BY <2>1 DEF Count
<1>2. CASE Live' \subseteq Live
  <2>1. Cardinality(Live') <= Cardinality(Live) /\ Cardinality(Live') \in Nat
    BY <1>0, <1>2, FS_Subset, FS_CardinalityType
  <2> QED
    BY <1>0, <1>1, <2>1 DEF AllocationsBoundMemory, CountersType
<1>3. ASSUME InitRuns # {}, NEW c \in Buffers, Live' \subseteq Live \cup {c}
      PROVE  AllocationsBoundMemory'
  <2>1. /\ IsFiniteSet(Live \cup {c})
        /\ Cardinality(Live \cup {c}) <= Cardinality(Live) + 1
        /\ Cardinality(Live \cup {c}) \in Nat
    <3>1. IsFiniteSet(Live \cup {c})
      BY <1>0, FS_AddElement
    <3>2. Cardinality(Live \cup {c}) = Cardinality(Live) \/ Cardinality(Live \cup {c}) = Cardinality(Live) + 1
      BY <1>0, FS_AddElement
    <3> QED
      BY <1>0, <3>1, <3>2
  <2>2. Cardinality(Live') <= Cardinality(Live \cup {c}) /\ Cardinality(Live') \in Nat
    BY <1>3, <2>1, FS_Subset, FS_CardinalityType
  <2>3. Cardinality(InitRuns) >= 1
    <3>1. Cardinality(InitRuns) # 0
      BY <1>0, <1>3, FS_EmptySet
    <3> QED
      BY <1>0, <3>1
  <2> QED
    BY <1>0, <1>1, <2>1, <2>2, <2>3 DEF AllocationsBoundMemory, CountersType
<1> QED
  BY <1>2, <1>3 DEF OnlyInitMakes

-----------------------------------------------------------------------------
(* Any use of the pool, with the counters read at any moment.               *)

\* The watched pool is the pool.
LEMMA StatsWatch == StatsSpec => Spec
<1>1. StatsInit => Init
  BY DEF StatsInit
<1>2. [StatsNext]_<<vars, counters, reader, history>> => [Next]_vars
  BY DEF StatsNext, PoolStep, LoadLeases, LoadAllocations
<1> QED
  BY <1>1, <1>2, PTL DEF StatsSpec, Spec

\* A step of the watched pool is a step of the pool that is counted, or a load.
LEMMA Watched ==
  ASSUME [StatsNext]_<<vars, counters, reader, history>>
  PROVE  [Next]_vars /\ (Count \/ UNCHANGED <<vars, counters, history>>)
  BY DEF StatsNext, PoolStep, LoadLeases, LoadAllocations

\* The counters of a new pool.
LEMMA StatsStart == StatsInit => CountersType /\ LeasesAccounted /\ AllocationsBoundMemory
<1> SUFFICES ASSUME StatsInit PROVE CountersType /\ LeasesAccounted /\ AllocationsBoundMemory
  OBVIOUS
<1>1. CountersType
  BY DEF StatsInit, CountersType
<1>2. {t \in Threads : pc[t] \in {"pop_shard", "pop_reserve", "unpark", "init"}} = {}
  BY DEF StatsInit, Init
<1>3. LeasesAccounted
  BY <1>2, FS_EmptySet DEF StatsInit, LeasesAccounted
<1>4. Live = {}
  BY EmptyPile DEF StatsInit, Init, Live, Parked, InHand, Guarded, Hauled
<1> QED
  BY <1>1, <1>3, <1>4, FS_EmptySet DEF StatsInit, AllocationsBoundMemory

\* The counters of concurrent leases never drift from what the leases did.
THEOREM CountersAgree == StatsSpec => []LeasesAccounted
<1>1. IInv /\ CountersType /\ LeasesAccounted
        /\ [StatsNext]_<<vars, counters, reader, history>> => (CountersType /\ LeasesAccounted)'
  <2> SUFFICES ASSUME IInv, CountersType, LeasesAccounted,
                      [StatsNext]_<<vars, counters, reader, history>>
               PROVE  CountersType' /\ LeasesAccounted'
    OBVIOUS
  <2>1. UNCHANGED vars => \A t \in Threads : pc'[t] = pc[t]
    BY DEF vars
  <2> QED
    BY <2>1, Watched, LeaseCountStep DEF IInv
<1> QED
  BY <1>1, StatsStart, StatsWatch, Inductive, PTL DEF StatsSpec

\* No more buffers exist than were allocated, in whatever state the pool and its
\* users are, as long as users put back only what they detached or drained.
THEOREM MemoryIsBounded ==
  ASSUME "foreign" \notin Workload
  PROVE  StatsSpec => []AllocationsBoundMemory
<1>1. IInv /\ CountersType /\ LeasesAccounted /\ AllocationsBoundMemory
        /\ [StatsNext]_<<vars, counters, reader, history>>
        => (CountersType /\ LeasesAccounted /\ AllocationsBoundMemory)'
  <2> SUFFICES ASSUME IInv, CountersType, LeasesAccounted, AllocationsBoundMemory,
                      [StatsNext]_<<vars, counters, reader, history>>
               PROVE  CountersType' /\ LeasesAccounted' /\ AllocationsBoundMemory'
    OBVIOUS
  <2>0. Control /\ Apart /\ [Next]_vars /\ (Count \/ UNCHANGED <<vars, counters, history>>)
    BY Watched DEF IInv
  <2>1. UNCHANGED vars => \A t \in Threads : pc'[t] = pc[t]
    BY DEF vars
  <2>2. CountersType' /\ LeasesAccounted'
    BY <2>0, <2>1, LeaseCountStep
  <2>3. OnlyInitMakes
    BY <2>0, LiveStep
  <2>4. Count \/ (UNCHANGED allocations /\ InitRuns = {})
    BY <2>0, <2>1 DEF counters, InitRuns
  <2> QED
    BY <2>0, <2>2, <2>3, <2>4, MemoryStep
<1> QED
  BY <1>1, StatsStart, StatsWatch, Inductive, PTL DEF StatsSpec

-----------------------------------------------------------------------------
(* A parallel program: who is where.                                        *)

jobState == <<vars, counters, reader, history, jobVars>>

\* The steps of a return, and those of prefill.
ReturnSteps == {"reset", "cap_allows", "unclaim", "push"}
FillSteps == ReturnSteps \cup {"fill"}

\* Main is still inside prefill.
Filling == pc[Main] \in FillSteps

\* The variables a program adds to the pool's.
JobTypes ==
  /\ item \in [Threads -> Items \cup {NoItem}]
  /\ todo \subseteq Items
  /\ written \subseteq Workers
  /\ content \in [Buffers -> SUBSET Items]
  /\ DOMAIN result \subseteq Items
  /\ result \in [DOMAIN result -> SUBSET Items]
  /\ failed \in BOOLEAN

\* What Main has done, and what it is at.
MainInv ==
  /\ job \in Jobs /\ cap = job.cap /\ hook = job.hook
  /\ guards[Main] = {} /\ item[Main] = NoItem
  /\ pc[Main] \in FillSteps \cup {"ready", "drain", "settle"}
  /\ toFill[Main] > 0 <=> Filling
  /\ phase \in {"loop", "done"}
  /\ pc[Main] \in {"drain", "settle"} => phase = "done" /\ job.drains
  /\ Filling => phase = "loop"

\* A worker with an item is inside its lease or holds one guard; one without is
\* idle or returns its buffer; all are idle before the loop and after it.
WorkerInv ==
  \A w \in Workers :
    /\ toFill[w] = 0
    /\ Filling \/ phase = "done" => pc[w] = "ready" /\ item[w] = NoItem
    /\ item[w] = NoItem => guards[w] = {} /\ pc[w] \in ReturnSteps \cup {"ready"}
    /\ item[w] # NoItem =>
         /\ pc[w] \in LeaseSteps \cup {"ready"}
         /\ pc[w] # "ready" => guards[w] = {}
         /\ pc[w] = "ready" => \E b \in Buffers : guards[w] = {b}
    /\ w \in written => pc[w] = "ready" /\ item[w] # NoItem

\* Which program runs, and how far each of its threads is.
JobControl == JobTypes /\ MainInv /\ WorkerInv

\* What a program may do.
LEMMA JobSteps ==
  ASSUME [JobNext]_jobState
  PROVE  \/ \E t \in Workers : (Begin(t) \/ Finish(t) \/ BodyPanics(t)) /\ Count
         \/ \E t \in Threads : (Progress(t) \/ UserCodePanics(t)) /\ Count
         \/ \E t \in Workers : Write(t)
         \/ NextRound
         \/ Leave
         \/ UNCHANGED jobState
  BY DEF JobNext, Finished, jobState

\* What a program does to the pool is what some user of the pool may do.
LEMMA JobUsesPool ==
  ASSUME Control, [JobNext]_jobState
  PROVE  /\ [Next]_vars
         /\ Count \/ (UNCHANGED <<counters, history>> /\ (UNCHANGED vars \/ Drain(Main)))
<1>0. Main \in Threads
  BY JobsAssumption
<1>1. ASSUME NEW t \in Workers, Begin(t) \/ Finish(t) \/ BodyPanics(t), Count
      PROVE  [Next]_vars /\ Count
  <2>1. t \in Threads
    BY DEF Workers
  <2>2. Call(t) \/ \E b \in guards[t] : IntoInner(t, b) \/ DropGuard(t, b)
    BY <1>1 DEF Begin, Finish, BodyPanics, Call
  <2>3. ASSUME NEW b \in guards[t], IntoInner(t, b) \/ DropGuard(t, b)
        PROVE  Call(t)
    BY <2>1, <2>3 DEF Call, Control, TypeInv
  <2> QED
    BY <1>1, <2>1, <2>2, <2>3 DEF Next
<1>2. ASSUME NEW t \in Threads, Progress(t) \/ UserCodePanics(t), Count
      PROVE  [Next]_vars /\ Count
  BY <1>2 DEF Progress, UserCodePanics, Next, Step
<1>3. ASSUME (\E t \in Workers : Write(t)) \/ NextRound \/ UNCHANGED jobState
      PROVE  UNCHANGED <<vars, counters, history>>
  BY <1>3 DEF Write, NextRound, jobState
<1>4. ASSUME Leave
      PROVE  [Next]_vars /\ UNCHANGED <<counters, history>> /\ (UNCHANGED vars \/ Drain(Main))
  BY <1>0, <1>4 DEF Leave, Next, Call
<1> QED
  BY <1>1, <1>2, <1>3, <1>4, JobSteps

\* A program begins with a fresh pool, but for what prefill is going to stock.
LEMMA JobStart == JobInit => IInv /\ JobControl
<1> SUFFICES ASSUME JobInit PROVE IInv /\ JobControl
  OBVIOUS
<1>0. /\ Main \in Threads /\ NoItem \notin Items
      /\ job.prefill \in Nat /\ job.hook \in BOOLEAN /\ job.cap \in Caps \cup {Uncapped}
      /\ toFill \in [Threads -> Nat]
      /\ \A t \in Threads : pc[t] = IF toFill[t] > 0 THEN "fill" ELSE "ready"
  BY JobsAssumption, ProgramsAssumption DEF JobInit
<1>1. Control
  <2>1. tid \in [Threads -> Nat \cup {Unassigned}] /\ nextTid \in Nat
    <3>1. CASE tid = [t \in Threads |-> Unassigned] /\ nextTid = 0
      BY <3>1
    <3>2. ASSUME NEW ids \in Injection(Workers, 0 .. MaxTids - 1),
                 tid = [t \in Threads |-> IF t = Main THEN Unassigned ELSE ids[t]],
                 nextTid = MaxTids
          PROVE  tid \in [Threads -> Nat \cup {Unassigned}] /\ nextTid \in Nat
      <4>1. ids \in [Workers -> 0 .. MaxTids - 1]
        BY DEF Injection
      <4>2. \A w \in Workers : ids[w] \in Nat
        BY <4>1, BoundsAssumption
      <4> QED
        BY <3>2, <4>2, BoundsAssumption DEF Workers
    <3> QED
      BY <3>1, <3>2 DEF JobInit
  <2>2. pc \in [Threads -> PC] /\ \A t \in Threads : pc[t] \notin Moving
    BY <1>0 DEF JobInit, PC, Moving
  <2> QED
    BY <1>0, <2>1, <2>2, ShardsAssumption, EmptySeq
    DEF JobInit, Control, TypeInv, HandInv, HaulInv, UnclaimInv, Piles, Moving
<1>2. Counted = {} /\ Claims = {}
  <2>1. Parked = {} /\ Hauled = {}
    BY EmptyPile DEF JobInit, Parked, Hauled
  <2>2. Pending = {} /\ Claims = {}
    BY <1>0 DEF Pending, Claims
  <2> QED
    BY <2>1, <2>2 DEF Counted
<1>3. Apart
  BY EmptyPile, BuffersAssumption DEF JobInit, Apart, OnePlace
<1>4. CounterOff /\ CountExact /\ ClaimsFitCap /\ CleanInv
  <2>1. CountExact
    BY <1>2, FS_EmptySet DEF JobInit, CountExact
  <2> QED
    BY <1>0, <1>2, <2>1 DEF JobInit, CounterOff, ClaimsFitCap, CleanInv
<1>5. JobTypes
  BY <1>0 DEF JobInit, JobTypes
<1>6. MainInv
  BY <1>0 DEF JobInit, MainInv, Filling, FillSteps, ReturnSteps
<1>7. WorkerInv
  BY <1>0 DEF JobInit, WorkerInv, Workers, Filling, FillSteps, ReturnSteps
<1> QED
  BY <1>1, <1>3, <1>4, <1>5, <1>6, <1>7 DEF IInv, JobControl

\* The data of a program keeps its types.
LEMMA JobTypesStep ==
  ASSUME Control, JobControl, [JobNext]_jobState
  PROVE  JobTypes'
<1>0. /\ \A t \in Workers : t \in Threads
      /\ guards \in [Threads -> SUBSET Buffers]
      /\ item \in [Threads -> Items \cup {NoItem}]
      /\ NoItem \notin Items
  BY JobsAssumption DEF Control, TypeInv, JobControl, JobTypes, Workers
<1> USE <1>0 DEF JobControl, JobTypes
<1>1. ASSUME NEW t \in Workers, Begin(t)
      PROVE  JobTypes'
  BY <1>1 DEF Begin
<1>2. ASSUME NEW t \in Workers, Finish(t)
      PROVE  JobTypes'
  <2>1. PICK b \in guards[t] : result' = [result EXCEPT ![item[t]] = content[b]]
    BY <1>2 DEF Finish
  <2>2. b \in Buffers /\ content[b] \in SUBSET Items
    OBVIOUS
  <2>3. DOMAIN result' = DOMAIN result /\ result' \in [DOMAIN result -> SUBSET Items]
    BY <2>1, <2>2
  <2> QED
    BY <1>2, <2>3 DEF Finish
<1>3. ASSUME NEW t \in Workers, BodyPanics(t)
      PROVE  JobTypes'
  <2>1. PICK b \in guards[t] : content' = [content EXCEPT ![b] = @ \cup {item[t]}]
    BY <1>3 DEF BodyPanics
  <2>2. b \in Buffers /\ item[t] \in Items
    BY <1>3 DEF BodyPanics, HoldsLease
  <2>3. content' \in [Buffers -> SUBSET Items]
    BY <2>1, <2>2
  <2> QED
    BY <1>3, <2>3 DEF BodyPanics, Unwind
<1>4. ASSUME NEW t \in Threads, Progress(t) \/ UserCodePanics(t)
      PROVE  JobTypes'
  <2>1. content' \in [Buffers -> SUBSET Items]
    BY <1>4 DEF Progress, UserCodePanics, Contents
  <2> QED
    BY <1>4, <2>1 DEF Progress, UserCodePanics, Unwind
<1>5. ASSUME NEW t \in Workers, Write(t)
      PROVE  JobTypes'
  <2>1. PICK b \in guards[t] :
          content' = [content EXCEPT ![b] = {item[t]} \cup (IF job.adds THEN @ ELSE {})]
    BY <1>5 DEF Write
  <2>2. b \in Buffers /\ item[t] \in Items
    BY <1>5 DEF Write, HoldsLease
  <2>3. content' \in [Buffers -> SUBSET Items]
    BY <2>1, <2>2
  <2> QED
    BY <1>5, <2>3 DEF Write
<1>6. NextRound => JobTypes'
  BY DEF NextRound
<1>7. Leave \/ UNCHANGED jobState => JobTypes'
  BY DEF Leave, jobState, jobVars
<1> QED
  BY <1>1, <1>2, <1>3, <1>4, <1>5, <1>6, <1>7, JobSteps

\* Main fills the pool before the loop and drains it after the loop.
LEMMA MainStep ==
  ASSUME Control, JobControl, [JobNext]_jobState
  PROVE  MainInv'
<1>0. /\ Main \in Threads /\ \A t \in Workers : t \in Threads /\ t # Main
      /\ pc \in [Threads -> PC] /\ toFill \in [Threads -> Nat]
      /\ guards \in [Threads -> SUBSET Buffers]
      /\ item \in [Threads -> Items \cup {NoItem}]
      /\ \A t \in Threads \ {Main} : toFill[t] = 0
  BY JobsAssumption DEF Control, TypeInv, JobControl, JobTypes, Workers, WorkerInv
<1> USE <1>0 DEF JobControl, MainInv, Filling, FillSteps, ReturnSteps, LeaseSteps
<1>1. ASSUME NEW t \in Workers, Begin(t)
      PROVE  MainInv'
  BY <1>1 DEF Begin, Get
<1>2. ASSUME NEW t \in Workers, Finish(t)
      PROVE  MainInv'
  BY <1>2 DEF Finish, IntoInner, DropGuard
<1>3. ASSUME NEW t \in Workers, BodyPanics(t)
      PROVE  MainInv'
  BY <1>3 DEF BodyPanics, DropGuard, Unwind
<1>4. ASSUME NEW t \in Threads, Progress(t)
      PROVE  MainInv'
  <2>0. UNCHANGED <<job, phase, item>>
    BY <1>4 DEF Progress
  <2>1. CASE PopShard(t)
    BY <2>0, <2>1 DEF PopShard, Pop
  <2>2. CASE PopReserve(t)
    BY <2>0, <2>2 DEF PopReserve, Pop
  <2>3. CASE Unpark(t)
    BY <2>0, <2>3 DEF Unpark
  <2>4. CASE RunInit(t)
    BY <2>0, <2>4 DEF RunInit
  <2>5. CASE FillInit(t)
    BY <2>0, <2>5 DEF FillInit
  <2>6. CASE Reset(t)
    BY <2>0, <2>6 DEF Reset
  <2>7. CASE CapAllows(t)
    BY <2>0, <2>7 DEF CapAllows
  <2>8. CASE Unclaim(t)
    BY <2>0, <2>8 DEF Unclaim, FinishReturn
  <2>9. CASE Push(t)
    BY <2>0, <2>9 DEF Push, FinishReturn
  <2>10. CASE DrainPile(t)
    BY <2>0, <2>10 DEF DrainPile
  <2>11. CASE DrainSettle(t)
    BY <2>0, <2>11 DEF DrainSettle
  <2> QED
    BY <1>4, <2>1, <2>2, <2>3, <2>4, <2>5, <2>6, <2>7, <2>8, <2>9, <2>10, <2>11 DEF Progress
<1>5. ASSUME NEW t \in Threads, UserCodePanics(t)
      PROVE  MainInv'
  BY <1>5 DEF UserCodePanics, InitPanics, ResetPanics, Unwind
<1>6. ASSUME (\E t \in Workers : Write(t)) \/ NextRound \/ UNCHANGED jobState
      PROVE  MainInv'
  BY <1>6 DEF Write, NextRound, jobState, vars, jobVars
<1>7. ASSUME Leave
      PROVE  MainInv'
  <2>1. /\ phase' = "done" /\ UNCHANGED <<job, item>> /\ pc[Main] = "ready"
        /\ (Drain(Main) /\ job.drains) \/ UNCHANGED vars
    BY <1>7 DEF Leave, Joined
  <2>2. CASE Drain(Main) /\ job.drains
    BY <2>1, <2>2 DEF Drain
  <2>3. CASE UNCHANGED vars
    BY <2>1, <2>3 DEF vars
  <2> QED
    BY <2>1, <2>2, <2>3
<1> QED
  BY <1>1, <1>2, <1>3, <1>4, <1>5, <1>6, <1>7, JobSteps

\* A worker leases, works and returns, one item at a time.
LEMMA WorkerStep ==
  ASSUME Control, JobControl, [JobNext]_jobState
  PROVE  WorkerInv'
<1>0. /\ Main \in Threads /\ \A t \in Workers : t \in Threads /\ t # Main
      /\ \A t \in Threads : t = Main \/ t \in Workers
      /\ pc \in [Threads -> PC] /\ toFill \in [Threads -> Nat]
      /\ guards \in [Threads -> SUBSET Buffers]
      /\ hand \in [Threads -> Buffers \cup {NoBuffer}]
      /\ \A t \in Threads : hand[t] # NoBuffer <=> pc[t] \in Moving
      /\ item \in [Threads -> Items \cup {NoItem}]
      /\ written \subseteq Workers
      /\ NoItem \notin Items
  BY JobsAssumption DEF Control, TypeInv, HandInv, JobControl, JobTypes, Workers
<1> USE <1>0 DEF JobControl, MainInv, WorkerInv, Filling, FillSteps, ReturnSteps, LeaseSteps
<1>1. ASSUME NEW t \in Workers, Begin(t)
      PROVE  WorkerInv'
  <2>1. PICK k \in todo : item' = [item EXCEPT ![t] = k]
    BY <1>1 DEF Begin
  <2>2. /\ k # NoItem /\ item[t] = NoItem /\ ~Filling /\ phase # "done"
        /\ guards[t] = {} /\ t \notin written /\ UNCHANGED <<phase, written>>
    BY <1>1 DEF Begin, JobTypes
  <2>3. pc' = [pc EXCEPT ![t] = "pop_shard"] /\ UNCHANGED <<guards, toFill>>
    BY <1>1 DEF Begin, Get
  <2> QED
    BY <2>1, <2>2, <2>3
<1>2. ASSUME NEW t \in Workers, Finish(t)
      PROVE  WorkerInv'
  <2>1. PICK b \in guards[t] : IF job.detach THEN IntoInner(t, b) ELSE DropGuard(t, b)
    BY <1>2 DEF Finish
  <2>2. /\ pc[t] = "ready" /\ item[t] # NoItem /\ guards[t] = {b} /\ ~Filling /\ phase # "done"
        /\ item' = [item EXCEPT ![t] = NoItem] /\ written' = written \ {t}
        /\ UNCHANGED phase
    BY <1>2 DEF Finish, HoldsLease
  <2>3. /\ guards' = [guards EXCEPT ![t] = {}] /\ UNCHANGED toFill
        /\ pc' = pc \/ pc' = [pc EXCEPT ![t] = "reset"]
    BY <2>1, <2>2 DEF IntoInner, DropGuard
  <2> QED
    BY <2>2, <2>3
<1>3. ASSUME NEW t \in Workers, BodyPanics(t)
      PROVE  WorkerInv'
  BY <1>3 DEF BodyPanics, HoldsLease, DropGuard, Unwind
<1>4. ASSUME NEW t \in Threads, Progress(t)
      PROVE  WorkerInv'
  <2>0. UNCHANGED <<job, phase, item, written>>
    BY <1>4 DEF Progress
  <2>1. CASE PopShard(t)
    BY <2>0, <2>1 DEF PopShard, Pop
  <2>2. CASE PopReserve(t)
    BY <2>0, <2>2 DEF PopReserve, Pop
  <2>3. CASE Unpark(t)
    <3>1. /\ t \in Workers /\ item[t] # NoItem /\ guards[t] = {} /\ hand[t] \in Buffers
          /\ ~Filling /\ phase # "done"
      BY <2>3 DEF Unpark, Moving
    <3>2. guards' = [guards EXCEPT ![t] = {hand[t]}]
      BY <2>3, <3>1 DEF Unpark
    <3> QED
      BY <2>0, <2>3, <3>1, <3>2 DEF Unpark
  <2>4. CASE RunInit(t)
    BY <2>0, <2>4 DEF RunInit
  <2>5. CASE FillInit(t)
    BY <2>0, <2>5 DEF FillInit
  <2>6. CASE Reset(t)
    BY <2>0, <2>6 DEF Reset
  <2>7. CASE CapAllows(t)
    BY <2>0, <2>7 DEF CapAllows
  <2>8. CASE Unclaim(t)
    BY <2>0, <2>8 DEF Unclaim, FinishReturn
  <2>9. CASE Push(t)
    BY <2>0, <2>9 DEF Push, FinishReturn
  <2>10. CASE DrainPile(t)
    BY <2>0, <2>10 DEF DrainPile
  <2>11. CASE DrainSettle(t)
    BY <2>0, <2>11 DEF DrainSettle
  <2> QED
    BY <1>4, <2>1, <2>2, <2>3, <2>4, <2>5, <2>6, <2>7, <2>8, <2>9, <2>10, <2>11 DEF Progress
<1>5. ASSUME NEW t \in Threads, UserCodePanics(t)
      PROVE  WorkerInv'
  BY <1>5 DEF UserCodePanics, InitPanics, ResetPanics, Unwind
<1>6. ASSUME (\E t \in Workers : Write(t)) \/ NextRound \/ UNCHANGED jobState
      PROVE  WorkerInv'
  BY <1>6 DEF Write, HoldsLease, NextRound, jobState, vars, jobVars
<1>7. ASSUME Leave
      PROVE  WorkerInv'
  <2>1. /\ phase' = "done" /\ UNCHANGED <<job, item, written>>
        /\ \A t \in Threads : pc[t] = "ready" /\ item[t] = NoItem
        /\ Drain(Main) \/ UNCHANGED vars
    BY <1>7 DEF Leave, Joined
  <2>2. CASE Drain(Main)
    BY <2>1, <2>2 DEF Drain
  <2>3. CASE UNCHANGED vars
    BY <2>1, <2>3 DEF vars
  <2> QED
    BY <2>1, <2>2, <2>3
<1> QED
  BY <1>1, <1>2, <1>3, <1>4, <1>5, <1>6, <1>7, JobSteps

\* Every step of a program keeps it under that control.
LEMMA JobControlStep == Control /\ JobControl /\ [JobNext]_jobState => JobControl'
  BY JobTypesStep, MainStep, WorkerStep DEF JobControl

-----------------------------------------------------------------------------
(* Every buffer parked in a shard is left behind by a worker of its own: one *)
(* of that shard that neither holds a buffer nor is about to make one. A     *)
(* worker that misses in its shard is therefore not one of them, and a worker *)
(* that takes the buffer another one left behind leaves its own to that one.  *)

\* The piles a thread may select; a worker that has, or is about to make, a buffer.
Shards == Piles \ {Reserve}

Busy(w) == guards[w] # {} \/ hand[w] # NoBuffer \/ pc[w] \in {"pop_reserve", "init"}

\* f names the worker that left each buffer of the shards behind.
Hosted(f) ==
  /\ \A p \in Shards : \A b \in Range(pile[p]) :
       f[b] \in Workers /\ ~Busy(f[b]) /\ tid[f[b]] # Unassigned /\ tid[f[b]] % NumShards = p
  /\ \A p, q \in Shards : \A b \in Range(pile[p]), c \in Range(pile[q]) :
       f[b] = f[c] => b = c

\* Prefill leaves the shards alone, and from then on every buffer in them has a host.
HostInv ==
  /\ Filling => \A p \in Shards : Range(pile[p]) = {}
  /\ \E f \in [Buffers -> Threads] : Hosted(f)

\* A worker makes a buffer only where the reserve is empty.
ReserveInv == \A w \in Workers : pc[w] = "init" => Range(pile[Reserve]) = {}

\* Nothing that only empties piles, or frees workers, changes who left what.
LEMMA HostsKept ==
  ASSUME NEW f, Hosted(f),
         \A p \in Shards : Range(pile'[p]) \subseteq Range(pile[p]),
         \A w \in Workers : ~Busy(w) => ~Busy(w)' /\ tid'[w] = tid[w]
  PROVE  Hosted(f)'
  BY DEF Hosted

\* A pop of a shard: the caller's buffer goes to the one whose buffer it takes.
LEMMA PopHosts ==
  ASSUME Control, Apart, JobControl, NEW t \in Threads, PopShard(t),
         NEW f \in [Buffers -> Threads], Hosted(f)
  PROVE  \E g \in [Buffers -> Threads] : Hosted(g)'
<1> DEFINE s == Shard(t)
<1>0. /\ pile \in [Piles -> Seq(Buffers)] /\ tid \in [Threads -> Nat \cup {Unassigned}]
      /\ pc \in [Threads -> PC] /\ hand \in [Threads -> Buffers \cup {NoBuffer}]
      /\ s \in Shards /\ s \in Piles /\ t \in Workers
      /\ \A p \in Shards : p \in Piles
      /\ \A w \in Workers : w \in Threads
  BY ShardIsPile
  DEF Control, TypeInv, Shards, PopShard, Workers, JobControl, MainInv, FillSteps, ReturnSteps
<1>1. /\ tid' = [tid EXCEPT ![t] = Tid(t)]
      /\ UNCHANGED <<guards>>
      /\ \A u \in Threads \ {t} : hand'[u] = hand[u] /\ pc'[u] = pc[u]
  BY <1>0 DEF PopShard, AssignTid, Pop
<1>2. \A u \in Threads \ {t} : (Busy(u)' <=> Busy(u)) /\ tid'[u] = tid[u]
  BY <1>0, <1>1 DEF Busy
<1>3. \A p \in Shards : \A b \in Range(pile[p]) : f[b] = t => p = s
  BY DEF Hosted, Shard, Tid
<1>4. CASE pile[s] = <<>>
  <2>1. UNCHANGED pile
    BY <1>4 DEF PopShard, Pop
  <2>2. \A p \in Shards : \A b \in Range(pile[p]) : f[b] # t
    BY <1>3, <1>4, EmptyPile
  <2>3. \A p \in Shards : \A b \in Range(pile'[p]) :
          f[b] \in Workers /\ ~Busy(f[b])' /\ tid'[f[b]] # Unassigned /\ tid'[f[b]] % NumShards = p
    BY <1>0, <1>2, <2>1, <2>2 DEF Hosted
  <2>4. Hosted(f)'
    BY <2>1, <2>3 DEF Hosted
  <2> QED
    BY <2>4
<1>5. CASE pile[s] # <<>>
  <2> PICK x : x = Last(pile[s])
    OBVIOUS
  <2>1. /\ x \in Range(pile[s]) /\ x \in Buffers
        /\ pile' = [pile EXCEPT ![s] = Front(@)]
        /\ Range(Front(pile[s])) = Range(pile[s]) \ {x}
    BY <1>0, <1>5, PopRange, PopTypes DEF PopShard, Pop, Apart
  <2>2. \A p \in Shards : \A b \in Range(pile'[p]) : b \in Range(pile[p]) /\ b # x /\ b \in Buffers
    <3> SUFFICES ASSUME NEW p \in Shards, NEW b \in Range(pile'[p])
                 PROVE  b \in Range(pile[p]) /\ b # x /\ b \in Buffers
      OBVIOUS
    <3>1. p = s => b \in Range(pile[p]) /\ b # x
      BY <1>0, <2>1
    <3>2. p # s => b \in Range(pile[p]) /\ b # x
      BY <1>0, <2>1 DEF Apart, OnePlace
    <3>3. Range(pile[p]) \subseteq Buffers
      BY <1>0, RangeOfSeq
    <3> QED
      BY <3>1, <3>2, <3>3
  <2> DEFINE g == [b \in Buffers |-> IF f[b] = t THEN f[x] ELSE f[b]]
  <2>3. g \in [Buffers -> Threads]
    BY <2>1
  <2>4. ASSUME NEW p \in Shards, NEW b \in Range(pile'[p])
        PROVE  /\ g[b] \in Workers /\ ~Busy(g[b])'
               /\ tid'[g[b]] # Unassigned /\ tid'[g[b]] % NumShards = p
    <3>1. b \in Range(pile[p]) /\ b # x /\ b \in Buffers
      BY <2>2
    <3>2. CASE f[b] = t
      <4>1. p = s /\ f[x] # t
        BY <1>0, <1>3, <2>1, <3>1, <3>2 DEF Hosted
      <4>2. f[x] \in Workers /\ ~Busy(f[x]) /\ tid[f[x]] # Unassigned /\ tid[f[x]] % NumShards = s
        BY <1>0, <2>1 DEF Hosted
      <4>3. g[b] = f[x]
        BY <3>1, <3>2
      <4> QED
        BY <1>0, <1>2, <4>1, <4>2, <4>3
    <3>3. CASE f[b] # t
      <4>1. g[b] = f[b]
        BY <3>1, <3>3
      <4> QED
        BY <1>0, <1>2, <3>1, <3>3, <4>1 DEF Hosted
    <3> QED
      BY <3>2, <3>3
  <2>5. ASSUME NEW p \in Shards, NEW q \in Shards, NEW b \in Range(pile'[p]),
               NEW c \in Range(pile'[q]), g[b] = g[c]
        PROVE  b = c
    <3>1. b \in Range(pile[p]) /\ b # x /\ b \in Buffers /\ c \in Range(pile[q]) /\ c # x /\ c \in Buffers
      BY <2>2
    <3>2. g[b] = (IF f[b] = t THEN f[x] ELSE f[b]) /\ g[c] = (IF f[c] = t THEN f[x] ELSE f[c])
      BY <3>1
    <3>3. /\ f[b] = f[c] => b = c
          /\ f[b] = f[x] => b = x
          /\ f[x] = f[c] => x = c
      BY <1>0, <2>1, <3>1 DEF Hosted
    <3> HIDE DEF g
    <3> QED
      BY <2>5, <3>1, <3>2, <3>3
  <2> HIDE DEF g
  <2>6. Hosted(g)'
    BY <2>4, <2>5 DEF Hosted
  <2> QED
    BY <2>3, <2>6
<1> QED
  BY <1>4, <1>5

\* A push to a shard: the caller leaves its buffer behind.
LEMMA PushHosts ==
  ASSUME Control, Apart, JobControl, NEW t \in Workers, Push(t),
         NEW f \in [Buffers -> Threads], Hosted(f)
  PROVE  \E g \in [Buffers -> Threads] : Hosted(g)'
<1> DEFINE s == Shard(t)
<1>0. /\ pile \in [Piles -> Seq(Buffers)] /\ tid \in [Threads -> Nat \cup {Unassigned}]
      /\ pc \in [Threads -> PC] /\ hand \in [Threads -> Buffers \cup {NoBuffer}]
      /\ t \in Threads
      /\ \A p \in Shards : p \in Piles
      /\ \A w \in Workers : w \in Threads
      /\ pc[t] = "push" /\ hand[t] \in Buffers /\ toFill[t] = 0 /\ guards[t] = {}
      /\ Tid(t) # Unassigned
  <2>1. t \in Threads /\ pc[t] = "push" /\ item[t] = NoItem
    BY DEF Push, Workers, JobControl, WorkerInv, LeaseSteps
  <2>2. toFill[t] = 0 /\ guards[t] = {}
    BY <2>1 DEF JobControl, WorkerInv
  <2>3. hand[t] \in Buffers
    BY <2>1 DEF Control, TypeInv, HandInv, Moving
  <2>4. Tid(t) # Unassigned
    BY <2>1, ShardIsPile DEF Control, Unassigned
  <2> QED
    BY <2>1, <2>2, <2>3, <2>4 DEF Control, TypeInv, Workers, Shards
<1>s. s \in Shards /\ s \in Piles
  BY <1>0, ShardIsPile DEF Control, Shards
<1>1. /\ tid' = [tid EXCEPT ![t] = Tid(t)]
      /\ pile' = [pile EXCEPT ![s] = Append(@, hand[t])]
      /\ hand' = [hand EXCEPT ![t] = NoBuffer]
      /\ pc' = [pc EXCEPT ![t] = "ready"]
      /\ UNCHANGED guards
  BY <1>0 DEF Push, AssignTid, FinishReturn
<1>2. /\ \A u \in Threads \ {t} : (Busy(u)' <=> Busy(u)) /\ tid'[u] = tid[u]
      /\ Busy(t) /\ ~Busy(t)'
      /\ tid'[t] # Unassigned /\ tid'[t] % NumShards = s
  BY <1>0, <1>1, BuffersAssumption DEF Busy, Shard
<1>3. /\ \A p \in Piles : hand[t] \notin Range(pile[p])
      /\ Range(pile'[s]) = Range(pile[s]) \cup {hand[t]}
      /\ \A p \in Piles \ {s} : pile'[p] = pile[p]
  <2>1. \A p \in Piles : hand[t] \notin Range(pile[p])
    BY <1>0 DEF Apart, OnePlace
  <2> QED
    BY <1>0, <1>s, <1>1, <2>1, PushRange DEF Apart
<1> PICK h : h = hand[t]
  OBVIOUS
<1> DEFINE g == [f EXCEPT ![h] = t]
<1>4. /\ g \in [Buffers -> Threads] /\ g[h] = t
      /\ \A b \in Buffers : b # h => g[b] = f[b]
  BY <1>0
<1>5. \A p \in Shards : \A b \in Range(pile'[p]) :
        \/ b = h /\ p = s
        \/ b # h /\ b \in Range(pile[p]) /\ f[b] # t /\ b \in Buffers
  <2>1. \A p \in Piles : Range(pile[p]) \subseteq Buffers
    BY <1>0, RangeOfSeq
  <2>2. \A p \in Shards : \A b \in Range(pile[p]) : f[b] # t
    BY <1>2 DEF Hosted
  <2> QED
    BY <1>0, <1>3, <2>1, <2>2
<1> HIDE DEF g
<1>6. \A p \in Shards : \A b \in Range(pile'[p]) :
        g[b] \in Workers /\ ~Busy(g[b])' /\ tid'[g[b]] # Unassigned /\ tid'[g[b]] % NumShards = p
  <2> SUFFICES ASSUME NEW p \in Shards, NEW b \in Range(pile'[p])
               PROVE  /\ g[b] \in Workers /\ ~Busy(g[b])'
                      /\ tid'[g[b]] # Unassigned /\ tid'[g[b]] % NumShards = p
    OBVIOUS
  <2>1. CASE b = h /\ p = s
    BY <1>0, <1>2, <1>4, <2>1
  <2>2. CASE b # h /\ b \in Range(pile[p]) /\ f[b] # t /\ b \in Buffers
    <3>1. g[b] = f[b] /\ f[b] \in Threads \ {t}
      BY <1>0, <1>4, <2>2
    <3>2. f[b] \in Workers /\ ~Busy(f[b]) /\ tid[f[b]] # Unassigned /\ tid[f[b]] % NumShards = p
      BY <2>2 DEF Hosted
    <3> QED
      BY <1>2, <3>1, <3>2
  <2> QED
    BY <1>5, <2>1, <2>2
<1>7. \A p, q \in Shards : \A b \in Range(pile'[p]), c \in Range(pile'[q]) : g[b] = g[c] => b = c
  BY <1>4, <1>5 DEF Hosted
<1>8. Hosted(g)'
  BY <1>6, <1>7 DEF Hosted
<1> QED
  BY <1>4, <1>8

\* Main has the less to fill the more it has filled.
LEMMA FillFalls ==
  ASSUME Control, JobControl, [JobNext]_jobState
  PROVE  /\ toFill'[Main] <= toFill[Main]
         /\ Filling /\ hand[Main] # NoBuffer /\ hand'[Main] = NoBuffer
              => toFill'[Main] < toFill[Main]
<1> DEFINE Falls == /\ toFill'[Main] <= toFill[Main]
                    /\ Filling /\ hand[Main] # NoBuffer /\ hand'[Main] = NoBuffer
                         => toFill'[Main] < toFill[Main]
<1>0. /\ Main \in Threads /\ toFill \in [Threads -> Nat]
      /\ hand \in [Threads -> Buffers \cup {NoBuffer}]
      /\ Filling => toFill[Main] > 0
      /\ pc[Main] # "unpark"
  BY JobsAssumption
  DEF Control, TypeInv, JobControl, MainInv, FillSteps, ReturnSteps
<1>1. ASSUME NEW t \in Threads, Progress(t) \/ UserCodePanics(t)
      PROVE  Falls
  <2>1. CASE InitPanics(t) \/ ResetPanics(t)
    BY <1>0, <2>1 DEF InitPanics, ResetPanics
  <2>2. CASE Unclaim(t) \/ Push(t)
    <3>1. FinishReturn(t)
      BY <2>2 DEF Unclaim, Push
    <3>2. CASE t = Main
      <4>1. toFill'[Main] = IF toFill[Main] = 0 THEN 0 ELSE toFill[Main] - 1
        BY <1>0, <3>1, <3>2 DEF FinishReturn
      <4> QED
        BY <1>0, <4>1
    <3>3. CASE t # Main
      BY <1>0, <3>1, <3>3 DEF FinishReturn
    <3> QED
      BY <3>2, <3>3
  <2>3. CASE UNCHANGED toFill /\ (hand'[Main] = hand[Main] \/ hand'[Main] # NoBuffer)
    BY <1>0, <2>3
  <2>4. CASE PopShard(t) \/ PopReserve(t)
    <3>1. UNCHANGED toFill /\ (hand'[Main] = hand[Main] \/ hand'[Main] # NoBuffer)
      <4>1. \A p \in Piles : pile[p] # <<>> => Last(pile[p]) \in Buffers
        BY PopTypes DEF Control, TypeInv
      <4>2. Shard(t) \in Piles /\ Reserve \in Piles
        BY ShardIsPile, ShardsAssumption DEF Control, Piles, Reserve
      <4> QED
        BY <1>0, <2>4, <4>1, <4>2, BuffersAssumption DEF PopShard, PopReserve, Pop
    <3> QED
      BY <2>3, <3>1
  <2>5. CASE Unpark(t)
    <3>1. t # Main
      BY <1>0, <2>5 DEF Unpark
    <3> QED
      BY <1>0, <2>5, <3>1 DEF Unpark
  <2>6. CASE FillInit(t)
    BY <1>0, <2>6, BuffersAssumption DEF FillInit
  <2> QED
    BY <1>1, <2>1, <2>2, <2>3, <2>4, <2>5, <2>6
    DEF Progress, UserCodePanics, RunInit, Reset, CapAllows, DrainPile, DrainSettle
<1>2. ASSUME NEW t \in Workers, Begin(t) \/ Finish(t) \/ BodyPanics(t) \/ Write(t)
      PROVE  Falls
  <2>1. UNCHANGED toFill /\ hand'[Main] = hand[Main]
    BY <1>0, <1>2 DEF Begin, Get, Finish, BodyPanics, IntoInner, DropGuard, Write, vars, Workers
  <2> QED
    BY <1>0, <2>1
<1>3. NextRound \/ Leave \/ UNCHANGED jobState => Falls
  <2>1. NextRound \/ Leave \/ UNCHANGED jobState => UNCHANGED <<toFill, hand>>
    BY DEF NextRound, Leave, Drain, vars, jobState
  <2> QED
    BY <1>0, <2>1
<1> QED
  BY <1>1, <1>2, <1>3, JobSteps

\* Main fills the pool once.
LEMMA FillOnce ==
  ASSUME Control, JobControl, [JobNext]_jobState
  PROVE  Filling' => Filling
<1>0. Main \in Threads /\ toFill \in [Threads -> Nat] /\ toFill' \in [Threads -> Nat]
  BY ControlStep, JobUsesPool, JobsAssumption DEF Control, TypeInv
<1> QED
  BY <1>0, MainStep, FillFalls DEF MainInv, JobControl

\* Where a return parks its buffer.
Target(t) == IF toFill[t] > 0 THEN Reserve ELSE Shard(t)

\* Only a return adds to a pile.
LEMMA PilesShrink ==
  ASSUME Control, Apart, [Next]_vars, NEW p \in Piles,
         \A t \in Threads : Push(t) => Target(t) # p
  PROVE  Range(pile'[p]) \subseteq Range(pile[p])
<1>0. pile \in [Piles -> Seq(Buffers)] /\ at \in [Threads -> Piles] /\ IsInjective(pile[p])
  BY DEF Control, TypeInv, Apart
<1>1. ASSUME NEW t \in Threads, NEW q \in Piles, NEW miss, Pop(t, q, miss)
      PROVE  Range(pile'[p]) \subseteq Range(pile[p])
  <2>1. pile' = pile \/ (pile[q] # <<>> /\ pile' = [pile EXCEPT ![q] = Front(@)])
    BY <1>1 DEF Pop
  <2>2. p = q /\ pile[p] # <<>> => Range(Front(pile[p])) \subseteq Range(pile[p])
    BY <1>0, PopRange
  <2> QED
    BY <1>0, <2>1, <2>2
<1>2. ASSUME NEW t \in Threads, PopShard(t) \/ PopReserve(t)
      PROVE  Range(pile'[p]) \subseteq Range(pile[p])
  <2>1. Shard(t) \in Piles /\ Reserve \in Piles
    BY ShardIsPile, ShardsAssumption DEF Control, Piles, Reserve
  <2> QED
    BY <1>1, <1>2, <2>1 DEF PopShard, PopReserve
<1>3. ASSUME NEW t \in Threads, Push(t) \/ DrainPile(t)
      PROVE  Range(pile'[p]) \subseteq Range(pile[p])
  <2>1. CASE Push(t)
    BY <1>0, <2>1 DEF Push, Target
  <2>2. CASE DrainPile(t)
    BY <1>0, <2>2, EmptyPile DEF DrainPile
  <2> QED
    BY <1>3, <2>1, <2>2
<1>4. CASE UNCHANGED pile
  BY <1>4
<1>5. ASSUME NEW t \in Threads, Step(t)
      PROVE  Range(pile'[p]) \subseteq Range(pile[p])
  BY <1>2, <1>3, <1>4, <1>5
  DEF Step, Unpark, RunInit, InitPanics, FillInit, Reset, ResetPanics, CapAllows, Unclaim, DrainSettle
<1>6. ASSUME NEW t \in Threads, Call(t)
      PROVE  UNCHANGED pile
  BY <1>6 DEF Call, Get, Drain, ThreadExit, Prefill, IntoInner, DropGuard, Put, SendGuard
<1> QED
  BY <1>4, <1>5, <1>6 DEF Next, vars, DropLoose, WithMaxIdle, WithReset

\* Whoever works in a call, or ends it, was busy; nobody else is disturbed.
LEMMA IdleStayIdle ==
  ASSUME Control, JobControl, [JobNext]_jobState, NEW w \in Workers, ~Busy(w),
         ~PopShard(w), ~Push(w)
  PROVE  ~Busy(w)' /\ tid'[w] = tid[w]
<1>0. /\ Main \in Threads /\ \A t \in Workers : t \in Threads /\ t # Main
      /\ \A t \in Threads : t = Main \/ t \in Workers
      /\ pc \in [Threads -> PC] /\ tid \in [Threads -> Nat \cup {Unassigned}]
      /\ guards \in [Threads -> SUBSET Buffers]
      /\ hand \in [Threads -> Buffers \cup {NoBuffer}]
      /\ NoBuffer \notin Buffers
      /\ pc[w] \notin Moving \cup {"pop_reserve", "init", "fill", "drain", "settle"}
      /\ guards[w] = {} /\ hand[w] = NoBuffer
  BY JobsAssumption, BuffersAssumption
  DEF Control, TypeInv, HandInv, JobControl, WorkerInv, Workers, Busy, LeaseSteps, ReturnSteps
<1> USE <1>0 DEF Busy
<1>1. ASSUME NEW t \in Workers, Begin(t) \/ Finish(t) \/ BodyPanics(t) \/ Write(t)
      PROVE  ~Busy(w)' /\ tid'[w] = tid[w]
  <2>1. CASE Begin(t)
    BY <2>1 DEF Begin, Get
  <2>2. CASE Finish(t) \/ BodyPanics(t)
    <3>1. PICK b \in guards[t] : IntoInner(t, b) \/ DropGuard(t, b)
      BY <2>2 DEF Finish, BodyPanics
    <3>2. t # w
      OBVIOUS
    <3> QED
      BY <3>1, <3>2 DEF IntoInner, DropGuard
  <2>3. CASE Write(t)
    BY <2>3 DEF Write, vars
  <2> QED
    BY <1>1, <2>1, <2>2, <2>3
<1>2. ASSUME NEW t \in Threads, UserCodePanics(t)
      PROVE  ~Busy(w)' /\ tid'[w] = tid[w]
  BY <1>2 DEF UserCodePanics, InitPanics, ResetPanics, Moving
<1>3. ASSUME NEW t \in Threads, Progress(t)
      PROVE  ~Busy(w)' /\ tid'[w] = tid[w]
  <2>1. t # w
    BY <1>3
    DEF Progress, PopReserve, Unpark, RunInit, FillInit, Reset, CapAllows, Unclaim, DrainPile,
        DrainSettle, Moving
  <2>2. CASE PopShard(t) \/ PopReserve(t)
    BY <2>1, <2>2 DEF PopShard, PopReserve, Pop, AssignTid
  <2>3. CASE Unpark(t) \/ RunInit(t) \/ FillInit(t)
    BY <2>1, <2>3 DEF Unpark, RunInit, FillInit
  <2>4. CASE Reset(t) \/ CapAllows(t) \/ Unclaim(t)
    BY <2>1, <2>4 DEF Reset, CapAllows, Unclaim, FinishReturn
  <2>5. CASE Push(t)
    BY <2>1, <2>5 DEF Push, FinishReturn, AssignTid
  <2>6. CASE DrainPile(t) \/ DrainSettle(t)
    BY <2>1, <2>6 DEF DrainPile, DrainSettle
  <2> QED
    BY <1>3, <2>2, <2>3, <2>4, <2>5, <2>6 DEF Progress
<1>4. NextRound \/ Leave \/ UNCHANGED jobState => ~Busy(w)' /\ tid'[w] = tid[w]
  BY DEF NextRound, Leave, Drain, vars, jobState
<1> QED
  BY <1>1, <1>2, <1>3, <1>4, JobSteps

\* Hosts are found after every step: a push is hosted by the worker that pushed.
LEMMA HostStep ==
  ASSUME Control, Apart, JobControl, HostInv, [JobNext]_jobState
  PROVE  HostInv'
<1>0. /\ [Next]_vars
      /\ \A t \in Threads : toFill[t] > 0 => t = Main
      /\ \A t \in Workers : t \in Threads /\ toFill[t] = 0
      /\ Main \in Threads
  BY JobUsesPool, JobsAssumption DEF JobControl, WorkerInv, Workers
<1>1. \/ \A t \in Threads : Push(t) => toFill[t] > 0
      \/ \E t \in Workers : Push(t)
  BY DEF Push, Workers, JobControl, MainInv, Filling, FillSteps, ReturnSteps
<1>s. (\A t \in Threads : Push(t) => toFill[t] > 0)
        => \A p \in Shards : Range(pile'[p]) \subseteq Range(pile[p])
  BY <1>0, PilesShrink DEF Shards, Target
<1>2. Filling' => \A p \in Shards : Range(pile'[p]) = {}
  <2>1. Filling => \A t \in Workers : ~Push(t)
    BY DEF Push, JobControl, WorkerInv
  <2>2. Filling' => Filling
    BY FillOnce
  <2> QED
    BY <1>1, <1>s, <2>1, <2>2 DEF HostInv
<1> PICK f \in [Buffers -> Threads] : Hosted(f)
  BY DEF HostInv
<1>3. \E g \in [Buffers -> Threads] : Hosted(g)'
  <2>1. CASE \E t \in Workers : Push(t)
    BY <2>1, PushHosts
  <2>2. CASE \E t \in Threads : PopShard(t)
    BY <2>2, PopHosts
  <2>3. CASE \A t \in Workers : ~Push(t) /\ ~PopShard(t)
    <3>1. \A p \in Shards : Range(pile'[p]) \subseteq Range(pile[p])
      BY <1>1, <1>s, <2>3
    <3>2. Hosted(f)'
      BY <2>3, <3>1, IdleStayIdle, HostsKept
    <3> QED
      BY <3>2
  <2> QED
    BY <1>0, <2>1, <2>2, <2>3
<1> QED
  BY <1>2, <1>3 DEF HostInv

\* Whoever missed in the reserve finds it empty until its buffer is made.
LEMMA ReserveStep ==
  ASSUME Control, Apart, JobControl, ReserveInv, [JobNext]_jobState
  PROVE  ReserveInv'
<1> SUFFICES ASSUME NEW w \in Workers, pc'[w] = "init"
             PROVE  Range(pile'[Reserve]) = {}
  BY DEF ReserveInv
<1>0. /\ [Next]_vars /\ w \in Threads /\ w # Main /\ Reserve \in Piles
      /\ \A t \in Threads : toFill[t] > 0 => t = Main
  BY JobUsesPool, ShardsAssumption DEF Workers, Reserve, Piles, JobControl, WorkerInv
<1>1. Proceeds(w)
  BY <1>0, CallsProceed
<1>2. CASE pc[w] = "pop_reserve"
  <2>1. Step(w) \/ Call(w)
    BY <1>0, <1>2, OwnSteps
  <2>2. PopReserve(w)
    BY <1>2, <2>1
    DEF Step, PopShard, Unpark, RunInit, InitPanics, FillInit, Reset, ResetPanics, CapAllows,
        Unclaim, Push, DrainPile, DrainSettle, Call, Get, Drain, ThreadExit, Prefill, IntoInner,
        DropGuard, Put, SendGuard
  <2>3. pile'[Reserve] = <<>>
    BY <1>0, <2>2 DEF PopReserve, Pop, Control, TypeInv
  <2> QED
    BY <2>3, EmptyPile
<1>3. CASE pc[w] = "init"
  <2>1. Range(pile[Reserve]) = {}
    BY <1>3 DEF ReserveInv
  <2>2. ~Filling
    BY <1>3 DEF JobControl, WorkerInv
  <2>3. \A t \in Threads : Push(t) => Target(t) # Reserve
    BY <1>0, <2>2, ShardIsPile
    DEF Push, Target, Control, Filling, FillSteps, ReturnSteps
  <2> QED
    BY <1>0, <2>1, <2>3, PilesShrink
<1> QED
  BY <1>1, <1>2, <1>3 DEF Proceeds

-----------------------------------------------------------------------------
(* How many buffers a program needs.                                        *)

\* Buffers that were detached are no longer the pool's to keep.
Owned == Live \ loose

\* The pool is as large as what prefill asked for so far, or no larger than its workers.
FitInv ==
  /\ Filling =>
       /\ Cardinality(Owned) + toFill[Main] <= job.prefill + 1
       /\ hand[Main] = NoBuffer => Cardinality(Owned) + toFill[Main] <= job.prefill
  /\ ~Filling => Cardinality(Owned) <= job.prefill \/ Cardinality(Owned) <= Cardinality(Workers)

\* The pool's buffers can be counted.
LEMMA OwnedFinite ==
  ASSUME Control
  PROVE  IsFiniteSet(Owned) /\ Cardinality(Owned) \in Nat
  BY LiveFinite, FS_Subset, FS_CardinalityType DEF Owned

\* Where everyone of S has a place in T that nobody else has, S is no larger.
LEMMA Places ==
  ASSUME NEW S, NEW T, IsFiniteSet(T), NEW R,
         \A c \in S : \E u \in T : <<c, u>> \in R,
         \A u \in T : \A c, d \in S : <<c, u>> \in R /\ <<d, u>> \in R => c = d
  PROVE  Cardinality(S) <= Cardinality(T)
<1> DEFINE g == [c \in S |-> CHOOSE u \in T : <<c, u>> \in R]
<1>1. \A c \in S : g[c] \in T /\ <<c, g[c]>> \in R
  OBVIOUS
<1>2. g \in [S -> T]
  BY <1>1
<1>3. \A c, d \in DOMAIN g : g[c] = g[d] => c = d
  BY <1>1
<1>4. g \in Injection(S, T)
  BY <1>2, <1>3 DEF Injection, IsInjective
<1> QED
  BY <1>4, FS_Injection

\* While a worker makes a buffer, every buffer of the pool is held, or was left
\* behind, by another one.
LEMMA MakerHasNone ==
  ASSUME Control, Apart, JobControl, HostInv, ReserveInv, NEW w \in Workers, pc[w] = "init"
  PROVE  Cardinality(Owned) < Cardinality(Workers)
<1>0. /\ Main \in Threads /\ w \in Threads
      /\ \A u \in Threads : u = Main \/ u \in Workers
      /\ IsFiniteSet(Workers) /\ Cardinality(Workers) \in Nat
      /\ \A u \in Threads : hand[u] # NoBuffer <=> pc[u] \in Moving
      /\ Owned \subseteq Buffers
  <2>1. IsFiniteSet(Workers)
    BY BuffersAssumption, FS_Subset DEF Workers
  <2> QED
    BY <2>1, JobsAssumption, FS_CardinalityType, LiveFinite DEF Workers, Control, HandInv, Owned
<1>1. item[w] # NoItem /\ ~Filling /\ phase # "done" /\ guards[w] = {} /\ hand[w] = NoBuffer
  BY <1>0 DEF JobControl, WorkerInv, ReturnSteps, Moving
<1> PICK f \in [Buffers -> Threads] : Hosted(f)
  BY DEF HostInv
<1> DEFINE InShards(c) == \E p \in Shards : c \in Range(pile[p])
           Holds(u, c) == c \in guards[u] \/ c = hand[u]
           Home(c, u) == IF InShards(c) THEN u = f[c] ELSE Holds(u, c)
           R == {x \in Owned \X Workers : Home(x[1], x[2])}
<1>2. \A c \in Owned : InShards(c) \/ \E u \in Workers : Holds(u, c)
  <2> SUFFICES ASSUME NEW c \in Owned, ~InShards(c)
               PROVE  \E u \in Workers : Holds(u, c)
    OBVIOUS
  <2>1. IsLive(c) /\ c \notin loose /\ c # NoBuffer
    BY <1>0, LiveIs, BuffersAssumption DEF Owned
  <2>2. \A p \in Piles : c \notin Range(pile[p])
    BY <1>0 DEF ReserveInv, Shards
  <2>3. \A u \in Threads : c \notin Range(haul[u])
    <3>1. \A u \in Threads : pc[u] \notin {"drain", "settle"}
      BY <1>0, <1>1 DEF JobControl, MainInv, WorkerInv, LeaseSteps, ReturnSteps
    <3> QED
      BY <3>1, EmptyPile DEF Control, HaulInv
  <2>4. guards[Main] = {} /\ hand[Main] = NoBuffer
    BY <1>0, <1>1 DEF JobControl, MainInv, Filling, FillSteps, ReturnSteps, Moving
  <2> QED
    BY <1>0, <2>1, <2>2, <2>3, <2>4 DEF IsLive
<1>3. \A u \in Workers : \A c, d \in Owned : Holds(u, c) /\ Holds(u, d) => c = d
  <2> SUFFICES ASSUME NEW u \in Workers, NEW c \in Owned, NEW d \in Owned, Holds(u, c), Holds(u, d)
               PROVE  c = d
    OBVIOUS
  <2>1. c # NoBuffer /\ d # NoBuffer /\ u \in Threads
    BY <1>0, BuffersAssumption DEF Workers
  <2>2. guards[u] = {} \/ (pc[u] = "ready" /\ \E b \in Buffers : guards[u] = {b})
    BY DEF JobControl, WorkerInv
  <2>3. pc[u] = "ready" => hand[u] = NoBuffer
    BY <1>0, <2>1 DEF Moving
  <2> QED
    BY <2>1, <2>2, <2>3
<1>4. \A p \in Shards : \A c \in Range(pile[p]) : f[c] \in Workers \ {w} /\ ~Busy(f[c])
  BY DEF Hosted, Busy
<1>5. \A u \in Workers : \A c \in Owned : Holds(u, c) => Busy(u) /\ u # w
  BY <1>0, <1>1, BuffersAssumption DEF Busy
<1>6. \A c \in Owned : \E u \in Workers \ {w} : Home(c, u)
  BY <1>2, <1>4, <1>5
<1>7. \A u \in Workers : \A c, d \in Owned : Home(c, u) /\ Home(d, u) => c = d
  <2> SUFFICES ASSUME NEW u \in Workers, NEW c \in Owned, NEW d \in Owned, Home(c, u), Home(d, u)
               PROVE  c = d
    OBVIOUS
  <2>1. CASE InShards(c) /\ InShards(d)
    BY <2>1 DEF Hosted
  <2>2. CASE ~InShards(c) /\ ~InShards(d)
    BY <1>3, <2>2
  <2>3. CASE InShards(c) /\ ~InShards(d)
    <3>1. u = f[c] /\ ~Busy(u) /\ Holds(u, d)
      BY <1>4, <2>3
    <3> QED
      BY <1>5, <3>1
  <2>4. CASE ~InShards(c) /\ InShards(d)
    <3>1. u = f[d] /\ ~Busy(u) /\ Holds(u, c)
      BY <1>4, <2>4
    <3> QED
      BY <1>5, <3>1
  <2> QED
    BY <2>1, <2>2, <2>3, <2>4
<1> HIDE DEF Home
<1>8. \A c \in Owned : \A u \in Workers : <<c, u>> \in R <=> Home(c, u)
  OBVIOUS
<1> HIDE DEF R
<1>10. /\ IsFiniteSet(Workers \ {w})
       /\ Cardinality(Workers \ {w}) = Cardinality(Workers) - 1
  BY <1>0, FS_RemoveElement
<1>11. Cardinality(Owned) <= Cardinality(Workers \ {w})
  BY <1>6, <1>7, <1>8, <1>10, Places
<1> QED
  BY <1>0, <1>10, <1>11, OwnedFinite

\* What leaves the pool of a program stays outside.
LEMMA LooseGrows ==
  ASSUME Control, JobControl, [JobNext]_jobState
  PROVE  loose \subseteq loose'
<1>1. ASSUME NEW t \in Threads, Progress(t) \/ UserCodePanics(t)
      PROVE  loose \subseteq loose'
  BY <1>1
  DEF Progress, UserCodePanics, PopShard, PopReserve, Unpark, RunInit, FillInit, Reset, CapAllows,
      Unclaim, Push, DrainPile, DrainSettle, InitPanics, ResetPanics
<1>2. ASSUME NEW t \in Workers, Begin(t) \/ Finish(t) \/ BodyPanics(t) \/ Write(t)
      PROVE  loose \subseteq loose'
  BY <1>2 DEF Begin, Get, Finish, BodyPanics, IntoInner, DropGuard, Write, vars
<1>3. NextRound \/ Leave \/ UNCHANGED jobState => UNCHANGED loose
  BY DEF NextRound, Leave, Drain, vars, jobState
<1> QED
  BY <1>1, <1>2, <1>3, JobSteps

\* A program makes buffers only by its initializer.
LEMMA JobMakesNone ==
  ASSUME Control, Apart, JobControl, [JobNext]_jobState,
         \A t \in Threads : ~RunInit(t) /\ ~FillInit(t)
  PROVE  Live' \subseteq Live
<1>0. /\ [Next]_vars /\ \A t \in Workers : t \in Threads
      /\ guards \in [Threads -> SUBSET Buffers]
      /\ hand \in [Threads -> Buffers \cup {NoBuffer}] /\ NoBuffer \notin Buffers
  BY JobUsesPool, BuffersAssumption DEF Control, TypeInv, Workers
<1>1. ASSUME NEW t \in Threads, Progress(t) \/ UserCodePanics(t)
      PROVE  Live' \subseteq Live
  <2>1. Step(t)
    BY <1>1 DEF Progress, UserCodePanics, Step
  <2> QED
    BY <2>1, StepMakesNone
<1>2. ASSUME NEW t \in Workers, Finish(t) \/ BodyPanics(t)
      PROVE  Live' \subseteq Live
  <2>1. PICK b \in guards[t] : IntoInner(t, b) \/ DropGuard(t, b)
    BY <1>2 DEF Finish, BodyPanics
  <2>2. \A c \in Buffers : IsLive(c)' => IsLive(c)
    BY <1>0, <2>1 DEF IntoInner, DropGuard, IsLive
  <2> QED
    BY <1>0, <2>2, NoneMade
<1>3. ASSUME (\E t \in Workers : Begin(t) \/ Write(t)) \/ NextRound \/ Leave \/ UNCHANGED jobState
      PROVE  Live' \subseteq Live
  <2>1. UNCHANGED <<pile, hand, guards, haul, loose>>
    BY <1>3 DEF Begin, Get, Write, NextRound, Leave, Drain, vars, jobState
  <2> QED
    BY <2>1 DEF Live, Parked, InHand, Guarded, Hauled
<1> QED
  BY <1>1, <1>2, <1>3, JobSteps

\* A run is a run of one program.
LEMMA JobFixed ==
  ASSUME [JobNext]_jobState
  PROVE  UNCHANGED job
  BY JobSteps
  DEF Begin, Finish, BodyPanics, Progress, UserCodePanics, Write, NextRound, Leave, jobState, jobVars

\* A worker that makes a buffer finds every other one with another worker.
LEMMA FitStep ==
  ASSUME Control, Apart, JobControl, HostInv, ReserveInv, FitInv, [JobNext]_jobState
  PROVE  FitInv'
<1>0. /\ Main \in Threads /\ \A t \in Threads : t = Main \/ t \in Workers
      /\ toFill[Main] \in Nat /\ toFill'[Main] \in Nat /\ job.prefill \in Nat
      /\ UNCHANGED job /\ loose \subseteq loose' /\ (Filling' => Filling)
      /\ toFill[Main] > 0 <=> Filling
      /\ IsFiniteSet(Owned) /\ Cardinality(Owned) \in Nat
  <2>1. Control'
    BY ControlStep, JobUsesPool
  <2>2. job \in Jobs /\ (toFill[Main] > 0 <=> Filling)
    BY DEF JobControl, MainInv
  <2> QED
    BY <2>1, <2>2, JobsAssumption, ProgramsAssumption, JobFixed, LooseGrows, FillOnce, OwnedFinite
    DEF Control, TypeInv, Workers
<1>1. /\ toFill'[Main] <= toFill[Main]
      /\ Filling /\ hand[Main] # NoBuffer /\ hand'[Main] = NoBuffer => toFill'[Main] < toFill[Main]
  BY FillFalls
<1>2. ASSUME NEW t \in Threads, RunInit(t) \/ FillInit(t)
      PROVE  /\ Cardinality(Owned') <= Cardinality(Owned) + 1
             /\ Cardinality(Owned') \in Nat
  <2>1. PICK b \in Buffers \ Live : Live' \subseteq Live \cup {b}
    BY <1>2, InitMakesOne
  <2>2. Owned' \subseteq Owned \cup {b}
    BY <1>0, <2>1 DEF Owned
  <2>3. /\ IsFiniteSet(Owned \cup {b})
        /\ Cardinality(Owned \cup {b}) = (IF b \in Owned THEN Cardinality(Owned) ELSE Cardinality(Owned) + 1)
    BY <1>0, FS_AddElement
  <2>4. Cardinality(Owned') <= Cardinality(Owned \cup {b}) /\ Cardinality(Owned') \in Nat
    BY <2>2, <2>3, FS_Subset, FS_CardinalityType
  <2> QED
    BY <1>0, <2>3, <2>4
<1>3. ASSUME NEW t \in Threads, RunInit(t)
      PROVE  FitInv'
  <2>1. t \in Workers /\ pc[t] = "init" /\ ~Filling
    BY <1>0, <1>3 DEF RunInit, JobControl, MainInv, WorkerInv, FillSteps, ReturnSteps
  <2>2. Cardinality(Owned) < Cardinality(Workers)
    BY <2>1, MakerHasNone
  <2>3. Cardinality(Workers) \in Nat
    BY BuffersAssumption, FS_Subset, FS_CardinalityType DEF Workers
  <2>4. Cardinality(Owned') <= Cardinality(Workers)
    BY <1>0, <1>2, <1>3, <2>2, <2>3
  <2> QED
    BY <1>0, <2>1, <2>4 DEF FitInv
<1>4. ASSUME NEW t \in Threads, FillInit(t)
      PROVE  FitInv'
  <2>1. t = Main /\ pc[t] = "fill"
    BY <1>0, <1>4 DEF FillInit, JobControl, WorkerInv, LeaseSteps, ReturnSteps
  <2>2. Filling /\ hand[Main] = NoBuffer /\ pc'[Main] = "reset" /\ hand'[Main] # NoBuffer
    BY <1>0, <1>4, <2>1, BuffersAssumption
    DEF FillInit, Control, TypeInv, HandInv, Moving, Filling, FillSteps
  <2>3. Cardinality(Owned) + toFill[Main] <= job.prefill
    BY <2>2 DEF FitInv
  <2>4. Cardinality(Owned') + toFill'[Main] <= job.prefill + 1
    BY <1>0, <1>1, <1>2, <1>4, <2>3
  <2>5. Filling'
    BY <2>2 DEF Filling, FillSteps, ReturnSteps
  <2> QED
    BY <1>0, <2>2, <2>4, <2>5 DEF FitInv
<1>5. ASSUME \A t \in Threads : ~RunInit(t) /\ ~FillInit(t)
      PROVE  FitInv'
  <2>1. Owned' \subseteq Owned
    BY <1>0, <1>5, JobMakesNone DEF Owned
  <2>2. Cardinality(Owned') <= Cardinality(Owned) /\ Cardinality(Owned') \in Nat
    BY <1>0, <2>1, FS_Subset, FS_CardinalityType
  <2>3. Cardinality(Workers) \in Nat
    BY BuffersAssumption, FS_Subset, FS_CardinalityType DEF Workers
  <2>4. CASE ~Filling
    BY <1>0, <2>2, <2>3, <2>4 DEF FitInv
  <2>5. CASE Filling
    <3>1. /\ Cardinality(Owned) + toFill[Main] <= job.prefill + 1
          /\ hand[Main] = NoBuffer => Cardinality(Owned) + toFill[Main] <= job.prefill
          /\ toFill[Main] > 0
      BY <1>0, <2>5 DEF FitInv
    <3>2. /\ Cardinality(Owned') + toFill'[Main] <= job.prefill + 1
          /\ hand'[Main] = NoBuffer => Cardinality(Owned') + toFill'[Main] <= job.prefill
      BY <1>0, <1>1, <2>2, <2>5, <3>1
    <3>3. Cardinality(Owned') <= job.prefill
      BY <1>0, <2>2, <3>1
    <3> QED
      BY <1>0, <3>2, <3>3 DEF FitInv
  <2> QED
    BY <2>4, <2>5
<1> QED
  BY <1>3, <1>4, <1>5

\* The bound, during prefill too.
LEMMA FitBounds ==
  ASSUME Control, JobControl, FitInv
  PROVE  BuffersFitWorkers
<1>1. /\ job.prefill \in Nat /\ toFill[Main] \in Nat /\ Cardinality(Owned) \in Nat
      /\ Filling => toFill[Main] > 0
  BY ProgramsAssumption, JobsAssumption, OwnedFinite DEF JobControl, MainInv, Control, TypeInv
<1> QED
  BY <1>1 DEF FitInv, BuffersFitWorkers, Owned

\* A return finds a free slot where all the buffers of the pool fit under the cap.
LEMMA RecyclingStep ==
  ASSUME Control, Apart, CountExact, JobControl, FitInv, RecyclingIntact, [JobNext]_jobState
  PROVE  RecyclingIntact'
<1>0. [Next]_vars /\ UNCHANGED job
  BY JobUsesPool, JobFixed
<1> SUFFICES ASSUME job.cap = Uncapped \/ (job.cap >= Cardinality(Workers) /\ job.cap >= job.prefill),
                    NEW w \in Threads, pc'[w] = "unclaim"
             PROVE  FALSE
  BY <1>0 DEF RecyclingIntact
<1>1. pc[w] = "cap_allows"
  BY <1>0, CallsProceed DEF Proceeds, RecyclingIntact
<1>2. CapAllows(w)
  <2>1. Step(w) \/ Call(w)
    BY <1>0, <1>1, OwnSteps
  <2> QED
    BY <1>1, <2>1
    DEF Step, PopShard, PopReserve, Unpark, RunInit, InitPanics, FillInit, Reset, ResetPanics,
        Unclaim, Push, DrainPile, DrainSettle, Call, Get, Drain, ThreadExit, Prefill, IntoInner,
        DropGuard, Put, SendGuard
<1>3. cap # Uncapped /\ parked >= cap /\ cap \in Nat /\ cap = job.cap
  BY <1>2, CapsAssumption DEF CapAllows, Full, Control, TypeInv, JobControl, MainInv
<1>4. Counted \subseteq Owned \ {hand[w]} /\ hand[w] \in Owned
  <2>1. hand[w] \in Buffers
    BY <1>1 DEF Control, TypeInv, HandInv, Moving
  <2>2. hand[w] \in Live /\ hand[w] \notin loose
    BY <2>1, BuffersAssumption DEF Live, InHand, Apart, OnePlace
  <2>3. ASSUME NEW c \in Counted
        PROVE  c \in Live /\ c \notin loose /\ c # hand[w]
    <3>1. IsCounted(c) /\ c \in Buffers
      BY <2>3, CountedIs, CountedFinite
    <3>2. c \notin loose /\ IsLive(c)
      BY <3>1 DEF IsCounted, IsLive, Apart, OnePlace
    <3>3. c # hand[w]
      BY <1>1, <3>1 DEF IsCounted, PendingSteps, Apart, OnePlace
    <3> QED
      BY <3>1, <3>2, <3>3, LiveIs
  <2> QED
    BY <2>2, <2>3 DEF Owned
<1>5. /\ IsFiniteSet(Owned \ {hand[w]})
      /\ Cardinality(Owned \ {hand[w]}) = Cardinality(Owned) - 1
  BY <1>4, OwnedFinite, FS_RemoveElement
<1>6. Cardinality(Counted) <= Cardinality(Owned) - 1
  BY <1>4, <1>5, FS_Subset
<1>7. parked = Cardinality(Counted)
  BY <1>3 DEF CountExact
<1>8. Cardinality(Owned) <= job.prefill \/ Cardinality(Owned) <= Cardinality(Workers)
  BY FitBounds DEF BuffersFitWorkers, Owned
<1>9. /\ job.prefill \in Nat /\ Cardinality(Workers) \in Nat /\ Cardinality(Owned) \in Nat
      /\ Cardinality(Counted) \in Nat
  BY ProgramsAssumption, BuffersAssumption, FS_Subset, FS_CardinalityType, OwnedFinite, CountedFinite
  DEF JobControl, MainInv, Workers
<1>10. job.cap >= Cardinality(Workers) /\ job.cap >= job.prefill
  BY <1>3
<1> QED
  BY <1>3, <1>6, <1>7, <1>8, <1>9, <1>10

-----------------------------------------------------------------------------

\* The inductive invariant of the pool's size.
NeedInv == IInv /\ JobControl /\ HostInv /\ ReserveInv /\ FitInv /\ RecyclingIntact

\* It holds at first,
LEMMA NeedStart == JobInit => NeedInv
<1> SUFFICES ASSUME JobInit PROVE NeedInv
  OBVIOUS
<1>1. IInv /\ JobControl
  BY JobStart
<1>2. Main \in Threads /\ \A p \in Piles : pile[p] = <<>>
  BY JobsAssumption DEF JobInit
<1>3. Reserve \in Piles
  BY ShardsAssumption DEF Reserve, Piles
<1>4. HostInv
  <2> DEFINE f == [b \in Buffers |-> Main]
  <2>1. f \in [Buffers -> Threads]
    BY <1>2
  <2>2. \A p \in Shards : Range(pile[p]) = {}
    BY <1>2, EmptyPile DEF Shards
  <2>3. Hosted(f)
    BY <2>2 DEF Hosted
  <2> QED
    BY <2>1, <2>2, <2>3 DEF HostInv
<1>5. ReserveInv
  BY <1>2, <1>3, EmptyPile DEF ReserveInv
<1>6. FitInv
  <2>1. Live = {}
    BY EmptyPile DEF JobInit, Live, Parked, InHand, Guarded, Hauled
  <2>2. Cardinality(Owned) = 0
    BY <2>1, FS_EmptySet DEF Owned
  <2>3. toFill[Main] = job.prefill /\ job.prefill \in Nat
    BY <1>2, ProgramsAssumption DEF JobInit
  <2> QED
    BY <2>2, <2>3 DEF FitInv
<1>7. RecyclingIntact
  BY DEF JobInit, RecyclingIntact
<1> QED
  BY <1>1, <1>4, <1>5, <1>6, <1>7 DEF NeedInv

\* and every step of a program keeps it.
LEMMA NeedStep == NeedInv /\ [JobNext]_jobState => NeedInv'
<1> SUFFICES ASSUME NeedInv, [JobNext]_jobState PROVE NeedInv'
  OBVIOUS
<1>1. Control /\ Apart /\ CountExact
  BY DEF NeedInv, IInv
<1>2. IInv'
  BY <1>1, JobUsesPool, StepKeepsIInv DEF NeedInv
<1> QED
  BY <1>1, <1>2, JobControlStep, HostStep, ReserveStep, FitStep, RecyclingStep DEF NeedInv

\* No program ever owns more buffers than it has workers, or than it prefilled.
THEOREM BuffersSuffice == JobSpec => []BuffersFitWorkers
<1>1. NeedInv => BuffersFitWorkers
  BY FitBounds DEF NeedInv, IInv
<1> QED
  BY <1>1, NeedStart, NeedStep, PTL DEF JobSpec, jobState

\* A cap of the expected worker count never turns a return away.
THEOREM RecyclingStaysIntact == JobSpec => []RecyclingIntact
<1>1. NeedInv => RecyclingIntact
  BY DEF NeedInv
<1> QED
  BY <1>1, NeedStart, NeedStep, PTL DEF JobSpec, jobState

\* The counters agree with the leases and with the memory.
Books == CountersType /\ LeasesAccounted /\ AllocationsBoundMemory

\* The books are right at first,
LEMMA BooksStart == JobInit => Books
<1> SUFFICES ASSUME JobInit PROVE Books
  OBVIOUS
<1>1. CountersType
  BY DEF JobInit, CountersType
<1>2. {t \in Threads : pc[t] \in {"pop_shard", "pop_reserve", "unpark", "init"}} = {}
  <2>1. \A t \in Threads : pc[t] = IF toFill[t] > 0 THEN "fill" ELSE "ready"
    BY DEF JobInit
  <2> QED
    BY <2>1
<1>3. LeasesAccounted
  <2>1. leases = 0 /\ recycled = 0 /\ allocations = 0 /\ filled = 0
    BY DEF JobInit
  <2>2. Cardinality({t \in Threads : pc[t] \in {"pop_shard", "pop_reserve", "unpark", "init"}}) = 0
    BY <1>2, FS_EmptySet
  <2> QED
    BY <2>1, <2>2 DEF LeasesAccounted
<1>4. Live = {}
  BY EmptyPile DEF JobInit, Live, Parked, InHand, Guarded, Hauled
<1> QED
  BY <1>1, <1>3, <1>4, FS_EmptySet DEF Books, JobInit, AllocationsBoundMemory

\* and every step of a program keeps them.
LEMMA BooksStep == NeedInv /\ Books /\ [JobNext]_jobState => Books'
<1> SUFFICES ASSUME NeedInv, CountersType, LeasesAccounted, AllocationsBoundMemory,
                    [JobNext]_jobState
             PROVE  CountersType' /\ LeasesAccounted' /\ AllocationsBoundMemory'
  BY DEF Books
<1>0. Control /\ Apart /\ JobControl /\ pc \in [Threads -> PC] /\ Main \in Threads
  BY JobsAssumption DEF NeedInv, IInv, Control, TypeInv
<1>1. /\ [Next]_vars
      /\ Count \/ (UNCHANGED <<counters, history>> /\ (UNCHANGED vars \/ Drain(Main)))
  BY <1>0, JobUsesPool
<1>2. UNCHANGED vars \/ Drain(Main)
        => \A t \in Threads : pc'[t] = pc[t] \/ (pc[t] = "ready" /\ pc'[t] = "drain")
  BY <1>0 DEF vars, Drain
<1>3. CountersType' /\ LeasesAccounted'
  BY <1>0, <1>1, <1>2, LeaseCountStep DEF LeaseSteps
<1>4. Count \/ (UNCHANGED allocations /\ InitRuns = {})
  BY <1>1, <1>2 DEF counters, InitRuns
<1>5. OnlyInitMakes
  <2>1. ASSUME NEW t \in Threads, RunInit(t) \/ FillInit(t)
        PROVE  OnlyInitMakes
    <3>1. t \in InitRuns
      BY <1>0, <2>1 DEF RunInit, FillInit, InitRuns
    <3> QED
      BY <1>0, <2>1, <3>1, InitMakesOne DEF OnlyInitMakes
  <2> QED
    BY <1>0, <2>1, JobMakesNone DEF OnlyInitMakes
<1> QED
  BY <1>0, <1>1, <1>3, <1>4, <1>5, MemoryStep

\* The counters of a program agree with its leases and with its memory.
THEOREM ProgramCountersAgree == JobSpec => []LeasesAccounted /\ []AllocationsBoundMemory
<1>1. Books => LeasesAccounted /\ AllocationsBoundMemory
  BY DEF Books
<1> QED
  BY <1>1, BooksStart, BooksStep, NeedStart, NeedStep, PTL DEF JobSpec, jobState

-----------------------------------------------------------------------------
(* What the buffers contain.                                                *)

\* Every item is begun by one worker.
ItemsInv ==
  /\ todo \subseteq DOMAIN result
  /\ \A t \in Threads : item[t] # NoItem => item[t] \in DOMAIN result \ todo
  /\ \A t, u \in Threads : item[t] # NoItem /\ item[t] = item[u] => t = u
  /\ round \in Nat \ {0}

\* A buffer that counts as reset is parked, or on its way there or from there.
RestoredInv ==
  \A b \in clean : IsCounted(b) \/ \E t \in Threads : pc[t] = "cap_allows" /\ b = hand[t]

\* What does not exist contains nothing.
FreshInv == \A b \in Buffers : ~IsLive(b) => content[b] = {}

\* A buffer an item may yet lease, or has leased and not written.
Awaits(b) ==
  \/ \E p \in Piles : b \in Range(pile[p])
  \/ \E t \in Threads :
       /\ pc[t] \in {"unpark", "cap_allows", "unclaim", "push"}
       /\ b = hand[t]
  \/ \E t \in Threads \ written : b \in guards[t]

\* Where a hook clears what the items add to, a lease begins with nothing.
ClearedInv ==
  job.adds /\ job.hook => \A b \in Buffers : Awaits(b) => content[b] = {}

\* Where items do not accumulate, each sees its own data only, and what left the
\* pool was detached.
OwnDataInv ==
  ~(job.adds /\ ~job.hook) =>
    /\ \A t \in written : \A b \in guards[t] : content[b] = {item[t]}
    /\ \A k \in DOMAIN result : result[k] \subseteq {k}
    /\ \A b \in loose : \E k \in DOMAIN result : content[b] = {k} /\ result[k] = {k}
    /\ loose # {} => job.detach

\* Items stay apart: an item is taken from those still to do.
LEMMA ItemsStep ==
  ASSUME Control, JobControl, ItemsInv, [JobNext]_jobState
  PROVE  ItemsInv'
<1>0. /\ \A t \in Workers : t \in Threads
      /\ item \in [Threads -> Items \cup {NoItem}]
      /\ NoItem \notin Items /\ todo \subseteq Items
      /\ result \in [DOMAIN result -> SUBSET Items]
  BY JobsAssumption DEF JobControl, JobTypes, Workers
<1> USE <1>0 DEF ItemsInv
<1>1. ASSUME NEW t \in Workers, Begin(t)
      PROVE  ItemsInv'
  <2>1. PICK k \in todo : item' = [item EXCEPT ![t] = k] /\ todo' = todo \ {k}
    BY <1>1 DEF Begin
  <2> QED
    BY <1>1, <2>1 DEF Begin
<1>2. ASSUME NEW t \in Workers, Finish(t)
      PROVE  ItemsInv'
  <2>1. DOMAIN result' = DOMAIN result
    BY <1>2 DEF Finish
  <2> QED
    BY <1>2, <2>1 DEF Finish
<1>3. ASSUME NEW t \in Threads, BodyPanics(t) \/ UserCodePanics(t)
      PROVE  ItemsInv'
  BY <1>3 DEF BodyPanics, UserCodePanics, Unwind
<1>4. ASSUME (\E t \in Threads : Progress(t) \/ Write(t)) \/ Leave \/ UNCHANGED jobState
      PROVE  ItemsInv'
  BY <1>4 DEF Progress, Write, Leave, jobState, jobVars
<1>5. ASSUME NextRound
      PROVE  ItemsInv'
  BY <1>5 DEF NextRound, Joined
<1> QED
  BY <1>1, <1>2, <1>3, <1>4, <1>5, JobSteps

\* A buffer is reset once per return; whoever gets it takes it out of the clean.
LEMMA RestoredStep ==
  ASSUME Control, Apart, JobControl, RestoredInv, [JobNext]_jobState
  PROVE  RestoredInv'
<1>0. /\ \A t \in Workers : t \in Threads
      /\ pc \in [Threads -> PC]
      /\ guards \in [Threads -> SUBSET Buffers]
      /\ hand \in [Threads -> Buffers \cup {NoBuffer}]
      /\ pile \in [Piles -> Seq(Buffers)] /\ haul \in [Threads -> Seq(Buffers)]
      /\ clean \subseteq Buffers
      /\ at \in [Threads -> Piles]
      /\ NoBuffer \notin Buffers
      /\ \A t \in Threads : hand[t] # NoBuffer <=> pc[t] \in Moving
      /\ Reserve \in Piles
  BY BuffersAssumption, ShardsAssumption DEF Control, TypeInv, HandInv, Workers, Piles, Reserve
<1>k. ASSUME UNCHANGED clean, \A b \in Buffers : IsCounted(b) => IsCounted(b)',
             \A t \in Threads : pc[t] = "cap_allows" => pc'[t] = "cap_allows" /\ hand'[t] = hand[t]
      PROVE  RestoredInv'
  <2> SUFFICES ASSUME NEW b \in clean
               PROVE  IsCounted(b)' \/ \E t \in Threads : pc'[t] = "cap_allows" /\ b = hand'[t]
    BY <1>k DEF RestoredInv
  <2>1. IsCounted(b) \/ \E t \in Threads : pc[t] = "cap_allows" /\ b = hand[t]
    BY DEF RestoredInv
  <2>2. b \in Buffers
    BY <1>0
  <2> QED
    BY <1>k, <2>1, <2>2
<1>1. ASSUME NEW t \in Threads, PopShard(t) \/ PopReserve(t)
      PROVE  RestoredInv'
  <2>1. \A b : IsCounted(b)' <=> IsCounted(b)
    <3>1. CASE PopShard(t)
      BY <3>1, ShardIsPile, PopCounted DEF PopShard, Control
    <3>2. CASE PopReserve(t)
      BY <1>0, <3>2, PopCounted DEF PopReserve
    <3> QED
      BY <1>1, <3>1, <3>2
  <2>2. \A u \in Threads : pc[u] = "cap_allows" => pc'[u] = "cap_allows" /\ hand'[u] = hand[u]
    BY <1>0, <1>1 DEF PopShard, PopReserve, Pop
  <2> QED
    BY <1>1, <1>k, <2>1, <2>2 DEF PopShard, PopReserve
<1>2. ASSUME NEW t \in Threads, Unpark(t) \/ Unclaim(t)
      PROVE  RestoredInv'
  <2>1. /\ pc[t] \in PendingSteps /\ UNCHANGED <<pile, haul>>
        /\ clean' = clean \ {hand[t]}
        /\ hand' = [hand EXCEPT ![t] = NoBuffer]
    BY <1>2 DEF Unpark, Unclaim, FinishReturn, PendingSteps
  <2>2. \A u \in Threads \ {t} : pc'[u] = pc[u] /\ hand'[u] = hand[u]
    BY <1>0, <1>2 DEF Unpark, Unclaim, FinishReturn
  <2>3. \A b \in clean' : IsCounted(b) => IsCounted(b)'
    BY <1>0, <2>1, <2>2 DEF IsCounted
  <2> SUFFICES ASSUME NEW b \in clean'
               PROVE  IsCounted(b)' \/ \E u \in Threads : pc'[u] = "cap_allows" /\ b = hand'[u]
    BY DEF RestoredInv
  <2>4. b \in clean /\ b # hand[t]
    BY <2>1
  <2>5. IsCounted(b) \/ \E u \in Threads : pc[u] = "cap_allows" /\ b = hand[u]
    BY <2>4 DEF RestoredInv
  <2>6. CASE IsCounted(b)
    BY <2>3, <2>6
  <2>7. CASE \E u \in Threads : pc[u] = "cap_allows" /\ b = hand[u]
    BY <2>2, <2>4, <2>7
  <2> QED
    BY <2>5, <2>6, <2>7
<1>3. ASSUME NEW t \in Threads, Reset(t)
      PROVE  RestoredInv'
  <2>1. /\ pc[t] = "reset" /\ pc'[t] = "cap_allows" /\ UNCHANGED <<pile, haul, hand>>
        /\ clean' \subseteq clean \cup {hand[t]}
        /\ \A u \in Threads \ {t} : pc'[u] = pc[u]
    BY <1>0, <1>3 DEF Reset
  <2>2. \A b : IsCounted(b) => IsCounted(b)'
    BY <2>1 DEF IsCounted, PendingSteps
  <2> QED
    BY <2>1, <2>2 DEF RestoredInv
<1>4. ASSUME NEW t \in Threads, CapAllows(t)
      PROVE  RestoredInv'
  <2>1. /\ pc[t] = "cap_allows" /\ pc'[t] \in {"push", "unclaim"} /\ UNCHANGED <<pile, haul, hand, clean>>
        /\ \A u \in Threads \ {t} : pc'[u] = pc[u]
    BY <1>0, <1>4 DEF CapAllows
  <2>2. \A b : IsCounted(b) => IsCounted(b)'
    BY <2>1 DEF IsCounted, PendingSteps
  <2>3. IsCounted(hand[t])'
    BY <2>1 DEF IsCounted, PendingSteps
  <2>4. \A u \in Threads : \A b : pc[u] = "cap_allows" /\ b = hand[u]
          => \/ pc'[u] = "cap_allows" /\ b = hand'[u]
             \/ pc'[u] \in PendingSteps /\ b = hand'[u]
    BY <2>1 DEF PendingSteps
  <2> QED
    BY <2>1, <2>2, <2>4 DEF RestoredInv, IsCounted
<1>5. ASSUME NEW t \in Threads, Push(t)
      PROVE  RestoredInv'
  <2>1. Parked' = Parked \cup {hand[t]}
    BY <1>5, PushParks
  <2>2. /\ pc[t] = "push" /\ UNCHANGED <<haul, clean>>
        /\ \A u \in Threads \ {t} : pc'[u] = pc[u] /\ hand'[u] = hand[u]
    BY <1>0, <1>5 DEF Push, FinishReturn
  <2>3. /\ \A b : b \in Parked <=> \E p \in Piles : b \in Range(pile[p])
        /\ \A b : b \in Parked' <=> \E p \in Piles : b \in Range(pile'[p])
    BY DEF Parked
  <2>4. \A b : IsCounted(b) => IsCounted(b)'
    BY <2>1, <2>2, <2>3 DEF IsCounted
  <2> QED
    BY <1>k, <2>2, <2>4
<1>6. ASSUME NEW t \in Threads, DrainPile(t)
      PROVE  RestoredInv'
  <2>1. /\ haul' = [haul EXCEPT ![t] = haul[t] \o pile[at[t]]]
        /\ pile' = [pile EXCEPT ![at[t]] = <<>>]
        /\ pc[t] = "drain" /\ UNCHANGED <<hand, clean>>
        /\ \A u \in Threads \ {t} : pc'[u] = pc[u]
    BY <1>0, <1>6 DEF DrainPile
  <2>2. Range(haul[t] \o pile[at[t]]) = Range(haul[t]) \cup Range(pile[at[t]])
    BY <1>0, RangeConcatenation
  <2>3. \A b \in Buffers : IsCounted(b) => IsCounted(b)'
    <3>1. /\ \A p \in Piles : p # at[t] => pile'[p] = pile[p]
          /\ Range(haul'[t]) = Range(haul[t]) \cup Range(pile[at[t]])
          /\ \A u \in Threads \ {t} : haul'[u] = haul[u]
      BY <1>0, <2>1, <2>2
    <3> QED
      BY <2>1, <3>1 DEF IsCounted, PendingSteps
  <2> QED
    BY <1>k, <2>1, <2>3
<1>7. ASSUME NEW t \in Threads, DrainSettle(t)
      PROVE  RestoredInv'
  <2>1. /\ haul' = [haul EXCEPT ![t] = <<>>] /\ clean' = clean \ Range(haul[t])
        /\ pc[t] = "settle" /\ UNCHANGED <<hand, pile>>
        /\ \A u \in Threads \ {t} : pc'[u] = pc[u]
    BY <1>0, <1>7 DEF DrainSettle
  <2>2. \A b \in clean' : IsCounted(b) => IsCounted(b)'
    BY <1>0, <2>1 DEF IsCounted, PendingSteps
  <2> QED
    BY <2>1, <2>2 DEF RestoredInv
<1>8. ASSUME NEW t \in Threads, RunInit(t) \/ FillInit(t) \/ InitPanics(t) \/ ResetPanics(t)
      PROVE  RestoredInv'
  <2>1. /\ pc[t] \in {"init", "fill", "reset"} /\ UNCHANGED <<pile, haul, clean>>
        /\ \A u \in Threads \ {t} : pc'[u] = pc[u] /\ hand'[u] = hand[u]
    BY <1>0, <1>8 DEF RunInit, FillInit, InitPanics, ResetPanics
  <2>2. \A b : IsCounted(b) => IsCounted(b)'
    BY <2>1 DEF IsCounted, PendingSteps
  <2> QED
    BY <1>k, <2>1, <2>2
<1>9. ASSUME NEW t \in Workers, Begin(t) \/ Finish(t) \/ BodyPanics(t)
      PROVE  RestoredInv'
  <2>1. /\ t \in Threads /\ pc[t] = "ready" /\ UNCHANGED <<pile, haul, clean>>
        /\ \A u \in Threads \ {t} : pc'[u] = pc[u] /\ hand'[u] = hand[u]
    BY <1>0, <1>9 DEF Begin, Get, Finish, BodyPanics, IntoInner, DropGuard
  <2>2. \A b : IsCounted(b) => IsCounted(b)'
    BY <2>1 DEF IsCounted, PendingSteps
  <2> QED
    BY <1>k, <2>1, <2>2
<1>10. ASSUME (\E t \in Workers : Write(t)) \/ NextRound \/ Leave \/ UNCHANGED jobState
       PROVE  RestoredInv'
  <2>1. /\ UNCHANGED <<pile, haul, clean, hand>>
        /\ \A u \in Threads : pc'[u] = pc[u] \/ (pc[u] = "ready" /\ pc'[u] = "drain")
    BY <1>0, <1>10 DEF Write, NextRound, Leave, Drain, vars, jobState
  <2>2. \A b : IsCounted(b) => IsCounted(b)'
    BY <2>1 DEF IsCounted, PendingSteps
  <2> QED
    BY <1>k, <2>1, <2>2
<1> QED
  BY <1>1, <1>2, <1>3, <1>4, <1>5, <1>6, <1>7, <1>8, <1>9, <1>10, JobSteps
  DEF Progress, UserCodePanics

\* What a step inside a call does to contents: only the buffer it resets, or
\* lets go, loses them.
LEMMA ContentFlow ==
  ASSUME Control, JobControl, NEW t \in Threads, Progress(t) \/ UserCodePanics(t), NEW b \in Buffers
  PROVE  /\ content'[b] = {} \/ content'[b] = content[b]
         /\ ~IsLive(b)' => content'[b] = {}
         /\ IsLive(b)' /\ (\A u \in Threads : b # hand[u]) => content'[b] = content[b]
         /\ IsLive(b)' /\ ~hook => content'[b] = content[b]
<1>1. content'[b] = IF b \notin Live' \/ b \in clean' \ clean THEN {} ELSE content[b]
  BY DEF Progress, UserCodePanics, Contents
<1>2. b \in Live' <=> IsLive(b)'
  BY LiveIs
<1>3. b \in clean' \ clean => b = hand[t] /\ hook
  <2>1. CASE Reset(t)
    BY <2>1 DEF Reset
  <2>2. CASE clean' \subseteq clean
    BY <2>2
  <2> QED
    BY <2>1, <2>2
    DEF Progress, UserCodePanics, PopShard, PopReserve, Unpark, RunInit, FillInit, CapAllows,
        Unclaim, Push, DrainPile, DrainSettle, InitPanics, ResetPanics
<1> QED
  BY <1>1, <1>2, <1>3

\* What a program does outside the calls of the pool.
Outside ==
  \/ \E t \in Workers : Begin(t) \/ Finish(t) \/ BodyPanics(t) \/ Write(t)
  \/ NextRound \/ Leave \/ UNCHANGED jobState

\* Outside the calls buffers only change hands.
LEMMA BodySteps ==
  ASSUME Control, JobControl, Outside
  PROVE  /\ UNCHANGED <<pile, haul, clean>>
         /\ \A b \in Buffers : IsLive(b)' <=> IsLive(b)
<1>0. /\ guards \in [Threads -> SUBSET Buffers]
      /\ hand \in [Threads -> Buffers \cup {NoBuffer}] /\ NoBuffer \notin Buffers
      /\ \A t \in Threads : hand[t] # NoBuffer <=> pc[t] \in Moving
      /\ \A t \in Workers : t \in Threads
  BY BuffersAssumption DEF Control, TypeInv, HandInv, Workers
<1>1. ASSUME NEW t \in Workers, Finish(t) \/ BodyPanics(t)
      PROVE  /\ UNCHANGED <<pile, haul, clean>>
             /\ \A b \in Buffers : IsLive(b)' <=> IsLive(b)
  <2>1. PICK b \in guards[t] : IntoInner(t, b) \/ DropGuard(t, b)
    BY <1>1 DEF Finish, BodyPanics
  <2>2. CASE IntoInner(t, b)
    <3>1. \A c \in Buffers : IsLive(c) => IsLive(c)'
      BY <1>0, <2>2 DEF IntoInner, IsLive
    <3>2. \A c \in Buffers : IsLive(c)' => IsLive(c)
      BY <1>0, <2>1, <2>2 DEF IntoInner, IsLive
    <3> QED
      BY <2>2, <3>1, <3>2 DEF IntoInner
  <2>3. CASE DropGuard(t, b)
    <3>1. \A c \in Buffers : IsLive(c) => IsLive(c)'
      BY <1>0, <2>3 DEF DropGuard, IsLive, Moving
    <3>2. \A c \in Buffers : IsLive(c)' => IsLive(c)
      BY <1>0, <2>1, <2>3 DEF DropGuard, IsLive
    <3> QED
      BY <2>3, <3>1, <3>2 DEF DropGuard
  <2> QED
    BY <2>1, <2>2, <2>3
<1>2. ASSUME (\E t \in Workers : Begin(t) \/ Write(t)) \/ NextRound \/ Leave \/ UNCHANGED jobState
      PROVE  /\ UNCHANGED <<pile, haul, clean>>
             /\ \A b \in Buffers : IsLive(b)' <=> IsLive(b)
  <2>1. UNCHANGED <<pile, hand, guards, haul, loose, clean>>
    BY <1>2 DEF Begin, Get, Write, NextRound, Leave, Drain, vars, jobState
  <2> QED
    BY <2>1 DEF IsLive
<1> QED
  BY <1>1, <1>2 DEF Outside

\* What does not exist stays empty: only guarded buffers are written.
LEMMA FreshStep ==
  ASSUME Control, JobControl, FreshInv, [JobNext]_jobState
  PROVE  FreshInv'
<1> SUFFICES ASSUME NEW b \in Buffers, ~IsLive(b)'
             PROVE  content'[b] = {}
  BY DEF FreshInv
<1>1. ASSUME NEW t \in Threads, Progress(t) \/ UserCodePanics(t)
      PROVE  content'[b] = {}
  BY <1>1, ContentFlow
<1>2. ASSUME Outside
      PROVE  content'[b] = {}
  <2>1. ~IsLive(b) /\ content[b] = {}
    BY <1>2, BodySteps DEF FreshInv
  <2>2. content'[b] = content[b]
    <3>1. ASSUME NEW t \in Workers, Write(t) \/ BodyPanics(t)
          PROVE  content'[b] = content[b]
      <4>1. PICK c \in guards[t] : \E x : content' = [content EXCEPT ![c] = x]
        BY <3>1 DEF Write, BodyPanics
      <4>2. c # b
        BY <2>1 DEF IsLive, Workers
      <4> QED
        BY <4>1, <4>2 DEF JobControl, JobTypes
    <3> QED
      BY <1>2, <3>1 DEF Outside, Begin, Finish, NextRound, Leave, jobState, jobVars
  <2> QED
    BY <2>1, <2>2
<1> QED
  BY <1>1, <1>2, JobSteps DEF Outside

\* A reset clears the buffer in hand, whatever was in it.
LEMMA ResetClears ==
  ASSUME Control, Apart, JobControl, RestoredInv, job.hook, NEW t \in Threads, Progress(t), Reset(t)
  PROVE  content'[hand[t]] = {}
<1>1. hand[t] \in Buffers /\ pc[t] = "reset"
  BY DEF Reset, Control, TypeInv, HandInv, Moving
<1>2. ~IsCounted(hand[t]) /\ \A u \in Threads : hand[u] = hand[t] => u = t
  BY <1>1 DEF IsCounted, PendingSteps, Apart, OnePlace
<1>3. hand[t] \notin clean
  BY <1>1, <1>2 DEF RestoredInv
<1>4. clean' = clean \cup {hand[t]}
  BY DEF Reset, JobControl, MainInv
<1> QED
  BY <1>1, <1>3, <1>4 DEF Progress, Contents

\* What awaits an item after a step inside a call did so before it, or is new, or
\* was just reset.
LEMMA AwaitsFlow ==
  ASSUME Control, Apart, JobControl, ~job.drains, NEW t \in Threads,
         Progress(t) \/ UserCodePanics(t), NEW b \in Buffers, Awaits(b)'
  PROVE  Awaits(b) \/ ~IsLive(b) \/ (Reset(t) /\ b = hand[t])
<1>0. /\ pc \in [Threads -> PC]
      /\ guards \in [Threads -> SUBSET Buffers]
      /\ hand \in [Threads -> Buffers \cup {NoBuffer}]
      /\ pile \in [Piles -> Seq(Buffers)]
      /\ at \in [Threads -> Piles]
      /\ NoBuffer \notin Buffers
      /\ \A p \in Piles : IsInjective(pile[p])
      /\ Shard(t) \in Piles /\ Reserve \in Piles
      /\ written' = written
  <2>1. Shard(t) \in Piles /\ Reserve \in Piles
    BY ShardsAssumption, ShardIsPile DEF Control, Piles, Reserve
  <2>2. written' = written
    BY DEF Progress, UserCodePanics
  <2> QED
    BY <2>1, <2>2, BuffersAssumption DEF Control, TypeInv, Apart
<1> USE DEF Awaits
<1>1. ASSUME NEW p \in Piles, NEW miss \in {"pop_reserve", "init"}, Pop(t, p, miss), UNCHANGED guards
      PROVE  Awaits(b)
  <2>1. CASE pile[p] = <<>>
    BY <1>0, <1>1, <2>1 DEF Pop
  <2>2. CASE pile[p] # <<>>
    <3>1. /\ Last(pile[p]) \in Range(pile[p])
          /\ Range(Front(pile[p])) \subseteq Range(pile[p])
      BY <1>0, <2>2, PopRange
    <3>2. /\ pc' = [pc EXCEPT ![t] = "unpark"]
          /\ hand' = [hand EXCEPT ![t] = Last(pile[p])]
          /\ pile' = [pile EXCEPT ![p] = Front(pile[p])]
      BY <1>1, <2>2 DEF Pop
    <3> QED
      BY <1>0, <1>1, <3>1, <3>2
  <2> QED
    BY <2>1, <2>2
<1>2. CASE PopShard(t)
  BY <1>0, <1>1, <1>2 DEF PopShard
<1>3. CASE PopReserve(t)
  BY <1>0, <1>1, <1>3 DEF PopReserve
<1>4. CASE Unpark(t)
  BY <1>0, <1>4 DEF Unpark
<1>5. CASE RunInit(t)
  <2>1. PICK c \in Buffers \ Live : guards' = [guards EXCEPT ![t] = @ \cup {c}]
    BY <1>5 DEF RunInit
  <2>2. c = b => ~IsLive(b)
    BY <2>1, LiveIs
  <2> QED
    BY <1>0, <1>5, <2>1, <2>2 DEF RunInit
<1>6. CASE FillInit(t)
  BY <1>0, <1>6 DEF FillInit
<1>7. CASE Reset(t)
  BY <1>0, <1>7 DEF Reset
<1>8. CASE CapAllows(t)
  BY <1>0, <1>8 DEF CapAllows
<1>9. CASE Unclaim(t) \/ InitPanics(t) \/ ResetPanics(t)
  BY <1>0, <1>9 DEF Unclaim, FinishReturn, InitPanics, ResetPanics
<1>10. CASE Push(t)
  <2>1. Parked' = Parked \cup {hand[t]}
    BY <1>10, PushParks
  <2>2. /\ \A c : c \in Parked <=> \E p \in Piles : c \in Range(pile[p])
        /\ \A c : c \in Parked' <=> \E p \in Piles : c \in Range(pile'[p])
    BY DEF Parked
  <2>3. /\ pc[t] = "push" /\ hand'[t] = NoBuffer /\ UNCHANGED guards
        /\ \A u \in Threads \ {t} : pc'[u] = pc[u] /\ hand'[u] = hand[u]
    BY <1>0, <1>10 DEF Push, FinishReturn
  <2> QED
    BY <1>0, <2>1, <2>2, <2>3
<1>11. CASE DrainPile(t) \/ DrainSettle(t)
  <2>1. pc[t] \in {"drain", "settle"}
    BY <1>11 DEF DrainPile, DrainSettle
  <2> QED
    BY <2>1, JobsAssumption DEF JobControl, MainInv, WorkerInv, Workers, LeaseSteps, ReturnSteps
<1> QED
  BY <1>2, <1>3, <1>4, <1>5, <1>6, <1>7, <1>8, <1>9, <1>10, <1>11 DEF Progress, UserCodePanics

\* What may be leased stays empty: a written buffer passes the hook before it is parked.
LEMMA ClearedStep ==
  ASSUME Control, Apart, JobControl, RestoredInv, FreshInv, ClearedInv, [JobNext]_jobState
  PROVE  ClearedInv'
<1>0. /\ UNCHANGED job /\ (job.drains => ~job.hook)
      /\ guards \in [Threads -> SUBSET Buffers]
      /\ hand \in [Threads -> Buffers \cup {NoBuffer}]
      /\ pc \in [Threads -> PC] /\ written \subseteq Workers
      /\ content \in [Buffers -> SUBSET Items]
      /\ \A t \in Workers : t \in Threads
  BY JobFixed, ProgramsAssumption DEF Control, TypeInv, JobControl, MainInv, JobTypes, Workers
<1> SUFFICES ASSUME job.adds, job.hook, NEW b \in Buffers, Awaits(b)'
             PROVE  content'[b] = {}
  BY <1>0 DEF ClearedInv
<1>1. ASSUME NEW t \in Threads, Progress(t) \/ UserCodePanics(t)
      PROVE  content'[b] = {}
  <2>1. Awaits(b) \/ ~IsLive(b) \/ (Reset(t) /\ b = hand[t])
    BY <1>0, <1>1, AwaitsFlow
  <2>2. CASE Awaits(b) \/ ~IsLive(b)
    BY <1>1, <2>2, ContentFlow DEF ClearedInv, FreshInv
  <2>3. CASE Reset(t) /\ b = hand[t]
    <3>1. Progress(t)
      BY <1>0, <1>1, <2>3 DEF UserCodePanics, InitPanics, ResetPanics, Reset
    <3> QED
      BY <2>3, <3>1, ResetClears
  <2> QED
    BY <2>1, <2>2, <2>3
<1>2. ASSUME NEW t \in Workers, Begin(t)
      PROVE  content'[b] = {}
  <2>1. Awaits(b)
    BY <1>0, <1>2 DEF Begin, Get, Awaits
  <2> QED
    BY <1>2, <2>1 DEF Begin, ClearedInv
<1>3. ASSUME NEW t \in Workers, Write(t)
      PROVE  content'[b] = {}
  <2>1. PICK c \in guards[t] : \E x : content' = [content EXCEPT ![c] = x]
    BY <1>3 DEF Write
  <2>2. /\ pc[t] = "ready" /\ written' = written \cup {t} /\ t \notin written
        /\ UNCHANGED <<pile, pc, hand, guards>>
    BY <1>3 DEF Write, HoldsLease, vars
  <2>3. Awaits(b) /\ b # c
    BY <1>0, <2>1, <2>2, BuffersAssumption DEF Awaits, Apart, OnePlace
  <2> QED
    BY <1>0, <2>1, <2>3 DEF ClearedInv
<1>4. ASSUME NEW t \in Workers, Finish(t) \/ BodyPanics(t)
      PROVE  content'[b] = {}
  <2>1. PICK c \in guards[t] : /\ IntoInner(t, c) \/ DropGuard(t, c)
                             /\ \/ content' = content
                                \/ \E x : content' = [content EXCEPT ![c] = x]
    BY <1>4 DEF Finish, BodyPanics
  <2>2. guards[t] = {c} /\ pc[t] = "ready"
    BY <1>4, <2>1 DEF Finish, BodyPanics, HoldsLease, JobControl, WorkerInv
  <2>3. /\ guards' = [guards EXCEPT ![t] = {}] /\ written \ {t} = written' \ {t} /\ UNCHANGED pile
        /\ \A u \in Threads \ {t} : pc'[u] = pc[u] /\ hand'[u] = hand[u]
        /\ pc'[t] \in {"ready", "reset"}
    BY <1>0, <1>4, <2>1, <2>2 DEF IntoInner, DropGuard, Finish, BodyPanics
  <2>4. Awaits(b) /\ b # c
    BY <1>0, <2>1, <2>2, <2>3, BuffersAssumption DEF Awaits, Apart, OnePlace
  <2> QED
    BY <1>0, <2>1, <2>4 DEF ClearedInv
<1>5. ASSUME NextRound \/ Leave \/ UNCHANGED jobState
      PROVE  content'[b] = {}
  <2>1. /\ UNCHANGED <<pile, hand, guards, written, content>>
        /\ \A u \in Threads : pc'[u] = pc[u] \/ pc'[u] = "drain"
    BY <1>0, <1>5 DEF NextRound, Leave, Drain, vars, jobState, jobVars
  <2>2. Awaits(b)
    BY <2>1 DEF Awaits
  <2> QED
    BY <2>1, <2>2 DEF ClearedInv
<1> QED
  BY <1>1, <1>2, <1>3, <1>4, <1>5, JobSteps

\* A written buffer keeps its item's data alone until it is written again.
LEMMA OwnDataStep ==
  ASSUME Control, Apart, JobControl, ItemsInv, ClearedInv, OwnDataInv, [JobNext]_jobState
  PROVE  OwnDataInv'
<1>0. /\ UNCHANGED job
      /\ guards \in [Threads -> SUBSET Buffers] /\ loose \subseteq Buffers
      /\ item \in [Threads -> Items \cup {NoItem}]
      /\ written \subseteq Workers
      /\ content \in [Buffers -> SUBSET Items]
      /\ result \in [DOMAIN result -> SUBSET Items]
      /\ \A t \in Workers : t \in Threads
      /\ \A t \in written : pc[t] = "ready" /\ item[t] # NoItem
  BY JobFixed DEF Control, TypeInv, JobControl, JobTypes, WorkerInv, Workers
<1> DEFINE Kept == /\ \A u \in written' : \A b \in guards'[u] : content'[b] = {item'[u]}
                   /\ \A k \in DOMAIN result' : result'[k] \subseteq {k}
                   /\ \A b \in loose' : \E k \in DOMAIN result' : content'[b] = {k} /\ result'[k] = {k}
                   /\ loose' # {} => job.detach
<1> SUFFICES ASSUME ~(job.adds /\ ~job.hook)
             PROVE  Kept
  BY <1>0 DEF OwnDataInv
<1>a. /\ \A t \in written : \A b \in guards[t] : content[b] = {item[t]}
      /\ \A k \in DOMAIN result : result[k] \subseteq {k}
      /\ \A b \in loose : \E k \in DOMAIN result : content[b] = {k} /\ result[k] = {k}
      /\ loose # {} => job.detach
  BY DEF OwnDataInv
<1>b. \* Guards and loose buffers are apart.
      /\ \A b \in loose : \A t \in Threads : b \notin guards[t] /\ b # hand[t]
      /\ \A t, u \in Threads : \A b \in guards[t] : b # hand[u] /\ (b \in guards[u] => t = u)
  BY <1>0 DEF Apart, OnePlace
<1>1. ASSUME NEW t \in Threads, Progress(t) \/ UserCodePanics(t)
      PROVE  Kept
  <2>1. pc[t] # "ready" /\ UNCHANGED <<written, result>>
    BY <1>1
    DEF Progress, UserCodePanics, PopShard, PopReserve, Unpark, RunInit, FillInit, Reset,
        CapAllows, Unclaim, Push, DrainPile, DrainSettle, InitPanics, ResetPanics
  <2>2. \A u \in written : u # t /\ guards'[u] = guards[u] /\ item'[u] = item[u]
    BY <1>0, <1>1, <2>1
    DEF Progress, UserCodePanics, Unwind, PopShard, PopReserve, Unpark, RunInit, FillInit, Reset,
        CapAllows, Unclaim, Push, DrainPile, DrainSettle, InitPanics, ResetPanics
  <2>3. loose' = loose
    <3>1. ~DrainSettle(t)
      BY <1>0, JobsAssumption, ProgramsAssumption
      DEF DrainSettle, JobControl, MainInv, WorkerInv, Workers, LeaseSteps, ReturnSteps
    <3> QED
      BY <1>1, <3>1
      DEF Progress, UserCodePanics, PopShard, PopReserve, Unpark, RunInit, FillInit, Reset,
          CapAllows, Unclaim, Push, DrainPile, InitPanics, ResetPanics
  <2>4. \A u \in written : \A b \in guards[u] : content'[b] = content[b]
    <3> SUFFICES ASSUME NEW u \in written, NEW b \in guards[u] PROVE content'[b] = content[b]
      OBVIOUS
    <3>1. b \in Buffers /\ u \in Threads /\ IsLive(b)' /\ \A v \in Threads : b # hand[v]
      BY <1>0, <1>b, <2>2 DEF IsLive
    <3> QED
      BY <1>1, <3>1, ContentFlow
  <2>5. \A b \in loose : content'[b] = content[b]
    <3> SUFFICES ASSUME NEW b \in loose PROVE content'[b] = content[b]
      OBVIOUS
    <3>1. b \in Buffers /\ IsLive(b)' /\ \A v \in Threads : b # hand[v]
      BY <1>0, <1>b, <2>3 DEF IsLive
    <3> QED
      BY <1>1, <3>1, ContentFlow
  <2> QED
    BY <1>a, <2>1, <2>2, <2>3, <2>4, <2>5
<1>2. ASSUME NEW t \in Workers, Write(t)
      PROVE  Kept
  <2>1. PICK c \in guards[t] :
          content' = [content EXCEPT ![c] = {item[t]} \cup (IF job.adds THEN content[c] ELSE {})]
    BY <1>2 DEF Write
  <2>2. /\ written' = written \cup {t} /\ t \notin written
        /\ UNCHANGED <<guards, loose, item, result>>
    BY <1>2 DEF Write, vars
  <2>3. guards[t] = {c} /\ c \in Buffers
    BY <1>0, <1>2, <2>1 DEF Write, HoldsLease, JobControl, WorkerInv
  <2>4. job.adds => content[c] = {}
    BY <1>0, <2>2, <2>3 DEF ClearedInv, Awaits
  <2>5. content'[c] = {item[t]}
    BY <1>0, <2>1, <2>3, <2>4
  <2>6. \A b \in Buffers : b # c => content'[b] = content[b]
    BY <1>0, <2>1
  <2>7. \A u \in written : \A b \in guards[u] : b \in Buffers /\ b # c
    BY <1>0, <1>b, <2>1, <2>2
  <2>8. \A b \in loose : b \in Buffers /\ b # c
    BY <1>0, <1>b, <2>1
  <2> QED
    BY <1>a, <2>2, <2>3, <2>5, <2>6, <2>7, <2>8
<1>3. ASSUME NEW t \in Workers, Finish(t)
      PROVE  Kept
  <2>1. PICK c \in guards[t] : /\ result' = [result EXCEPT ![item[t]] = content[c]]
                             /\ IF job.detach THEN IntoInner(t, c) ELSE DropGuard(t, c)
    BY <1>3 DEF Finish
  <2>2. /\ t \in written /\ t \in Threads /\ item[t] # NoItem
        /\ item' = [item EXCEPT ![t] = NoItem] /\ written' = written \ {t}
        /\ UNCHANGED content
    BY <1>0, <1>3 DEF Finish, HoldsLease
  <2>3. content[c] = {item[t]} /\ c \in Buffers
    BY <1>0, <1>a, <2>1, <2>2
  <2>4. item[t] \in DOMAIN result
    BY <2>2 DEF ItemsInv
  <2>5. /\ DOMAIN result' = DOMAIN result /\ result'[item[t]] = {item[t]}
        /\ \A k \in DOMAIN result : k # item[t] => result'[k] = result[k]
    BY <1>0, <2>1, <2>3, <2>4
  <2>6. /\ \A u \in Threads : u # t => guards'[u] = guards[u] /\ item'[u] = item[u]
        /\ IF job.detach THEN loose' = loose \cup {c} ELSE loose' = loose
    BY <1>0, <2>1, <2>2 DEF IntoInner, DropGuard
  <2>7. \A k \in DOMAIN result' : result'[k] \subseteq {k}
    BY <1>a, <2>5
  <2>8. \A b \in loose : \E k \in DOMAIN result' : content'[b] = {k} /\ result'[k] = {k}
    BY <1>a, <2>2, <2>5
  <2>9. \A u \in written' : \A b \in guards'[u] : content'[b] = {item'[u]}
    BY <1>0, <1>a, <2>2, <2>6
  <2> QED
    BY <1>a, <2>2, <2>3, <2>4, <2>5, <2>6, <2>7, <2>8, <2>9
<1>4. ASSUME NEW t \in Workers, BodyPanics(t)
      PROVE  Kept
  <2>1. PICK c \in guards[t] : /\ content' = [content EXCEPT ![c] = @ \cup {item[t]}]
                             /\ DropGuard(t, c)
    BY <1>4 DEF BodyPanics
  <2>2. /\ t \notin written /\ UNCHANGED <<written, result, loose>>
        /\ \A u \in Threads : u # t => guards'[u] = guards[u] /\ item'[u] = item[u]
    BY <1>0, <1>4, <2>1 DEF BodyPanics, Unwind, DropGuard
  <2>3. \A b \in Buffers : b # c => content'[b] = content[b]
    BY <1>0, <2>1
  <2>4. \A u \in written : \A b \in guards[u] : b \in Buffers /\ b # c /\ u \in Threads /\ u # t
    BY <1>0, <1>b, <2>1, <2>2
  <2>5. \A b \in loose : b \in Buffers /\ b # c
    BY <1>0, <1>b, <2>1
  <2>6. \A u \in written' : \A b \in guards'[u] : content'[b] = {item'[u]}
    <3>1. \A u \in written : guards'[u] = guards[u] /\ item'[u] = item[u]
      BY <1>0, <2>2
    <3>2. \A u \in written : \A b \in guards[u] : content'[b] = content[b]
      BY <2>3, <2>4
    <3> QED
      BY <1>a, <2>2, <3>1, <3>2
  <2>7. \A b \in loose' : \E k \in DOMAIN result' : content'[b] = {k} /\ result'[k] = {k}
    <3>1. \A b \in loose : content'[b] = content[b]
      BY <2>3, <2>5
    <3> QED
      BY <1>a, <2>2, <3>1
  <2> QED
    BY <1>a, <2>2, <2>6, <2>7
<1>5. ASSUME NEW t \in Workers, Begin(t)
      PROVE  Kept
  <2>1. /\ UNCHANGED <<guards, loose, written, content, result>>
        /\ item[t] = NoItem /\ \A u \in Threads : u # t => item'[u] = item[u]
    BY <1>0, <1>5 DEF Begin, Get
  <2> QED
    BY <1>0, <1>a, <2>1
<1>6. ASSUME NextRound
      PROVE  Kept
  <2>1. /\ result' = [k \in DOMAIN result |-> {}] /\ UNCHANGED <<guards, loose, written, content>>
        /\ round < job.rounds /\ \A t \in Threads : item[t] = NoItem
    BY <1>6 DEF NextRound, Joined, vars
  <2>2. ~job.detach
    BY <2>1, ProgramsAssumption DEF ItemsInv, JobControl, MainInv
  <2>3. written' = {}
    BY <1>0, <2>1
  <2> QED
    BY <1>a, <2>1, <2>2, <2>3
<1>7. ASSUME Leave \/ UNCHANGED jobState
      PROVE  Kept
  <2>1. UNCHANGED <<guards, loose, written, item, content, result>>
    BY <1>7 DEF Leave, Drain, vars, jobState, jobVars
  <2> QED
    BY <1>a, <2>1
<1> QED
  BY <1>1, <1>2, <1>3, <1>4, <1>5, <1>6, <1>7, JobSteps

\* What the theorem on results rests on.
ContentInv == ItemsInv /\ RestoredInv /\ FreshInv /\ ClearedInv /\ OwnDataInv

\* Buffers and results are empty at first,
LEMMA ContentStart == JobInit => ContentInv
<1> SUFFICES ASSUME JobInit PROVE ContentInv
  OBVIOUS
<1>1. NoItem \notin Items /\ todo \subseteq Items
  BY JobsAssumption DEF JobInit
<1>2. /\ DOMAIN result = todo /\ \A k \in todo : result[k] = {}
      /\ \A t \in Threads : item[t] = NoItem /\ guards[t] = {}
      /\ \A b \in Buffers : content[b] = {}
      /\ round = 1 /\ clean = {} /\ loose = {} /\ written = {}
  BY DEF JobInit
<1> QED
  BY <1>1, <1>2 DEF ContentInv, ItemsInv, RestoredInv, FreshInv, ClearedInv, OwnDataInv

\* and every step of a program keeps what the invariant says of them.
LEMMA ContentStep == NeedInv /\ ContentInv /\ [JobNext]_jobState => ContentInv'
  BY ItemsStep, RestoredStep, FreshStep, ClearedStep, OwnDataStep DEF ContentInv, NeedInv, IInv

\* Recycling never leaks one item's data into the result of another.
THEOREM ResultsStayApart == JobSpec => []ResultsUncontaminated
<1>1. ContentInv => ResultsUncontaminated
  BY DEF ContentInv, OwnDataInv, ResultsUncontaminated
<1> QED
  BY <1>1, NeedStart, NeedStep, ContentStart, ContentStep, PTL DEF JobSpec, jobState

-----------------------------------------------------------------------------
(* The reduction.                                                           *)

\* The item has been begun, and its worker has written its data or is done with it.
Summed(k) ==
  /\ k \in DOMAIN result \ todo
  /\ \A t \in Threads : item[t] = k => t \in written

\* While a program that drains runs, every item is in one partial sum; behind
\* Main's sweep nothing is parked.
SumInv ==
  job.drains /\ ~failed =>
    /\ \A b, c \in Buffers : b # c => content[b] \cap content[c] = {}
    /\ \A k \in Items : (\E b \in Buffers : k \in content[b]) <=> Summed(k)
    /\ phase = "done" =>
         /\ todo = {}
         /\ \A p \in Piles :
              pc[Main] \in {"ready", "settle"} \/ p < at[Main] => Range(pile[p]) = {}

\* Nothing dies in a call that proceeds, but for a return that is turned away.
LEMMA NoneDies ==
  ASSUME Control, Apart, NEW t \in Threads, Progress(t), ~Unclaim(t),
         NEW b \in Buffers, IsLive(b)
  PROVE  IsLive(b)'
<1>0. /\ pile \in [Piles -> Seq(Buffers)] /\ haul \in [Threads -> Seq(Buffers)]
      /\ hand \in [Threads -> Buffers \cup {NoBuffer}] /\ NoBuffer \notin Buffers
      /\ guards \in [Threads -> SUBSET Buffers]
      /\ \A u \in Threads : hand[u] # NoBuffer <=> pc[u] \in Moving
      /\ at[t] \in Piles /\ Reserve \in Piles /\ Shard(t) \in Piles
  <2>1. Shard(t) \in Piles
    BY ShardIsPile DEF Control
  <2>2. Reserve \in Piles
    BY ShardsAssumption DEF Reserve, Piles
  <2> QED
    BY <2>1, <2>2, BuffersAssumption DEF Control, TypeInv, HandInv
<1>1. ASSUME NEW p \in Piles, NEW miss, Pop(t, p, miss), UNCHANGED <<guards, loose, haul>>,
             pc[t] \in {"pop_shard", "pop_reserve"}
      PROVE  IsLive(b)'
  <2>1. CASE pile[p] = <<>>
    BY <1>1, <2>1 DEF Pop, IsLive
  <2>2. CASE pile[p] # <<>>
    <3>1. Range(pile[p]) = Range(Front(pile[p])) \cup {Last(pile[p])}
      BY <1>0, <2>2, PopRange DEF Apart
    <3>2. /\ pile' = [pile EXCEPT ![p] = Front(pile[p])]
          /\ hand' = [hand EXCEPT ![t] = Last(pile[p])]
          /\ hand[t] = NoBuffer
      BY <1>0, <1>1, <2>2 DEF Pop, Moving
    <3>3. \A q \in Piles : b \in Range(pile[q]) => b \in Range(pile'[q]) \/ b = hand'[t]
      BY <1>0, <3>1, <3>2
    <3>4. \A u \in Threads : b = hand[u] => b = hand'[u]
      BY <1>0, <3>2
    <3> QED
      BY <1>1, <3>3, <3>4 DEF IsLive
  <2> QED
    BY <2>1, <2>2
<1>2. CASE PopShard(t)
  BY <1>0, <1>1, <1>2 DEF PopShard
<1>3. CASE PopReserve(t)
  BY <1>0, <1>1, <1>3 DEF PopReserve
<1>4. CASE Unpark(t)
  BY <1>0, <1>4 DEF Unpark, IsLive
<1>5. CASE RunInit(t)
  BY <1>0, <1>5 DEF RunInit, IsLive
<1>6. CASE FillInit(t)
  BY <1>0, <1>6 DEF FillInit, IsLive, Moving
<1>7. CASE Reset(t) \/ CapAllows(t)
  BY <1>7 DEF Reset, CapAllows, IsLive
<1>8. CASE Push(t)
  <2>1. Parked' = Parked \cup {hand[t]}
    BY <1>8, PushParks
  <2>2. /\ UNCHANGED <<guards, loose, haul>>
        /\ \A u \in Threads \ {t} : hand'[u] = hand[u]
    BY <1>0, <1>8 DEF Push, FinishReturn
  <2>3. /\ b \in Parked <=> \E p \in Piles : b \in Range(pile[p])
        /\ b \in Parked' <=> \E p \in Piles : b \in Range(pile'[p])
    BY DEF Parked
  <2> QED
    BY <2>1, <2>2, <2>3 DEF IsLive
<1>9. CASE DrainPile(t)
  <2>1. /\ haul' = [haul EXCEPT ![t] = haul[t] \o pile[at[t]]]
        /\ pile' = [pile EXCEPT ![at[t]] = <<>>]
        /\ UNCHANGED <<guards, loose, hand>>
    BY <1>9 DEF DrainPile
  <2>2. Range(haul[t] \o pile[at[t]]) = Range(haul[t]) \cup Range(pile[at[t]])
    BY <1>0, RangeConcatenation
  <2>3. /\ \A q \in Piles : b \in Range(pile[q]) => b \in Range(pile'[q]) \/ b \in Range(haul'[t])
        /\ \A u \in Threads : b \in Range(haul[u]) => b \in Range(haul'[u])
    BY <1>0, <2>1, <2>2
  <2> QED
    BY <2>1, <2>3 DEF IsLive
<1>10. CASE DrainSettle(t)
  <2>1. /\ haul' = [haul EXCEPT ![t] = <<>>] /\ loose' = loose \cup Range(haul[t])
        /\ UNCHANGED <<pile, guards, hand>>
    BY <1>10 DEF DrainSettle
  <2>2. \A u \in Threads : b \in Range(haul[u]) => b \in Range(haul'[u]) \/ b \in loose'
    BY <1>0, <2>1
  <2> QED
    BY <2>1, <2>2 DEF IsLive
<1> QED
  BY <1>2, <1>3, <1>4, <1>5, <1>6, <1>7, <1>8, <1>9, <1>10 DEF Progress

\* A call that proceeds changes no partial sum.
LEMMA SumsKept ==
  ASSUME Control, Apart, JobControl, FreshInv, job.drains, NEW t \in Threads, Progress(t)
  PROVE  content' = content
<1>1. ~hook /\ ~Unclaim(t)
  BY ProgramsAssumption DEF JobControl, MainInv, Unclaim, Control, UnclaimInv
<1>2. \A b \in Buffers : content'[b] = content[b]
  <2> SUFFICES ASSUME NEW b \in Buffers PROVE content'[b] = content[b]
    OBVIOUS
  <2>1. CASE IsLive(b)
    BY <1>1, <2>1, NoneDies, ContentFlow
  <2>2. CASE ~IsLive(b)
    BY <2>2, ContentFlow DEF FreshInv
  <2> QED
    BY <2>1, <2>2
<1>3. /\ content \in [Buffers -> SUBSET Items]
      /\ content' = [b \in Buffers |-> content'[b]]
  BY DEF Progress, Contents, JobControl, JobTypes
<1> QED
  BY <1>2, <1>3

\* Main's sweep leaves nothing behind.
LEMMA SweepStep ==
  ASSUME Control, JobControl, phase = "done", NEW t \in Threads, Progress(t),
         \A p \in Piles : pc[Main] \in {"ready", "settle"} \/ p < at[Main] => Range(pile[p]) = {}
  PROVE  \A p \in Piles : pc'[Main] \in {"ready", "settle"} \/ p < at'[Main] => Range(pile'[p]) = {}
<1>0. /\ Main \in Threads /\ pc \in [Threads -> PC] /\ at \in [Threads -> Piles]
      /\ pile \in [Piles -> Seq(Buffers)]
      /\ NumShards \in Nat /\ Piles = 0 .. NumShards /\ Reserve = NumShards
  BY JobsAssumption, ShardsAssumption DEF Control, TypeInv, Piles, Reserve
<1>1. t = Main /\ pc[Main] \in {"drain", "settle"}
  <2>1. pc[t] # "ready" /\ (DrainPile(t) \/ DrainSettle(t) \/ pc[t] \notin {"drain", "settle"})
    BY DEF Progress, PopShard, PopReserve, Unpark, RunInit, FillInit, Reset, CapAllows, Unclaim,
           Push, DrainPile, DrainSettle
  <2>2. t \in Workers => pc[t] = "ready"
    BY DEF JobControl, WorkerInv
  <2>3. pc[Main] \in {"ready", "drain", "settle"}
    BY DEF JobControl, MainInv, Filling
  <2> QED
    BY <1>0, <2>1, <2>2, <2>3 DEF Workers
<1>2. CASE DrainPile(Main)
  <2>1. /\ pile' = [pile EXCEPT ![at[Main]] = <<>>]
        /\ at' = [at EXCEPT ![Main] = IF at[Main] = Reserve THEN 0 ELSE at[Main] + 1]
        /\ pc' = [pc EXCEPT ![Main] = IF at[Main] = Reserve THEN "settle" ELSE "drain"]
        /\ pc[Main] = "drain"
    BY <1>2 DEF DrainPile
  <2>2. at[Main] \in 0 .. NumShards
    BY <1>0
  <2>3. ASSUME NEW p \in Piles, pc'[Main] \in {"ready", "settle"} \/ p < at'[Main]
        PROVE  Range(pile'[p]) = {}
    <3>1. p \in 0 .. NumShards /\ (p < at[Main] \/ p = at[Main])
      <4>1. CASE at[Main] = NumShards
        BY <1>0, <2>2, <4>1
      <4>2. CASE at[Main] # NumShards
        <5>1. pc'[Main] = "drain" /\ at'[Main] = at[Main] + 1
          BY <1>0, <2>1, <4>2
        <5> QED
          BY <1>0, <2>2, <2>3, <5>1
      <4> QED
        BY <4>1, <4>2
    <3>2. CASE p = at[Main]
      <4>1. pile'[p] = <<>>
        BY <1>0, <2>1, <3>2
      <4> QED
        BY <4>1, EmptyPile
    <3>3. CASE p < at[Main]
      <4>1. pile'[p] = pile[p]
        BY <1>0, <2>1, <2>2, <3>1, <3>3
      <4> QED
        BY <3>3, <4>1
    <3> QED
      BY <3>1, <3>2, <3>3
  <2> QED
    BY <2>3
<1>3. CASE DrainSettle(Main)
  BY <1>0, <1>3 DEF DrainSettle
<1> QED
  BY <1>0, <1>1, <1>2, <1>3
  DEF Progress, PopShard, PopReserve, Unpark, RunInit, FillInit, Reset, CapAllows, Unclaim, Push

\* The sum is kept: a write adds the item to one buffer, a drain moves whole buffers.
LEMMA SumStep ==
  ASSUME Control, Apart, JobControl, ItemsInv, FreshInv, SumInv, [JobNext]_jobState
  PROVE  SumInv'
<1>0. /\ UNCHANGED job
      /\ guards \in [Threads -> SUBSET Buffers]
      /\ item \in [Threads -> Items \cup {NoItem}] /\ NoItem \notin Items
      /\ written \subseteq Workers /\ todo \subseteq Items
      /\ content \in [Buffers -> SUBSET Items]
      /\ result \in [DOMAIN result -> SUBSET Items]
      /\ \A t \in Workers : t \in Threads
      /\ \A t \in written : item[t] # NoItem
  BY JobFixed, JobsAssumption DEF Control, TypeInv, JobControl, JobTypes, WorkerInv, Workers
<1> SUFFICES ASSUME job.drains, ~failed'
             PROVE  SumInv'
  BY <1>0 DEF SumInv
<1>a. ~failed
  BY JobSteps
  DEF Begin, Finish, BodyPanics, Progress, UserCodePanics, Unwind, Write, NextRound, Leave,
      jobState, jobVars
<1>b. /\ \A b, c \in Buffers : b # c => content[b] \cap content[c] = {}
      /\ \A k \in Items : (\E b \in Buffers : k \in content[b]) <=> Summed(k)
      /\ phase = "done" =>
           /\ todo = {}
           /\ \A p \in Piles :
                pc[Main] \in {"ready", "settle"} \/ p < at[Main] => Range(pile[p]) = {}
  BY <1>a DEF SumInv
<1>1. ASSUME NEW t \in Workers, Begin(t)
      PROVE  SumInv'
  <2>1. PICK k \in todo : item' = [item EXCEPT ![t] = k] /\ todo' = todo \ {k}
    BY <1>1 DEF Begin
  <2>2. /\ phase = "loop" /\ UNCHANGED <<phase, written, content, result>>
        /\ item[t] = NoItem /\ t \notin written
    BY <1>0, <1>1 DEF Begin
  <2>3. \A j \in Items : Summed(j)' <=> Summed(j)
    <3>1. ~Summed(k) /\ ~Summed(k)'
      BY <1>0, <2>1, <2>2 DEF Summed
    <3>2. ASSUME NEW j \in Items, j # k
          PROVE  Summed(j)' <=> Summed(j)
      <4>1. \A u \in Threads : item'[u] = j <=> item[u] = j
        BY <1>0, <2>1, <2>2, <3>2
      <4> QED
        BY <2>1, <2>2, <3>2, <4>1 DEF Summed
    <3> QED
      BY <3>1, <3>2
  <2> QED
    BY <1>b, <2>2, <2>3 DEF SumInv
<1>2. ASSUME NEW t \in Workers, Write(t)
      PROVE  SumInv'
  <2>1. PICK c \in guards[t] :
          content' = [content EXCEPT ![c] = {item[t]} \cup (IF job.adds THEN content[c] ELSE {})]
    BY <1>2 DEF Write
  <2>2. /\ written' = written \cup {t} /\ t \notin written /\ item[t] # NoItem
        /\ UNCHANGED <<todo, item, result, phase, pc, at, pile>>
    BY <1>2 DEF Write, HoldsLease, vars
  <2>3. c \in Buffers /\ t \in Threads /\ job.adds
    BY <1>0, <2>1, ProgramsAssumption DEF JobControl, MainInv
  <2>4. /\ content'[c] = content[c] \cup {item[t]}
        /\ \A b \in Buffers : b # c => content'[b] = content[b]
    BY <1>0, <2>1, <2>3
  <2>5. item[t] \in Items /\ ~Summed(item[t])
    BY <1>0, <2>2, <2>3 DEF Summed
  <2>6. \A k \in Items : k = item[t] => Summed(k)'
    <3>1. \A u \in Threads : item[u] = item[t] => u = t
      BY <2>2, <2>3 DEF ItemsInv
    <3>2. item[t] \in DOMAIN result \ todo
      BY <2>2, <2>3 DEF ItemsInv
    <3> QED
      BY <2>2, <3>1, <3>2 DEF Summed
  <2>7. \A k \in Items : k # item[t] => (Summed(k)' <=> Summed(k))
    BY <2>2 DEF Summed
  <2>8. \A b \in Buffers : item[t] \notin content[b]
    BY <1>b, <2>5
  <2>9. \A b, d \in Buffers : b # d => content'[b] \cap content'[d] = {}
    BY <1>b, <2>4, <2>8
  <2>10. \A k \in Items : (\E b \in Buffers : k \in content'[b]) <=> Summed(k)'
    <3>1. \E b \in Buffers : item[t] \in content'[b]
      BY <2>3, <2>4
    <3>2. ASSUME NEW k \in Items, k # item[t]
          PROVE  \A b \in Buffers : k \in content'[b] <=> k \in content[b]
      BY <2>4, <3>2
    <3>3. ASSUME NEW k \in Items, k # item[t]
          PROVE  (\E b \in Buffers : k \in content'[b]) <=> Summed(k)'
      <4>1. Summed(k)' <=> Summed(k)
        BY <2>7, <3>3
      <4>2. (\E b \in Buffers : k \in content[b]) <=> Summed(k)
        BY <1>b
      <4> QED
        BY <3>2, <3>3, <4>1, <4>2
    <3>4. ASSUME NEW k \in Items, k = item[t]
          PROVE  (\E b \in Buffers : k \in content'[b]) <=> Summed(k)'
      BY <2>6, <3>1, <3>4
    <3> QED
      BY <3>3, <3>4
  <2> QED
    BY <1>b, <2>2, <2>9, <2>10 DEF SumInv
<1>3. ASSUME NEW t \in Workers, Finish(t)
      PROVE  SumInv'
  <2>1. /\ t \in written /\ item[t] # NoItem /\ item' = [item EXCEPT ![t] = NoItem]
        /\ written' = written \ {t} /\ UNCHANGED <<todo, phase, content>>
        /\ DOMAIN result' = DOMAIN result
    BY <1>3 DEF Finish, HoldsLease
  <2>2. phase # "done"
    BY <2>1 DEF JobControl, WorkerInv
  <2>3. \A k \in Items : Summed(k)' <=> Summed(k)
    <3> SUFFICES ASSUME NEW k \in Items PROVE Summed(k)' <=> Summed(k)
      OBVIOUS
    <3>1. (\A u \in Threads : item'[u] = k => u \in written')
            <=> \A u \in Threads : item[u] = k => u \in written
      BY <1>0, <2>1
    <3> QED
      BY <2>1, <3>1 DEF Summed
  <2> QED
    BY <1>b, <2>1, <2>2, <2>3 DEF SumInv
<1>4. ASSUME NEW t \in Threads, Progress(t)
      PROVE  SumInv'
  <2>1. content' = content
    BY <1>4, SumsKept
  <2>2. UNCHANGED <<phase, todo, item, written, result>>
    BY <1>4 DEF Progress
  <2>3. \A k : Summed(k)' <=> Summed(k)
    BY <2>2 DEF Summed
  <2>4. phase = "done" => \A p \in Piles :
          pc'[Main] \in {"ready", "settle"} \/ p < at'[Main] => Range(pile'[p]) = {}
    BY <1>4, <1>b, SweepStep
  <2> QED
    BY <1>b, <2>1, <2>2, <2>3, <2>4 DEF SumInv
<1>5. ASSUME NextRound
      PROVE  SumInv'
  BY <1>5, ProgramsAssumption DEF NextRound, ItemsInv, JobControl, MainInv
<1>6. ASSUME Leave
      PROVE  SumInv'
  <2>1. /\ todo = {} /\ phase' = "done" /\ Drain(Main)
        /\ UNCHANGED <<todo, item, written, content, result>>
    BY <1>6, <1>a DEF Leave, Joined
  <2>2. pc'[Main] = "drain" /\ at'[Main] = 0
    <3>1. pc \in [Threads -> PC] /\ at \in [Threads -> Piles] /\ Main \in Threads
      BY JobsAssumption DEF Control, TypeInv
    <3> QED
      BY <2>1, <3>1 DEF Drain
  <2>3. \A p \in Piles : ~(p < 0)
    BY ShardsAssumption DEF Piles
  <2>4. \A k : Summed(k)' <=> Summed(k)
    BY <2>1 DEF Summed
  <2> QED
    BY <1>b, <2>1, <2>2, <2>3, <2>4 DEF SumInv
<1>7. ASSUME UNCHANGED jobState
      PROVE  SumInv'
  <2>1. UNCHANGED <<job, failed, phase, todo, item, written, content, result, pc, at, pile>>
    BY <1>7 DEF jobState, jobVars, vars
  <2> QED
    BY <1>b, <2>1 DEF SumInv, Summed
<1>8. ASSUME NEW t \in Threads, BodyPanics(t) \/ UserCodePanics(t)
      PROVE  SumInv'
  BY <1>8 DEF BodyPanics, UserCodePanics, Unwind
<1> QED
  BY <1>0, <1>1, <1>2, <1>3, <1>4, <1>5, <1>6, <1>7, <1>8, JobSteps

\* When a program has finished, what exists has been drained.
LEMMA DrainedAtEnd ==
  ASSUME Control, JobControl, SumInv, Finished, job.drains, ~failed, NEW b \in Buffers, IsLive(b)
  PROVE  b \in loose
<1>1. \A p \in Piles : Range(pile[p]) = {}
  BY JobsAssumption DEF SumInv, Finished
<1>2. \A t \in Threads : pc[t] = "ready" /\ hand[t] = NoBuffer /\ Range(haul[t]) = {}
  BY EmptyPile DEF Finished, Control, HandInv, HaulInv, Moving
<1>3. \A t \in Threads : guards[t] = {}
  BY DEF Finished, JobControl, MainInv, WorkerInv, Workers
<1> QED
  BY <1>1, <1>2, <1>3, BuffersAssumption DEF IsLive

\* No item is summed at first.
LEMMA SumStart == JobInit => SumInv
<1> SUFFICES ASSUME JobInit PROVE SumInv
  OBVIOUS
<1>1. DOMAIN result = todo /\ phase = "loop" /\ \A b \in Buffers : content[b] = {}
  BY DEF JobInit
<1>2. \A k : ~Summed(k)
  BY <1>1 DEF Summed
<1> QED
  BY <1>1, <1>2 DEF SumInv

\* Every item is in exactly one of the partial sums that drain returns.
THEOREM ReductionIsExact == JobSpec => []ReductionExact
<1>1. NeedInv /\ ContentInv /\ SumInv /\ [JobNext]_jobState => SumInv'
  BY SumStep DEF NeedInv, ContentInv, IInv
<1>2. NeedInv /\ ContentInv /\ SumInv => ReductionExact
  <2> SUFFICES ASSUME NeedInv, ContentInv, SumInv, Finished, job.drains, ~failed
               PROVE  /\ UNION {content[b] : b \in loose} = DOMAIN result
                      /\ \A b, c \in loose : b # c => content[b] \cap content[c] = {}
    BY DEF ReductionExact
  <2>1. Control /\ JobControl /\ FreshInv /\ ItemsInv
    BY DEF NeedInv, IInv, ContentInv
  <2>2. /\ loose \subseteq Buffers /\ content \in [Buffers -> SUBSET Items]
        /\ DOMAIN result \subseteq Items /\ NoItem \notin Items
        /\ \A t \in Threads : item[t] = NoItem
    BY <2>1, JobsAssumption
    DEF Control, TypeInv, JobControl, JobTypes, MainInv, WorkerInv, Workers, Finished
  <2>3. \A k \in Items : Summed(k) <=> k \in DOMAIN result
    BY <2>2 DEF SumInv, Finished, Summed
  <2>4. \A b \in Buffers : content[b] # {} => b \in loose
    BY <2>1, DrainedAtEnd DEF FreshInv
  <2>5. \A k \in Items : (\E b \in loose : k \in content[b]) <=> k \in DOMAIN result
    BY <2>2, <2>3, <2>4 DEF SumInv
  <2>6. UNION {content[b] : b \in loose} = DOMAIN result
    BY <2>2, <2>5
  <2>7. \A b, c \in loose : b # c => content[b] \cap content[c] = {}
    BY <2>2 DEF SumInv
  <2> QED
    BY <2>6, <2>7
<1> QED
  BY <1>1, <1>2, SumStart, NeedStart, NeedStep, ContentStart, ContentStep, PTL DEF JobSpec, jobState

-----------------------------------------------------------------------------
(* What the programs assert.                                                *)

\* What happens as long as no item unwinds.
LEMMA CalmSteps ==
  ASSUME [JobNext]_jobState, ~failed'
  PROVE  /\ ~failed
         /\ \/ \E t \in Workers : (Begin(t) \/ Finish(t)) /\ Count
            \/ \E t \in Threads : Progress(t) /\ Count
            \/ \E t \in Workers : Write(t)
            \/ NextRound
            \/ Leave
            \/ UNCHANGED jobState
<1>1. ASSUME NEW t \in Threads, BodyPanics(t) \/ UserCodePanics(t)
      PROVE  failed'
  BY <1>1 DEF BodyPanics, UserCodePanics, Unwind
<1>2. \A t \in Workers : t \in Threads
  BY DEF Workers
<1>3. \/ \E t \in Workers : (Begin(t) \/ Finish(t)) /\ Count
      \/ \E t \in Threads : Progress(t) /\ Count
      \/ \E t \in Workers : Write(t)
      \/ NextRound
      \/ Leave
      \/ UNCHANGED jobState
  BY <1>1, <1>2, JobSteps
<1>4. failed' = failed
  BY <1>3 DEF Begin, Finish, Progress, Write, NextRound, Leave, jobState, jobVars
<1> QED
  BY <1>3, <1>4

\* A lease is counted as its item begins.
LEMMA BeginCounts ==
  ASSUME Control, NEW t \in Workers, Begin(t), Count, CountersType
  PROVE  leases' = leases + 1 /\ UNCHANGED <<allocations, recycled, filled>>
<1>0. /\ t \in Threads /\ pc \in [Threads -> PC]
      /\ pc[t] = "ready" /\ pc' = [pc EXCEPT ![t] = "pop_shard"]
  BY DEF Workers, Control, TypeInv, Begin, Get
<1>1. LeaseStarts = {t}
  BY <1>0 DEF LeaseStarts
<1>2. /\ InitRuns = {}
      /\ {u \in Threads : pc[u] = "unpark" /\ pc'[u] # "unpark"} = {}
      /\ {u \in Threads : pc[u] = "fill" /\ pc'[u] # "fill"} = {}
  BY <1>0 DEF InitRuns
<1>3. Cardinality({}) = 0 /\ Cardinality({t}) = 1
  BY FS_EmptySet, FS_Singleton
<1>4. /\ leases' = leases + Cardinality(LeaseStarts)
      /\ allocations' = allocations + Cardinality(InitRuns)
      /\ recycled' = recycled + Cardinality({u \in Threads : pc[u] = "unpark" /\ pc'[u] # "unpark"})
      /\ filled' = filled + Cardinality({u \in Threads : pc[u] = "fill" /\ pc'[u] # "fill"})
  BY DEF Count
<1> QED
  BY <1>1, <1>2, <1>3, <1>4 DEF CountersType

\* The end of a body is not counted.
LEMMA FinishCounts ==
  ASSUME Control, NEW t \in Workers, Finish(t), Count, CountersType
  PROVE  UNCHANGED <<leases, allocations, recycled, filled>>
<1>0. /\ t \in Threads /\ pc \in [Threads -> PC]
      /\ pc[t] = "ready" /\ (pc' = pc \/ pc' = [pc EXCEPT ![t] = "reset"])
  BY DEF Workers, Control, TypeInv, Finish, IntoInner, DropGuard
<1>1. /\ LeaseStarts = {}
      /\ InitRuns = {}
      /\ {u \in Threads : pc[u] = "unpark" /\ pc'[u] # "unpark"} = {}
      /\ {u \in Threads : pc[u] = "fill" /\ pc'[u] # "fill"} = {}
  BY <1>0 DEF LeaseStarts, InitRuns
<1>2. Cardinality({}) = 0
  BY FS_EmptySet
<1>3. /\ leases' = leases + Cardinality(LeaseStarts)
      /\ allocations' = allocations + Cardinality(InitRuns)
      /\ recycled' = recycled + Cardinality({u \in Threads : pc[u] = "unpark" /\ pc'[u] # "unpark"})
      /\ filled' = filled + Cardinality({u \in Threads : pc[u] = "fill" /\ pc'[u] # "fill"})
  BY DEF Count
<1> QED
  BY <1>1, <1>2, <1>3 DEF CountersType

\* Inside a call, what it does to a counter is what the step of one thread is.
LEMMA ProgressCounts ==
  ASSUME Control, JobControl, NEW t \in Threads, Progress(t), Count, CountersType
  PROVE  /\ leases' = leases
         /\ allocations' = allocations + IF pc[t] \in {"init", "fill"} THEN 1 ELSE 0
         /\ recycled' = recycled + IF pc[t] = "unpark" THEN 1 ELSE 0
         /\ filled' = filled + IF pc[t] = "fill" THEN 1 ELSE 0
<1>0. pc \in [Threads -> PC] /\ [Next]_vars
  <2>1. Step(t)
    BY DEF Progress, Step
  <2> QED
    BY <2>1 DEF Control, TypeInv, Next
<1>1. /\ pc[t] # "ready" /\ (pc'[t] # pc[t] \/ pc[t] = "drain")
      /\ \A u \in Threads \ {t} : pc'[u] = pc[u]
  <2>1. CASE PopShard(t)
    BY <1>0, <2>1 DEF PopShard, Pop
  <2>2. CASE PopReserve(t)
    BY <1>0, <2>2 DEF PopReserve, Pop
  <2>3. CASE Unpark(t) \/ RunInit(t) \/ FillInit(t) \/ Reset(t) \/ CapAllows(t)
    BY <1>0, <2>3 DEF Unpark, RunInit, FillInit, Reset, CapAllows
  <2>4. CASE Unclaim(t) \/ Push(t)
    BY <1>0, <2>4 DEF Unclaim, Push, FinishReturn
  <2>5. CASE DrainPile(t) \/ DrainSettle(t)
    BY <1>0, <2>5 DEF DrainPile, DrainSettle
  <2> QED
    BY <2>1, <2>2, <2>3, <2>4, <2>5 DEF Progress
<1>2. LeaseStarts = {}
  BY <1>1 DEF LeaseStarts
<1>3. InitRuns = IF pc[t] \in {"init", "fill"} THEN {t} ELSE {}
  BY <1>1 DEF InitRuns
<1>4. /\ {u \in Threads : pc[u] = "unpark" /\ pc'[u] # "unpark"} = IF pc[t] = "unpark" THEN {t} ELSE {}
      /\ {u \in Threads : pc[u] = "fill" /\ pc'[u] # "fill"} = IF pc[t] = "fill" THEN {t} ELSE {}
  BY <1>1
<1>5. Cardinality({}) = 0 /\ Cardinality({t}) = 1
  BY FS_EmptySet, FS_Singleton
<1>6. /\ leases' = leases + Cardinality(LeaseStarts)
      /\ allocations' = allocations + Cardinality(InitRuns)
      /\ recycled' = recycled + Cardinality({u \in Threads : pc[u] = "unpark" /\ pc'[u] # "unpark"})
      /\ filled' = filled + Cardinality({u \in Threads : pc[u] = "fill" /\ pc'[u] # "fill"})
  BY DEF Count
<1>7. /\ Cardinality(LeaseStarts) = 0
      /\ Cardinality(InitRuns) = IF pc[t] \in {"init", "fill"} THEN 1 ELSE 0
  BY <1>2, <1>3, <1>5
<1>8. /\ Cardinality({u \in Threads : pc[u] = "unpark" /\ pc'[u] # "unpark"})
           = IF pc[t] = "unpark" THEN 1 ELSE 0
      /\ Cardinality({u \in Threads : pc[u] = "fill" /\ pc'[u] # "fill"})
           = IF pc[t] = "fill" THEN 1 ELSE 0
  BY <1>4, <1>5
<1> QED
  BY <1>6, <1>7, <1>8 DEF CountersType

\* A program's items are fixed when it starts.
LEMMA ResultDomain ==
  ASSUME [JobNext]_jobState
  PROVE  DOMAIN result' = DOMAIN result
<1>1. \A t \in Workers : Finish(t) => DOMAIN result' = DOMAIN result
  BY DEF Finish
<1>2. NextRound => DOMAIN result' = DOMAIN result
  BY DEF NextRound
<1> QED
  BY <1>1, <1>2, JobSteps
  DEF Begin, BodyPanics, Progress, UserCodePanics, Write, Leave, jobState, jobVars

\* A lease is counted for every item that has begun, and for nothing else.
TallyInv ==
  /\ Cardinality(DOMAIN result) = job.items
  /\ leases <= MaxLeases
  /\ ~failed /\ job.rounds = 1 => leases = Cardinality(DOMAIN result \ todo)
  /\ ~failed /\ phase = "done" => todo = {}

\* A lease is counted where an item begins, and only there.
LEMMA TallyStep ==
  ASSUME Control, JobControl, ItemsInv, CountersType, TallyInv, [JobNext]_jobState
  PROVE  TallyInv'
<1>0. /\ UNCHANGED job /\ DOMAIN result' = DOMAIN result
      /\ IsFiniteSet(DOMAIN result \ todo)
      /\ Cardinality(DOMAIN result \ todo) \in Nat
  <2>1. IsFiniteSet(DOMAIN result \ todo)
    BY JobsAssumption, FS_Subset DEF JobControl, JobTypes
  <2> QED
    BY <2>1, FS_CardinalityType, JobFixed, ResultDomain
<1>1. leases' <= MaxLeases
  BY JobUsesPool DEF Count, TallyInv, counters
<1> SUFFICES ASSUME ~failed'
             PROVE  /\ job.rounds = 1 => leases' = Cardinality(DOMAIN result \ todo')
                    /\ phase' = "done" => todo' = {}
  BY <1>0, <1>1 DEF TallyInv
<1>2. ASSUME UNCHANGED <<leases, todo>>, phase' = "done" => phase = "done"
      PROVE  /\ job.rounds = 1 => leases' = Cardinality(DOMAIN result \ todo')
             /\ phase' = "done" => todo' = {}
  BY <1>2, CalmSteps DEF TallyInv
<1>3. ASSUME NEW t \in Workers, Begin(t), Count
      PROVE  /\ job.rounds = 1 => leases' = Cardinality(DOMAIN result \ todo')
             /\ phase' = "done" => todo' = {}
  <2>1. PICK k \in todo : todo' = todo \ {k}
    BY <1>3 DEF Begin
  <2>2. DOMAIN result \ todo' = (DOMAIN result \ todo) \cup {k} /\ k \notin DOMAIN result \ todo
    BY <2>1 DEF ItemsInv
  <2>3. Cardinality(DOMAIN result \ todo') = Cardinality(DOMAIN result \ todo) + 1
    BY <1>0, <2>2, FS_AddElement
  <2>4. leases' = leases + 1
    BY <1>3, BeginCounts
  <2>5. phase' = "loop"
    BY <1>3 DEF Begin
  <2> QED
    BY <2>3, <2>4, <2>5, CalmSteps DEF TallyInv
<1>4. ASSUME NEW t \in Workers, Finish(t), Count
      PROVE  UNCHANGED <<leases, todo, phase>>
  BY <1>4, FinishCounts DEF Finish
<1>5. ASSUME NEW t \in Threads, Progress(t), Count
      PROVE  UNCHANGED <<leases, todo, phase>>
  BY <1>5, ProgressCounts DEF Progress
<1>6. ASSUME (\E t \in Workers : Write(t)) \/ UNCHANGED jobState
      PROVE  UNCHANGED <<leases, todo, phase>>
  BY <1>6 DEF Write, counters, jobState, jobVars
<1>7. ASSUME NextRound
      PROVE  job.rounds # 1 /\ phase' # "done"
  BY <1>7, ProgramsAssumption DEF NextRound, Joined, ItemsInv, JobControl, MainInv
<1>8. ASSUME Leave
      PROVE  /\ job.rounds = 1 => leases' = Cardinality(DOMAIN result \ todo')
             /\ phase' = "done" => todo' = {}
  <2>1. todo = {} /\ UNCHANGED <<leases, todo>>
    BY <1>8, CalmSteps DEF Leave, Joined, counters
  <2> QED
    BY <2>1, CalmSteps DEF TallyInv
<1> QED
  BY <1>2, <1>3, <1>4, <1>5, <1>6, <1>7, <1>8, CalmSteps

\* As long as no item unwinds, a buffer is made where one is counted, and dies
\* only where a return is turned away.
LEMMA LiveFlow ==
  ASSUME Control, Apart, JobControl, CountersType, [JobNext]_jobState, ~failed'
  PROVE  \/ Live' = Live /\ allocations' = allocations
         \/ \E b \in Buffers \ Live : Live' = Live \cup {b} /\ allocations' = allocations + 1
         \/ \E t \in Threads : /\ Unclaim(t)
                               /\ Live \ {hand[t]} \subseteq Live' /\ Live' \subseteq Live
                               /\ allocations' = allocations
<1>0. Live \subseteq Buffers /\ Live' \subseteq Buffers
  BY LiveFinite, JobUsesPool, ControlStep, LiveTyped
<1>1. ASSUME \/ \E t \in Workers : (Begin(t) \/ Finish(t)) /\ Count
             \/ (\E t \in Workers : Write(t)) \/ NextRound \/ Leave \/ UNCHANGED jobState
      PROVE  Live' = Live /\ allocations' = allocations
  <2>1. Outside
    BY <1>1 DEF Outside
  <2>2. ASSUME NEW t \in Workers, Begin(t) \/ Finish(t), Count
        PROVE  allocations' = allocations
    BY <2>2, BeginCounts, FinishCounts
  <2>3. (\E t \in Workers : Write(t)) \/ NextRound \/ Leave \/ UNCHANGED jobState
          => allocations' = allocations
    BY DEF Write, NextRound, Leave, jobState, counters
  <2>4. allocations' = allocations
    BY <1>1, <2>2, <2>3
  <2> QED
    BY <1>0, <2>1, <2>4, BodySteps, LiveIs
<1>2. ASSUME NEW t \in Threads, Progress(t), Count, RunInit(t) \/ FillInit(t)
      PROVE  \E b \in Buffers \ Live : Live' = Live \cup {b} /\ allocations' = allocations + 1
  <2>1. PICK b \in Buffers \ Live : Live' \subseteq Live \cup {b} /\ b \in Live'
    BY <1>2, InitMakesOne
  <2>2. ~Unclaim(t) /\ allocations' = allocations + 1
    BY <1>2, ProgressCounts DEF RunInit, FillInit, Unclaim
  <2>3. Live \subseteq Live'
    BY <1>0, <1>2, <2>2, NoneDies, LiveIs
  <2> QED
    BY <2>1, <2>2, <2>3
<1>3. ASSUME NEW t \in Threads, Progress(t), Count, ~RunInit(t), ~FillInit(t)
      PROVE  Live' \subseteq Live /\ allocations' = allocations
  <2>1. Step(t) /\ pc[t] \notin {"init", "fill"}
    BY <1>3
    DEF Progress, Step, PopShard, PopReserve, Unpark, Reset, CapAllows, Unclaim, Push, DrainPile,
        DrainSettle
  <2> QED
    BY <1>3, <2>1, StepMakesNone, ProgressCounts DEF CountersType
<1>4. ASSUME NEW t \in Threads, Progress(t), ~Unclaim(t)
      PROVE  Live \subseteq Live'
  BY <1>0, <1>4, NoneDies, LiveIs
<1>5. ASSUME NEW t \in Threads, Unclaim(t)
      PROVE  Live \ {hand[t]} \subseteq Live'
  <2>1. hand \in [Threads -> Buffers \cup {NoBuffer}]
    BY DEF Control, TypeInv
  <2>2. \A b \in Buffers : IsLive(b) /\ b # hand[t] => IsLive(b)'
    BY <1>5, <2>1 DEF Unclaim, FinishReturn, IsLive
  <2> QED
    BY <1>0, <2>2, LiveIs
<1>6. ASSUME NEW t \in Threads, Progress(t), Count
      PROVE  \/ Live' = Live /\ allocations' = allocations
             \/ \E b \in Buffers \ Live : Live' = Live \cup {b} /\ allocations' = allocations + 1
             \/ /\ Unclaim(t)
                /\ Live \ {hand[t]} \subseteq Live' /\ Live' \subseteq Live
                /\ allocations' = allocations
  BY <1>2, <1>3, <1>4, <1>5, <1>6
<1> QED
  BY <1>1, <1>6, CalmSteps

\* Without one member a set is smaller by one at most.
LEMMA OneFewer ==
  ASSUME NEW S, IsFiniteSet(S), NEW x
  PROVE  Cardinality(S \ {x}) \in Nat /\ Cardinality(S \ {x}) >= Cardinality(S) - 1
<1>1. Cardinality(S) \in Nat
  BY FS_CardinalityType
<1>2. CASE x \in S
  <2>1. IsFiniteSet(S \ {x}) /\ Cardinality(S \ {x}) = Cardinality(S) - 1
    BY <1>2, FS_RemoveElement
  <2>2. Cardinality(S \ {x}) \in Nat
    BY <2>1, FS_CardinalityType
  <2> QED
    BY <1>1, <2>1, <2>2
<1>3. CASE x \notin S
  <2>1. S \ {x} = S
    BY <1>3
  <2> QED
    BY <1>1, <2>1
<1> QED
  BY <1>2, <1>3

\* A step makes a buffer and counts it, or refuses one, or leaves their number alone.
LEMMA LiveCounts ==
  ASSUME Control, Apart, JobControl, CountersType, [JobNext]_jobState, ~failed'
  PROVE  /\ Cardinality(Live) \in Nat /\ Cardinality(Live') \in Nat
         /\ \/ Cardinality(Live') = Cardinality(Live) /\ allocations' = allocations
            \/ Cardinality(Live') = Cardinality(Live) + 1 /\ allocations' = allocations + 1
            \/ \E t \in Threads : /\ Unclaim(t)
                                  /\ Cardinality(Live') >= Cardinality(Live) - 1
                                  /\ allocations' = allocations
<1>1. /\ IsFiniteSet(Live) /\ Cardinality(Live) \in Nat
      /\ IsFiniteSet(Live') /\ Cardinality(Live') \in Nat
  <2>1. IsFiniteSet(Live) /\ IsFiniteSet(Live')
    BY LiveFinite, JobUsesPool, ControlStep, LiveTyped, BuffersAssumption, FS_Subset
  <2> QED
    BY <2>1, FS_CardinalityType
<1>2. ASSUME NEW b \in Buffers \ Live, Live' = Live \cup {b}
      PROVE  Cardinality(Live') = Cardinality(Live) + 1
  BY <1>1, <1>2, FS_AddElement
<1>3. ASSUME NEW t \in Threads, Live \ {hand[t]} \subseteq Live'
      PROVE  Cardinality(Live') >= Cardinality(Live) - 1
  <2>1. Cardinality(Live \ {hand[t]}) >= Cardinality(Live) - 1 /\ Cardinality(Live \ {hand[t]}) \in Nat
    BY <1>1, OneFewer
  <2>2. Cardinality(Live \ {hand[t]}) <= Cardinality(Live')
    BY <1>1, <1>3, FS_Subset
  <2> QED
    BY <1>1, <2>1, <2>2
<1> QED
  BY <1>1, <1>2, <1>3, LiveFlow

\* An uncapped pool keeps what was allocated; a lease that was served from a pile
\* had been allocated.
MemoryInv ==
  /\ ~failed /\ cap = Uncapped => Cardinality(Live) = allocations
  /\ recycled > 0 => allocations > 0

\* An uncapped pool loses nothing while no item unwinds.
LEMMA MemoryExactStep ==
  ASSUME Control, Apart, JobControl, CountersType, CountersType', AllocationsBoundMemory', MemoryInv,
         [JobNext]_jobState
  PROVE  MemoryInv'
<1>1. ASSUME ~failed', cap' = Uncapped
      PROVE  Cardinality(Live') = allocations'
  <2>1. ~failed /\ cap = Uncapped
    BY <1>1, CalmSteps, JobFixed, JobControlStep DEF JobControl, MainInv
  <2>2. \A t \in Threads : ~Unclaim(t)
    BY <2>1 DEF Unclaim, Control, UnclaimInv
  <2> QED
    BY <1>1, <2>1, <2>2, LiveCounts DEF MemoryInv, CountersType
<1>2. recycled' > 0 => allocations' > 0
  <2> SUFFICES ASSUME recycled' > 0
               PROVE  allocations' > 0
    OBVIOUS
  <2>1. \/ Count
        \/ UNCHANGED <<allocations, recycled>>
    BY JobUsesPool DEF counters, history
  <2>2. CASE UNCHANGED <<allocations, recycled>>
    BY <2>2 DEF MemoryInv
  <2>3. CASE Count /\ recycled > 0
    <3>1. IsFiniteSet(InitRuns)
      BY BuffersAssumption, FS_Subset DEF InitRuns
    <3>2. allocations' = allocations + Cardinality(InitRuns) /\ Cardinality(InitRuns) \in Nat
      BY <2>3, <3>1, FS_CardinalityType DEF Count
    <3> QED
      BY <2>3, <3>2 DEF MemoryInv, CountersType
  <2>4. CASE Count /\ recycled = 0
    <3> DEFINE served == {t \in Threads : pc[t] = "unpark" /\ pc'[t] # "unpark"}
    <3>1. served # {}
      <4>1. recycled' = recycled + Cardinality(served)
        BY <2>4 DEF Count
      <4> QED
        BY <2>4, <4>1, FS_EmptySet
    <3>2. PICK t \in Threads : pc[t] = "unpark" /\ pc'[t] # "unpark"
      BY <3>1
    <3>3. hand[t] \in Buffers /\ [Next]_vars
      BY <3>2, JobUsesPool DEF Control, TypeInv, HandInv, Moving
    <3>4. Unpark(t)
      <4>1. Step(t) \/ Call(t)
        BY <3>2, <3>3, OwnSteps
      <4> QED
        BY <3>2, <4>1
        DEF Step, PopShard, PopReserve, CapAllows, RunInit, InitPanics, FillInit, Reset, ResetPanics,
            Unclaim, Push, DrainPile, DrainSettle, Call, Get, Drain, ThreadExit, Prefill, IntoInner,
            DropGuard, Put, SendGuard
    <3>5. hand[t] \in Live'
      <4>1. hand[t] \in guards'[t]
        BY <3>4 DEF Unpark, Control, TypeInv
      <4> QED
        BY <4>1 DEF Live, Guarded
    <3>6. Cardinality(Live') # 0 /\ Cardinality(Live') \in Nat
      <4>1. IsFiniteSet(Live')
        BY <3>3, ControlStep, LiveTyped, BuffersAssumption, FS_Subset
      <4> QED
        BY <3>5, <4>1, FS_EmptySet, FS_CardinalityType
    <3> QED
      BY <3>6 DEF AllocationsBoundMemory, CountersType
  <2> QED
    BY <2>1, <2>2, <2>3, <2>4 DEF CountersType
<1> QED
  BY <1>1, <1>2 DEF MemoryInv

\* What prefill has allocated and what it has still to stock are what was asked for.
FilledInv ==
  ~failed => filled + toFill[Main] = job.prefill + IF hand[Main] = NoBuffer THEN 0 ELSE 1

\* Prefill counts each buffer it makes.
LEMMA FilledStep ==
  ASSUME Control, JobControl, CountersType, FilledInv, [JobNext]_jobState
  PROVE  FilledInv'
<1> SUFFICES ASSUME ~failed'
             PROVE  filled' + toFill'[Main] = job.prefill + IF hand'[Main] = NoBuffer THEN 0 ELSE 1
  BY JobFixed DEF FilledInv
<1>0. /\ Main \in Threads /\ Main \notin Workers
      /\ \A t \in Threads : t = Main \/ t \in Workers
      /\ \A t \in Workers : t \in Threads
      /\ toFill \in [Threads -> Nat] /\ pc \in [Threads -> PC]
      /\ hand \in [Threads -> Buffers \cup {NoBuffer}] /\ NoBuffer \notin Buffers
      /\ hand[Main] # NoBuffer <=> pc[Main] \in Moving
      /\ ~failed /\ job.prefill \in Nat
  BY JobsAssumption, BuffersAssumption, ProgramsAssumption, CalmSteps
  DEF Workers, Control, TypeInv, HandInv, JobControl, MainInv
<1>1. ASSUME UNCHANGED filled, toFill'[Main] = toFill[Main], hand'[Main] = hand[Main]
      PROVE  filled' + toFill'[Main] = job.prefill + IF hand'[Main] = NoBuffer THEN 0 ELSE 1
  BY <1>0, <1>1 DEF FilledInv
<1>2. ASSUME NEW t \in Workers, Begin(t) \/ Finish(t), Count
      PROVE  UNCHANGED filled /\ toFill'[Main] = toFill[Main] /\ hand'[Main] = hand[Main]
  BY <1>0, <1>2, BeginCounts, FinishCounts DEF Begin, Get, Finish, IntoInner, DropGuard
<1>3. ASSUME (\E t \in Workers : Write(t)) \/ NextRound \/ Leave \/ UNCHANGED jobState
      PROVE  UNCHANGED filled /\ toFill'[Main] = toFill[Main] /\ hand'[Main] = hand[Main]
  BY <1>3 DEF Write, NextRound, Leave, Drain, vars, history, jobState
<1>4. ASSUME NEW t \in Workers, Progress(t), Count
      PROVE  UNCHANGED filled /\ toFill'[Main] = toFill[Main] /\ hand'[Main] = hand[Main]
  <2>1. pc[t] # "fill"
    BY DEF JobControl, WorkerInv, LeaseSteps, ReturnSteps
  <2>2. UNCHANGED filled
    BY <1>0, <1>4, <2>1, ProgressCounts DEF CountersType
  <2>3. toFill'[Main] = toFill[Main] /\ hand'[Main] = hand[Main]
    BY <1>0, <1>4
    DEF Progress, PopShard, PopReserve, Pop, Unpark, RunInit, FillInit, Reset, CapAllows, Unclaim,
        Push, FinishReturn, DrainPile, DrainSettle
  <2> QED
    BY <2>2, <2>3
<1>5. ASSUME Progress(Main), Count
      PROVE  filled' + toFill'[Main] = job.prefill + IF hand'[Main] = NoBuffer THEN 0 ELSE 1
  <2>1. filled' = filled + IF pc[Main] = "fill" THEN 1 ELSE 0
    BY <1>0, <1>5, ProgressCounts
  <2>2. CASE FillInit(Main)
    <3>1. pc[Main] = "fill" /\ toFill' = toFill /\ hand[Main] = NoBuffer /\ hand'[Main] # NoBuffer
      BY <1>0, <2>2 DEF FillInit, Moving
    <3> QED
      BY <1>0, <2>1, <3>1 DEF FilledInv, CountersType
  <2>3. CASE Unclaim(Main) \/ Push(Main)
    <3>1. pc[Main] \in {"unclaim", "push"} /\ toFill[Main] > 0
      BY <2>3 DEF Unclaim, Push, JobControl, MainInv, Filling, FillSteps, ReturnSteps
    <3>2. /\ toFill'[Main] = toFill[Main] - 1
          /\ hand[Main] # NoBuffer /\ hand'[Main] = NoBuffer
      BY <1>0, <2>3, <3>1 DEF Unclaim, Push, FinishReturn, Moving
    <3> QED
      BY <1>0, <2>1, <3>1, <3>2 DEF FilledInv, CountersType
  <2>4. CASE Reset(Main) \/ CapAllows(Main) \/ DrainPile(Main) \/ DrainSettle(Main)
    <3>1. pc[Main] # "fill" /\ UNCHANGED <<toFill, hand>>
      BY <2>4 DEF Reset, CapAllows, DrainPile, DrainSettle
    <3> QED
      BY <1>1, <2>1, <3>1 DEF CountersType
  <2> QED
    BY <1>5, <2>2, <2>3, <2>4
    DEF Progress, PopShard, PopReserve, Unpark, RunInit, JobControl, MainInv, FillSteps, ReturnSteps
<1> QED
  BY <1>0, <1>1, <1>2, <1>3, <1>4, <1>5, CalmSteps

\* Where prefill made a buffer for every worker, no lease makes another.
WarmInv ==
  ~failed /\ cap = Uncapped /\ job.prefill >= Cardinality(Workers)
    /\ ~job.detach /\ ~(job.adds /\ ~job.hook)
    => allocations = filled

\* A pool prefilled for all its workers makes no more: hosts and reserve are enough.
LEMMA WarmStep ==
  ASSUME Control, Apart, JobControl, HostInv, ReserveInv, OwnDataInv, CountersType, MemoryInv,
         FilledInv, WarmInv, [JobNext]_jobState
  PROVE  WarmInv'
<1> SUFFICES ASSUME ~failed', cap' = Uncapped, job.prefill >= Cardinality(Workers),
                    ~job.detach, ~(job.adds /\ ~job.hook)
             PROVE  allocations' = filled'
  BY JobFixed DEF WarmInv
<1>1. ~failed /\ cap = Uncapped /\ Main \in Threads
  BY CalmSteps, JobFixed, JobControlStep, JobsAssumption DEF JobControl, MainInv
<1>2. allocations = filled
  BY <1>1 DEF WarmInv
<1>3. ASSUME NEW t \in Threads
      PROVE  pc[t] # "init"
  <2> SUFFICES ASSUME pc[t] = "init" PROVE FALSE
    OBVIOUS
  <2>1. t \in Workers
    BY DEF JobControl, MainInv, FillSteps, ReturnSteps, Workers
  <2>2. ~Filling
    BY <2>1 DEF JobControl, WorkerInv
  <2>3. toFill[Main] = 0 /\ hand[Main] = NoBuffer
    BY <1>1, <2>2 DEF JobControl, MainInv, Filling, FillSteps, ReturnSteps, Control, TypeInv, HandInv, Moving
  <2>4. filled = job.prefill
    BY <1>1, <2>3, ProgramsAssumption DEF FilledInv, CountersType, JobControl, MainInv
  <2>5. Owned = Live
    BY DEF OwnDataInv, Owned
  <2>6. Cardinality(Owned) < Cardinality(Workers)
    BY <2>1, MakerHasNone
  <2>7. /\ Cardinality(Live) = allocations /\ job.prefill \in Nat
        /\ Cardinality(Workers) \in Nat
    BY <1>1, ProgramsAssumption, BuffersAssumption, FS_Subset, FS_CardinalityType
    DEF MemoryInv, JobControl, MainInv, Workers
  <2> QED
    BY <1>2, <2>4, <2>5, <2>6, <2>7
<1>4. ASSUME NEW t \in Threads, Progress(t), Count
      PROVE  allocations' = filled'
  BY <1>2, <1>3, <1>4, ProgressCounts DEF CountersType
<1>5. ASSUME NEW t \in Workers, Begin(t) \/ Finish(t), Count
      PROVE  allocations' = filled'
  BY <1>2, <1>5, BeginCounts, FinishCounts
<1>6. ASSUME (\E t \in Workers : Write(t)) \/ NextRound \/ Leave \/ UNCHANGED jobState
      PROVE  allocations' = filled'
  BY <1>2, <1>6 DEF Write, NextRound, Leave, jobState, counters, history
<1> QED
  BY <1>4, <1>5, <1>6, CalmSteps

\* An item that has been begun has a worker, or has seen its data at its end.
DoneInv ==
  ~failed /\ ~(job.adds /\ ~job.hook) =>
    \A k \in DOMAIN result \ todo : (\E t \in Workers : item[t] = k) \/ k \in result[k]

\* An item that finished has left its own data in its result.
LEMMA DoneStep ==
  ASSUME Control, JobControl, ItemsInv, OwnDataInv, DoneInv, [JobNext]_jobState
  PROVE  DoneInv'
<1> SUFFICES ASSUME ~failed', ~(job.adds /\ ~job.hook), NEW k \in DOMAIN result \ todo'
             PROVE  (\E t \in Workers : item'[t] = k) \/ k \in result'[k]
  BY JobFixed, ResultDomain DEF DoneInv
<1>0. /\ item \in [Threads -> Items \cup {NoItem}] /\ k # NoItem
      /\ \A t \in Workers : t \in Threads
  BY JobsAssumption DEF JobControl, JobTypes, Workers
<1>1. k \in todo \/ (\E t \in Workers : item[t] = k) \/ k \in result[k]
  BY CalmSteps DEF DoneInv
<1>2. ASSUME NEW t \in Workers, Begin(t)
      PROVE  (\E u \in Workers : item'[u] = k) \/ k \in result'[k]
  <2>1. /\ item[t] = NoItem /\ UNCHANGED result
        /\ \E i \in todo : item' = [item EXCEPT ![t] = i] /\ todo' = todo \ {i}
    BY <1>2 DEF Begin
  <2>2. CASE k \in todo
    BY <1>0, <2>1, <2>2
  <2>3. CASE \E u \in Workers : item[u] = k
    BY <1>0, <2>1, <2>3
  <2> QED
    BY <1>1, <2>1, <2>2, <2>3
<1>3. ASSUME NEW t \in Workers, Finish(t)
      PROVE  (\E u \in Workers : item'[u] = k) \/ k \in result'[k]
  <2>1. PICK b \in guards[t] : result' = [result EXCEPT ![item[t]] = content[b]]
    BY <1>3 DEF Finish
  <2>2. item' = [item EXCEPT ![t] = NoItem] /\ UNCHANGED todo /\ t \in written
    BY <1>3 DEF Finish
  <2>3. content[b] = {item[t]}
    BY <2>1, <2>2 DEF OwnDataInv
  <2>4. CASE k = item[t]
    BY <2>1, <2>3, <2>4
  <2>5. CASE k # item[t]
    BY <1>0, <1>1, <2>1, <2>2, <2>5
  <2> QED
    BY <2>4, <2>5
<1>4. ASSUME (\E t \in Threads : Progress(t)) \/ (\E t \in Workers : Write(t)) \/ Leave
             \/ UNCHANGED jobState
      PROVE  UNCHANGED <<item, result, todo>>
  BY <1>4 DEF Progress, Write, Leave, jobState, jobVars
<1>5. NextRound => todo' = DOMAIN result
  BY DEF NextRound
<1> QED
  BY <1>1, <1>2, <1>3, <1>4, <1>5, CalmSteps

\* The threads that have a dense id.
Numbered == {w \in Workers : tid[w] # Unassigned}

\* Threads spawned for one item each lease once: each selects its shard, the next
\* one, in that lease.
LeaseOnce ==
  /\ taken \in [Threads -> Nat]
  /\ tid[Main] = Unassigned
  /\ \A w \in Workers :
       /\ taken[w] = 0 => pc[w] = "ready" /\ item[w] = NoItem /\ tid[w] = Unassigned
       /\ pc[w] = "pop_shard" => tid[w] = Unassigned
       /\ tid[w] # Unassigned => tid[w] < nextTid
  /\ nextTid = Cardinality(Numbered)

\* Programs that spawn a thread for each item.
SpawnInv == job.each = 1 /\ ~failed => LeaseOnce

\* Who selects a shard has an id from then on.
LEMMA Numbering ==
  ASSUME Control, LeaseOnce, NEW t \in Workers, AssignTid(t)
  PROVE  /\ tid'[Main] = Unassigned
         /\ \A w \in Workers : /\ tid'[w] # Unassigned => tid'[w] < nextTid'
                               /\ w # t => tid'[w] = tid[w]
         /\ nextTid' = Cardinality(Numbered')
<1>0. /\ Main \in Threads /\ Main \notin Workers /\ \A w \in Workers : w \in Threads
      /\ tid \in [Threads -> Nat \cup {Unassigned}] /\ nextTid \in Nat
      /\ IsFiniteSet(Numbered)
  BY JobsAssumption, BuffersAssumption, FS_Subset DEF Workers, Control, TypeInv, Numbered
<1>1. CASE tid[t] = Unassigned
  <2>1. tid' = [tid EXCEPT ![t] = nextTid] /\ nextTid' = nextTid + 1 /\ nextTid # Unassigned
    BY <1>0, <1>1 DEF AssignTid, Tid, Unassigned
  <2>2. Numbered' = Numbered \cup {t} /\ t \notin Numbered
    BY <1>0, <1>1, <2>1 DEF Numbered
  <2>3. Cardinality(Numbered') = Cardinality(Numbered) + 1
    BY <1>0, <2>2, FS_AddElement
  <2>4. \A w \in Workers : tid'[w] # Unassigned => tid'[w] < nextTid'
    BY <1>0, <2>1 DEF LeaseOnce
  <2> QED
    BY <1>0, <2>1, <2>3, <2>4 DEF LeaseOnce
<1>2. CASE tid[t] # Unassigned
  <2>1. UNCHANGED <<tid, nextTid>>
    BY <1>0, <1>2 DEF AssignTid, Tid
  <2> QED
    BY <2>1 DEF LeaseOnce, Numbered
<1> QED
  BY <1>1, <1>2

\* A thread that has finished its one item leases no more.
LEMMA SpawnStep ==
  ASSUME Control, JobControl, SpawnInv, [JobNext]_jobState
  PROVE  SpawnInv'
<1> SUFFICES ASSUME job.each = 1, ~failed'
             PROVE  LeaseOnce'
  BY JobFixed DEF SpawnInv, LeaseOnce
<1>0. /\ Main \in Threads /\ Main \notin Workers
      /\ \A w \in Workers : w \in Threads
      /\ \A t \in Threads : t = Main \/ t \in Workers
      /\ ~failed
      /\ pc \in [Threads -> PC] /\ item \in [Threads -> Items \cup {NoItem}]
      /\ NoItem \notin Items
      /\ toFill \in [Threads -> Nat]
  BY JobsAssumption, CalmSteps, JobFixed DEF Workers, Control, TypeInv, JobControl, JobTypes
<1>s. LeaseOnce
  BY <1>0 DEF SpawnInv
<1>1. ASSUME NEW t \in Workers, Begin(t)
      PROVE  LeaseOnce'
  <2>1. /\ taken[t] = 0 /\ taken' = [taken EXCEPT ![t] = taken[t] + 1]
        /\ pc' = [pc EXCEPT ![t] = "pop_shard"]
        /\ UNCHANGED <<tid, nextTid>>
        /\ \A w \in Workers \ {t} : item'[w] = item[w]
    BY <1>0, <1>1, <1>s DEF LeaseOnce, Begin, Get
  <2>2. Numbered' = Numbered
    BY <2>1 DEF Numbered
  <2>3. taken' \in [Threads -> Nat] /\ taken'[t] = 1
    BY <1>0, <1>s, <2>1 DEF LeaseOnce
  <2> QED
    BY <1>0, <1>s, <2>1, <2>2, <2>3 DEF LeaseOnce
<1>2. ASSUME NEW t \in Workers, Finish(t)
      PROVE  LeaseOnce'
  <2>1. /\ taken[t] # 0 /\ taken' = taken
        /\ pc' = pc \/ pc' = [pc EXCEPT ![t] = "reset"]
        /\ UNCHANGED <<tid, nextTid>>
        /\ \A w \in Workers \ {t} : item'[w] = item[w]
    BY <1>0, <1>2, <1>s DEF LeaseOnce, Finish, HoldsLease, IntoInner, DropGuard
  <2>2. Numbered' = Numbered
    BY <2>1 DEF Numbered
  <2> QED
    BY <1>0, <1>s, <2>1, <2>2 DEF LeaseOnce
<1>3. ASSUME NEW t \in Threads, Progress(t)
      PROVE  LeaseOnce'
  <2>1. UNCHANGED <<taken, item>>
    BY <1>3 DEF Progress
  <2>2. /\ pc[t] # "ready" /\ pc'[t] # "pop_shard"
        /\ \A u \in Threads \ {t} : pc'[u] = pc[u]
    <3>1. CASE PopShard(t)
      BY <1>0, <3>1 DEF PopShard, Pop
    <3>2. CASE PopReserve(t)
      BY <1>0, <3>2 DEF PopReserve, Pop
    <3>3. CASE Unpark(t) \/ RunInit(t) \/ FillInit(t) \/ Reset(t) \/ CapAllows(t)
      BY <1>0, <3>3 DEF Unpark, RunInit, FillInit, Reset, CapAllows
    <3>4. CASE Unclaim(t) \/ Push(t)
      BY <1>0, <3>4 DEF Unclaim, Push, FinishReturn
    <3>5. CASE DrainPile(t) \/ DrainSettle(t)
      BY <1>0, <3>5 DEF DrainPile, DrainSettle
    <3> QED
      BY <1>3, <3>1, <3>2, <3>3, <3>4, <3>5 DEF Progress
  <2>3. t \in Workers => taken[t] # 0
    BY <1>s, <2>2 DEF LeaseOnce
  <2>4. (t \in Workers /\ AssignTid(t)) \/ UNCHANGED <<tid, nextTid>>
    <3>1. CASE PopShard(t)
      <4>1. t # Main
        BY <3>1 DEF PopShard, JobControl, MainInv, FillSteps, ReturnSteps
      <4> QED
        BY <1>0, <3>1, <4>1 DEF PopShard
    <3>2. CASE Push(t)
      <4>1. t = Main => toFill[t] > 0
        BY <3>2 DEF Push, JobControl, MainInv, Filling, FillSteps, ReturnSteps
      <4> QED
        BY <1>0, <3>2, <4>1 DEF Push
    <3>3. CASE ~PopShard(t) /\ ~Push(t)
      BY <1>3, <3>3
      DEF Progress, PopReserve, Unpark, RunInit, FillInit, Reset, CapAllows, Unclaim, DrainPile,
          DrainSettle
    <3> QED
      BY <3>1, <3>2, <3>3
  <2>5. CASE t \in Workers /\ AssignTid(t)
    <3>1. /\ tid'[Main] = Unassigned
          /\ \A w \in Workers : /\ tid'[w] # Unassigned => tid'[w] < nextTid'
                                /\ w # t => tid'[w] = tid[w]
          /\ nextTid' = Cardinality(Numbered')
      BY <1>s, <2>5, Numbering
    <3>2. ASSUME NEW w \in Workers
          PROVE  /\ taken'[w] = 0 => pc'[w] = "ready" /\ item'[w] = NoItem /\ tid'[w] = Unassigned
                 /\ pc'[w] = "pop_shard" => tid'[w] = Unassigned
                 /\ tid'[w] # Unassigned => tid'[w] < nextTid'
      <4>1. CASE w = t
        BY <2>1, <2>2, <2>3, <2>5, <3>1, <4>1
      <4>2. CASE w # t
        <5>1. pc'[w] = pc[w] /\ tid'[w] = tid[w] /\ w \in Threads
          BY <1>0, <2>2, <3>1, <4>2
        <5> QED
          BY <1>s, <2>1, <3>1, <5>1 DEF LeaseOnce
      <4> QED
        BY <4>1, <4>2
    <3>3. taken' \in [Threads -> Nat]
      BY <1>s, <2>1 DEF LeaseOnce
    <3> QED
      BY <3>1, <3>2, <3>3 DEF LeaseOnce
  <2>6. CASE UNCHANGED <<tid, nextTid>>
    <3>1. Numbered' = Numbered
      BY <2>6 DEF Numbered
    <3> QED
      BY <1>0, <1>s, <2>1, <2>2, <2>3, <2>6, <3>1 DEF LeaseOnce
  <2> QED
    BY <2>4, <2>5, <2>6
<1>4. ASSUME (\E t \in Workers : Write(t)) \/ NextRound \/ Leave \/ UNCHANGED jobState
      PROVE  LeaseOnce'
  <2>1. /\ UNCHANGED <<taken, item, tid, nextTid>>
        /\ \A w \in Workers : pc'[w] = pc[w]
    BY <1>0, <1>4 DEF Write, NextRound, Leave, Drain, vars, jobState, jobVars
  <2>2. Numbered' = Numbered
    BY <2>1 DEF Numbered
  <2> QED
    BY <1>0, <1>s, <2>1, <2>2 DEF LeaseOnce
<1> QED
  BY <1>1, <1>2, <1>3, <1>4, CalmSteps

\* Ids below the number of shards select different shards.
LEMMA SmallIds ==
  ASSUME NEW i \in Nat, NEW n \in Nat \ {0}, i < n
  PROVE  i % n = i
  OBVIOUS

\* A new thread selects a shard of its own while there are shards for all.
LEMMA OwnShard ==
  ASSUME Control, JobControl, HostInv, LeaseOnce, Cardinality(Workers) <= NumShards,
         NEW t \in Workers, pc[t] = "pop_shard"
  PROVE  Range(pile[Shard(t)]) = {}
<1>0. /\ t \in Threads /\ IsFiniteSet(Workers) /\ Cardinality(Workers) \in Nat
      /\ NumShards \in Nat \ {0} /\ nextTid \in Nat
      /\ tid \in [Threads -> Nat \cup {Unassigned}]
      /\ \A w \in Workers : w \in Threads
      /\ pile \in [Piles -> Seq(Buffers)]
      /\ Shard(t) \in Piles \ {Reserve}
  <2>1. IsFiniteSet(Workers)
    BY BuffersAssumption, FS_Subset DEF Workers
  <2> QED
    BY <2>1, FS_CardinalityType, ShardsAssumption, ShardIsPile DEF Workers, Control, TypeInv
<1>1. nextTid < NumShards
  <2>1. Numbered \subseteq Workers \ {t}
    BY DEF Numbered, LeaseOnce
  <2>2. /\ IsFiniteSet(Workers \ {t})
        /\ Cardinality(Workers \ {t}) = Cardinality(Workers) - 1
    BY <1>0, FS_RemoveElement
  <2>3. Cardinality(Numbered) <= Cardinality(Workers) - 1
    BY <2>1, <2>2, FS_Subset
  <2> QED
    BY <1>0, <2>3 DEF LeaseOnce
<1>2. Shard(t) = nextTid
  <2>1. Tid(t) = nextTid
    BY DEF LeaseOnce, Tid
  <2> QED
    BY <1>0, <1>1, <2>1, SmallIds DEF Shard
<1>3. ASSUME NEW b \in Range(pile[Shard(t)])
      PROVE  FALSE
  <2> PICK f \in [Buffers -> Threads] : Hosted(f)
    BY DEF HostInv
  <2>1. /\ f[b] \in Workers /\ tid[f[b]] # Unassigned
        /\ tid[f[b]] % NumShards = Shard(t)
    BY <1>0 DEF Hosted, Shards
  <2>2. tid[f[b]] \in Nat /\ tid[f[b]] < nextTid
    BY <1>0, <2>1 DEF LeaseOnce
  <2>3. tid[f[b]] % NumShards = tid[f[b]]
    <3>1. tid[f[b]] < NumShards
      BY <1>0, <1>1, <2>2
    <3> QED
      BY <1>0, <2>2, <3>1, SmallIds
  <2>4. tid[f[b]] = nextTid
    BY <1>2, <2>1, <2>3
  <2> QED
    BY <1>0, <2>2, <2>4
<1> QED
  BY <1>3

\* Programs whose pool begins empty and whose leases find nothing to reuse: what
\* is leased is detached, or every thread leases once.
ColdJob ==
  /\ job.prefill = 0
  /\ job.detach \/ (job.each = 1 /\ Cardinality(Workers) <= NumShards)

\* A cold program finds nothing to recycle.
ColdInv ==
  ColdJob /\ ~failed =>
    /\ recycled = 0 /\ filled = 0 /\ ~Filling
    /\ Range(pile[Reserve]) = {}
    /\ \A w \in Workers : pc[w] # "unpark"
    /\ job.detach => /\ \A p \in Piles : Range(pile[p]) = {}
                     /\ \A w \in Workers : pc[w] \notin ReturnSteps

\* A cold program stays cold: no worker comes back to a pile that was filled.
LEMMA ColdStep ==
  ASSUME Control, Apart, JobControl, HostInv, CountersType, SpawnInv, ColdInv, [JobNext]_jobState
  PROVE  ColdInv'
<1> SUFFICES ASSUME ColdJob, ~failed'
             PROVE  /\ recycled' = 0 /\ filled' = 0 /\ ~Filling'
                    /\ Range(pile'[Reserve]) = {}
                    /\ \A w \in Workers : pc'[w] # "unpark"
                    /\ job.detach => /\ \A p \in Piles : Range(pile'[p]) = {}
                                     /\ \A w \in Workers : pc'[w] \notin ReturnSteps
  BY JobFixed DEF ColdInv, ColdJob
<1>0. /\ Main \in Threads /\ Main \notin Workers
      /\ \A w \in Workers : w \in Threads
      /\ \A t \in Threads : t = Main \/ t \in Workers
      /\ pc \in [Threads -> PC] /\ pile \in [Piles -> Seq(Buffers)] /\ Reserve \in Piles
      /\ \A w \in Workers : toFill[w] = 0
      /\ pc[Main] \in {"ready", "drain", "settle"}
      /\ [Next]_vars /\ ~failed
      /\ recycled = 0 /\ filled = 0 /\ ~Filling
      /\ Range(pile[Reserve]) = {}
      /\ \A w \in Workers : pc[w] # "unpark" /\ pc[w] # "fill"
      /\ job.detach => /\ \A p \in Piles : Range(pile[p]) = {}
                       /\ \A w \in Workers : pc[w] \notin ReturnSteps
  <2>1. ~failed
    BY CalmSteps
  <2>2. Main \in Threads /\ Reserve \in Piles
    BY JobsAssumption, ShardsAssumption DEF Reserve, Piles
  <2>3. \A w \in Workers : toFill[w] = 0 /\ pc[w] # "fill"
    BY DEF JobControl, WorkerInv, LeaseSteps, ReturnSteps
  <2>4. pc[Main] \in {"ready", "drain", "settle"}
    BY <2>1 DEF ColdInv, JobControl, MainInv, Filling
  <2> QED
    BY <2>1, <2>2, <2>3, <2>4, JobUsesPool DEF ColdInv, Workers, Control, TypeInv
<1>1. recycled' = 0 /\ filled' = 0
  <2>1. ASSUME NEW t \in Threads, Progress(t), Count
        PROVE  recycled' = 0 /\ filled' = 0
    <3>1. pc[t] # "unpark" /\ pc[t] # "fill"
      BY <1>0
    <3> QED
      BY <1>0, <2>1, <3>1, ProgressCounts
  <2>2. ASSUME NEW t \in Workers, Begin(t) \/ Finish(t), Count
        PROVE  recycled' = 0 /\ filled' = 0
    BY <1>0, <2>2, BeginCounts, FinishCounts
  <2>3. (\E t \in Workers : Write(t)) \/ NextRound \/ Leave \/ UNCHANGED jobState
          => UNCHANGED <<recycled, filled>>
    BY DEF Write, NextRound, Leave, jobState, history
  <2> QED
    BY <1>0, <2>1, <2>2, <2>3, CalmSteps
<1>2. ~Filling'
  BY <1>0, FillOnce
<1>3. Range(pile'[Reserve]) = {}
  <2>1. ASSUME NEW t \in Threads, Push(t)
        PROVE  Target(t) # Reserve
    <3>1. toFill[t] = 0
      BY <1>0, <2>1 DEF Push
    <3>2. Target(t) = Shard(t)
      BY <3>1 DEF Target
    <3> QED
      BY <3>2, ShardIsPile DEF Control
  <2> QED
    BY <1>0, <2>1, PilesShrink
<1>4. ASSUME NEW w \in Workers
      PROVE  /\ pc'[w] # "unpark"
             /\ job.detach => pc'[w] \notin ReturnSteps
  <2>1. ASSUME NEW p \in Piles, NEW miss, Pop(w, p, miss), Range(pile[p]) = {}
        PROVE  pc'[w] = miss
    <3>1. pile[p] = <<>>
      BY <1>0, <2>1, PopRange DEF Apart
    <3> QED
      BY <1>0, <2>1, <3>1 DEF Pop
  <2>2. CASE PopShard(w)
    <3>1. Shard(w) \in Piles /\ Range(pile[Shard(w)]) = {}
      BY <1>0, <2>2, OwnShard, ShardIsPile DEF ColdJob, SpawnInv, PopShard, Control
    <3> QED
      BY <2>1, <2>2, <3>1 DEF PopShard, ReturnSteps
  <2>3. CASE PopReserve(w)
    BY <1>0, <2>1, <2>3 DEF PopReserve, ReturnSteps
  <2>4. CASE Progress(w) /\ ~PopShard(w) /\ ~PopReserve(w)
    <3>1. CASE Unpark(w) \/ RunInit(w) \/ FillInit(w) \/ Reset(w) \/ CapAllows(w)
      BY <1>0, <3>1 DEF Unpark, RunInit, FillInit, Reset, CapAllows, ReturnSteps
    <3>2. CASE Unclaim(w) \/ Push(w)
      BY <1>0, <3>2 DEF Unclaim, Push, FinishReturn, ReturnSteps
    <3>3. CASE DrainPile(w) \/ DrainSettle(w)
      BY <1>0, <3>3 DEF DrainPile, DrainSettle, ReturnSteps
    <3> QED
      BY <2>4, <3>1, <3>2, <3>3 DEF Progress
  <2>5. ASSUME NEW t \in Threads, Progress(t), t # w
        PROVE  pc'[w] = pc[w]
    <3>1. CASE PopShard(t) \/ PopReserve(t)
      BY <1>0, <2>5, <3>1 DEF PopShard, PopReserve, Pop
    <3>2. CASE Unpark(t) \/ RunInit(t) \/ FillInit(t) \/ Reset(t) \/ CapAllows(t)
      BY <1>0, <2>5, <3>2 DEF Unpark, RunInit, FillInit, Reset, CapAllows
    <3>3. CASE Unclaim(t) \/ Push(t) \/ DrainPile(t) \/ DrainSettle(t)
      BY <1>0, <2>5, <3>3 DEF Unclaim, Push, FinishReturn, DrainPile, DrainSettle
    <3> QED
      BY <2>5, <3>1, <3>2, <3>3 DEF Progress
  <2>6. ASSUME NEW t \in Workers, Begin(t)
        PROVE  pc'[w] = pc[w] \/ pc'[w] = "pop_shard"
    BY <1>0, <2>6 DEF Begin, Get
  <2>7. ASSUME NEW t \in Workers, Finish(t)
        PROVE  pc'[w] = pc[w] \/ (pc'[w] = "reset" /\ ~job.detach)
    BY <1>0, <2>7 DEF Finish, IntoInner, DropGuard
  <2>8. (\E t \in Workers : Write(t)) \/ NextRound \/ Leave \/ UNCHANGED jobState
          => pc'[w] = pc[w]
    BY <1>0 DEF Write, NextRound, Leave, Drain, vars, jobState
  <2> QED
    BY <1>0, <2>2, <2>3, <2>4, <2>5, <2>6, <2>7, <2>8, CalmSteps DEF ReturnSteps
<1>5. ASSUME job.detach, NEW p \in Piles
      PROVE  Range(pile'[p]) = {}
  <2>1. \A t \in Threads : ~Push(t)
    BY <1>0, <1>5 DEF Push, ReturnSteps
  <2> QED
    BY <1>0, <1>5, <2>1, PilesShrink
<1> QED
  BY <1>1, <1>2, <1>3, <1>4, <1>5

\* What a capped pool keeps fits under its cap at any time.
CapacityInv == cap # Uncapped => Cardinality(Parked) <= cap

\* Neither a return nor prefill parks beyond the cap.
LEMMA CapacityStep ==
  ASSUME Control, Apart, ClaimsFitCap, JobControl, CapacityInv, [JobNext]_jobState
  PROVE  CapacityInv'
<1>0. [Next]_vars /\ UNCHANGED cap
  BY JobUsesPool, JobFixed, JobControlStep DEF JobControl, MainInv
<1> SUFFICES ASSUME cap # Uncapped
             PROVE  Cardinality(Parked') <= cap
  BY <1>0 DEF CapacityInv
<1>1. CASE Parked' \subseteq Parked
  <2>1. IsFiniteSet(Parked) /\ Cardinality(Parked) \in Nat
    BY CountedFinite, FS_Subset, FS_CardinalityType DEF Counted
  <2>2. Cardinality(Parked') <= Cardinality(Parked) /\ Cardinality(Parked') \in Nat
    BY <1>1, <2>1, FS_Subset, FS_CardinalityType
  <2> QED
    BY <2>1, <2>2, CapsAssumption DEF CapacityInv, Control, TypeInv
<1> QED
  BY <1>0, <1>1, ParkingStep

\* What a step leaves admitted is finite, and fits under the cap.
LEMMA AdmittedFits ==
  ASSUME Control', ClaimsFitCap', CapacityInv', cap' # Uncapped
  PROVE  /\ IsFiniteSet(Admitted') /\ Cardinality(Admitted') \in Nat
         /\ Cardinality(Admitted') <= cap' /\ cap' \in Nat
<1>1. Admitted' \subseteq Buffers
  <2>1. Parked' \subseteq Buffers
    BY RangeOfSeq DEF Control, TypeInv, Parked
  <2>2. \A t \in Claims' : hand'[t] \in Buffers
    BY DEF Control, TypeInv, HandInv, Moving, Claims
  <2> QED
    BY <2>1, <2>2 DEF Admitted
<1>2. IsFiniteSet(Admitted') /\ Cardinality(Admitted') \in Nat
  BY <1>1, BuffersAssumption, FS_Subset, FS_CardinalityType
<1>3. Cardinality(Admitted') <= cap'
  <2>1. CASE Claims' # {}
    BY <2>1 DEF ClaimsFitCap
  <2>2. CASE Claims' = {}
    <3>1. Admitted' = Parked'
      BY <2>2 DEF Admitted
    <3> QED
      BY <3>1 DEF CapacityInv
  <2> QED
    BY <2>1, <2>2
<1>4. cap' \in Nat
  BY CapsAssumption DEF Control, TypeInv
<1> QED
  BY <1>2, <1>3, <1>4

\* What has been taken stays taken.
LEMMA TakenStays ==
  ASSUME Control, CountersType, [JobNext]_jobState, NothingTaken'
  PROVE  NothingTaken
<1> DEFINE U == {t \in Threads : pc[t] = "unpark" /\ pc'[t] # "unpark"}
<1>0. IsFiniteSet(U) /\ Cardinality(U) \in Nat /\ recycled \in Nat
  BY BuffersAssumption, FS_Subset, FS_CardinalityType DEF CountersType
<1>1. CASE Count
  <2>1. recycled' = recycled + Cardinality(U)
    BY <1>1 DEF Count
  <2>2. recycled = 0 /\ Cardinality(U) = 0
    BY <1>0, <2>1 DEF NothingTaken
  <2>3. U = {}
    BY <1>0, <2>2, FS_EmptySet
  <2> QED
    BY <2>2, <2>3 DEF NothingTaken
<1>2. CASE UNCHANGED history /\ (UNCHANGED vars \/ Drain(Main))
  <2>1. \A t \in Threads : pc[t] = "unpark" => pc'[t] = "unpark"
    BY <1>2 DEF vars, Drain, Control, TypeInv
  <2> QED
    BY <1>2, <2>1 DEF history, NothingTaken
<1> QED
  BY <1>1, <1>2, JobUsesPool

\* A capped pool from which nothing is taken keeps what it has admitted.
LEMMA AdmittedStay ==
  ASSUME Control, Apart, JobControl, cap # Uncapped, [JobNext]_jobState, NothingTaken'
  PROVE  Admitted \subseteq Admitted'
<1>0. /\ [Next]_vars
      /\ pc \in [Threads -> PC] /\ hand \in [Threads -> Buffers \cup {NoBuffer}]
      /\ pile \in [Piles -> Seq(Buffers)]
      /\ \A t \in Threads : pc'[t] # "unpark" /\ pc[t] # "drain"
  <2>1. \A t \in Threads : pc[t] # "drain"
    <3>1. ~job.drains
      BY ProgramsAssumption DEF JobControl, MainInv
    <3> QED
      BY <3>1 DEF Workers, JobControl, MainInv, WorkerInv, LeaseSteps, ReturnSteps
  <2> QED
    BY <2>1, JobUsesPool DEF Control, TypeInv, NothingTaken
<1>1. ASSUME NEW t \in Threads, PopShard(t) \/ PopReserve(t)
      PROVE  UNCHANGED <<pile, hand>>
  BY <1>0, <1>1 DEF PopShard, PopReserve, Pop
<1>2. Parked \subseteq Parked'
  <2>1. CASE UNCHANGED pile
    BY <2>1 DEF Parked
  <2>2. ASSUME NEW t \in Threads, Push(t)
        PROVE  Parked \subseteq Parked'
    BY <2>2, PushParks
  <2>3. ASSUME NEW t \in Threads, Step(t), ~Push(t)
        PROVE  UNCHANGED pile
    BY <1>0, <1>1, <2>3
    DEF Step, Unpark, RunInit, InitPanics, FillInit, Reset, ResetPanics, CapAllows, Unclaim,
        DrainPile, DrainSettle
  <2>4. ASSUME NEW t \in Threads, Call(t)
        PROVE  UNCHANGED pile
    BY <2>4 DEF Call, Get, Drain, ThreadExit, Prefill, IntoInner, DropGuard, Put, SendGuard
  <2> QED
    BY <1>0, <2>1, <2>2, <2>3, <2>4 DEF Next, vars, DropLoose, WithMaxIdle, WithReset
<1>3. ASSUME NEW t \in Claims
      PROVE  hand[t] \in Admitted'
  <2>1. t \in Threads /\ pc[t] = "push"
    BY DEF Claims
  <2>2. CASE Push(t)
    BY <2>1, <2>2, PushParks DEF Admitted
  <2>3. CASE ~Push(t)
    <3>1. ~Step(t) /\ (Call(t) => pc'[t] = pc[t] /\ hand'[t] = hand[t])
      <4>1. ~Step(t)
        BY <2>1, <2>3
        DEF Step, PopShard, PopReserve, Unpark, RunInit, InitPanics, FillInit, Reset, ResetPanics,
            CapAllows, Unclaim, DrainPile, DrainSettle
      <4>2. Call(t) => pc'[t] = pc[t] /\ hand'[t] = hand[t]
        BY <2>1
        DEF Call, Get, Drain, ThreadExit, Prefill, IntoInner, DropGuard, Put, SendGuard
      <4> QED
        BY <4>1, <4>2
    <3>2. pc'[t] = pc[t]
      BY <1>0, <2>1, <3>1, OwnSteps
    <3>3. hand'[t] = hand[t]
      <4>1. ASSUME NEW u \in Threads, Step(u)
            PROVE  hand'[t] = hand[t]
        BY <1>0, <1>1, <2>1, <3>1, <4>1
        DEF Step, Unpark, RunInit, InitPanics, FillInit, Reset, ResetPanics, CapAllows, Unclaim,
            Push, FinishReturn, DrainPile, DrainSettle
      <4>2. ASSUME NEW u \in Threads, Call(u)
            PROVE  hand'[t] = hand[t]
        BY <1>0, <2>1, <4>2
        DEF Call, Get, Drain, ThreadExit, Prefill, IntoInner, DropGuard, Put, SendGuard
      <4> QED
        BY <1>0, <4>1, <4>2 DEF Next, vars, DropLoose, WithMaxIdle, WithReset
    <3> QED
      BY <2>1, <3>2, <3>3 DEF Admitted, Claims
  <2> QED
    BY <2>2, <2>3
<1> QED
  BY <1>2, <1>3 DEF Admitted

\* Without an overclaim under way the counter of such a pool is what it has
\* admitted; with one, at least that.
LEMMA AdmittedCount ==
  ASSUME Control, CountExact, JobControl, cap # Uncapped, NothingTaken
  PROVE  /\ parked >= Cardinality(Admitted)
         /\ (\A t \in Threads : pc[t] # "unclaim") => parked = Cardinality(Admitted)
<1>1. Hauled = {}
  <2>1. ~job.drains
    BY ProgramsAssumption DEF JobControl, MainInv
  <2>2. \A t \in Threads : pc[t] \notin {"drain", "settle"}
    BY <2>1 DEF Workers, JobControl, MainInv, WorkerInv, LeaseSteps, ReturnSteps
  <2> QED
    BY <2>2, EmptyPile DEF Control, HaulInv, Hauled
<1>2. (\A t \in Threads : pc[t] # "unclaim") => Counted = Admitted
  BY <1>1 DEF Counted, Admitted, Pending, Claims, NothingTaken
<1> QED
  BY <1>2, AdmittedFinite, CountedFinite DEF CountExact

\* Overclaims take no slot from one another.
LEMMA RefusedStep ==
  ASSUME NeedInv, CountersType, CapacityInv, RefusedOnlyAtCap, [JobNext]_jobState
  PROVE  RefusedOnlyAtCap'
<1>0. /\ Control /\ Apart /\ CountExact /\ ClaimsFitCap /\ JobControl
      /\ Control' /\ ClaimsFitCap' /\ CapacityInv'
      /\ [Next]_vars /\ UNCHANGED cap
  <2>1. Control /\ Apart /\ CountExact /\ ClaimsFitCap /\ JobControl
    BY DEF NeedInv, IInv
  <2>2. NeedInv'
    BY NeedStep
  <2> QED
    BY <2>1, <2>2, JobUsesPool, JobFixed, CapacityStep DEF NeedInv, IInv, JobControl, MainInv
<1> SUFFICES ASSUME cap # Uncapped, NothingTaken', NEW t \in Threads, pc'[t] = "unclaim"
             PROVE  Cardinality(Admitted') = cap
  BY <1>0 DEF RefusedOnlyAtCap
<1>1. /\ NothingTaken
      /\ \A u \in Threads : pc[u] = "unclaim" => Cardinality(Admitted) = cap
  BY <1>0, TakenStays DEF RefusedOnlyAtCap
<1>2. /\ cap \in Nat /\ parked \in Int
      /\ Cardinality(Admitted) \in Nat /\ Cardinality(Admitted') \in Nat
      /\ Cardinality(Admitted) <= Cardinality(Admitted')
      /\ Cardinality(Admitted') <= cap
  <2>1. /\ IsFiniteSet(Admitted') /\ Cardinality(Admitted') \in Nat
        /\ Cardinality(Admitted') <= cap /\ cap \in Nat
    BY <1>0, AdmittedFits
  <2>2. Admitted \subseteq Admitted'
    BY <1>0, AdmittedStay
  <2>3. Cardinality(Admitted) \in Nat /\ Cardinality(Admitted) <= Cardinality(Admitted')
    BY <1>0, <2>1, <2>2, FS_Subset, AdmittedFinite
  <2> QED
    BY <1>0, <2>1, <2>3 DEF Control, TypeInv
<1>3. Cardinality(Admitted) >= cap
  <2>1. CASE pc[t] = "unclaim"
    BY <1>1, <1>2, <2>1
  <2>2. CASE pc[t] # "unclaim"
    <3>1. pc[t] = "cap_allows"
      BY <1>0, <2>2, CallsProceed DEF Proceeds
    <3>2. CapAllows(t)
      <4>1. Step(t) \/ Call(t)
        BY <1>0, <3>1, OwnSteps
      <4> QED
        BY <3>1, <4>1
        DEF Step, PopShard, PopReserve, Unpark, RunInit, InitPanics, FillInit, Reset, ResetPanics,
            Unclaim, Push, DrainPile, DrainSettle, Call, Get, Drain, ThreadExit, Prefill, IntoInner,
            DropGuard, Put, SendGuard
    <3>3. parked >= cap
      BY <1>0, <3>2 DEF CapAllows, Full, Control, TypeInv
    <3>4. CASE \E u \in Threads : pc[u] = "unclaim"
      BY <1>1, <1>2, <3>4
    <3>5. CASE \A u \in Threads : pc[u] # "unclaim"
      BY <1>0, <1>1, <3>3, <3>5, AdmittedCount
    <3> QED
      BY <3>4, <3>5
  <2> QED
    BY <2>1, <2>2
<1> QED
  BY <1>2, <1>3

\* The inductive invariant of the cap under racing returns.
RefusalInv == NeedInv /\ Books /\ CapacityInv /\ RefusedOnlyAtCap

\* It holds at first,
LEMMA RefusalStart == JobInit => CapacityInv /\ RefusedOnlyAtCap
<1> SUFFICES ASSUME JobInit PROVE CapacityInv /\ RefusedOnlyAtCap
  OBVIOUS
<1>1. CapacityInv
  <2>1. Parked = {}
    BY EmptyPile DEF JobInit, Parked
  <2>2. cap \in Caps \cup {Uncapped} /\ Cardinality(Parked) = 0
    BY <2>1, ProgramsAssumption, FS_EmptySet DEF JobInit
  <2> QED
    BY <2>2, CapsAssumption DEF CapacityInv
<1>2. \A t \in Threads : pc[t] # "unclaim"
  BY DEF JobInit
<1> QED
  BY <1>1, <1>2 DEF RefusedOnlyAtCap

\* and every step of a program keeps it.
LEMMA RefusalStep == RefusalInv /\ [JobNext]_jobState => RefusalInv'
<1> SUFFICES ASSUME RefusalInv, [JobNext]_jobState
             PROVE  RefusalInv'
  OBVIOUS
<1>1. /\ NeedInv /\ Books /\ CapacityInv /\ RefusedOnlyAtCap
      /\ Control /\ Apart /\ ClaimsFitCap /\ JobControl /\ CountersType
  BY DEF RefusalInv, NeedInv, IInv, Books
<1> QED
  BY <1>1, NeedStep, BooksStep, CapacityStep, RefusedStep DEF RefusalInv

\* However many returns race at the cap of a program, none that is turned away
\* costs another its slot.
THEOREM RefusalsMeetTheCap == JobSpec => []RefusedOnlyAtCap
<1>1. JobInit => RefusalInv
  BY NeedStart, BooksStart, RefusalStart DEF RefusalInv
<1>2. RefusalInv => RefusedOnlyAtCap
  BY DEF RefusalInv
<1> QED
  BY <1>1, <1>2, RefusalStep, PTL DEF JobSpec, jobState

\* Threads spawned for one item each, that return to a capped pool.
RefusingJob ==
  /\ job.prefill = 0 /\ job.each = 1 /\ job.cap # Uncapped
  /\ Cardinality(Workers) <= NumShards

\* Nothing is dropped before the pool has admitted all that its cap allows.
RefuseInv ==
  RefusingJob /\ ~failed =>
    Cardinality(Live) = allocations \/ Cardinality(Admitted) = cap

\* A return that is refused finds the cap reached, and it stays reached.
LEMMA RefuseStep ==
  ASSUME NeedInv, CountersType, CapacityInv, RefusedOnlyAtCap, ColdInv, ColdInv', RefuseInv,
         [JobNext]_jobState
  PROVE  RefuseInv'
<1>0. /\ Control /\ Apart /\ CountExact /\ ClaimsFitCap /\ JobControl
      /\ Control' /\ JobControl' /\ ClaimsFitCap' /\ CapacityInv'
      /\ UNCHANGED <<job, cap>> /\ cap = job.cap
  <2>1. Control /\ Apart /\ CountExact /\ ClaimsFitCap /\ JobControl
    BY DEF NeedInv, IInv
  <2>2. NeedInv'
    BY NeedStep
  <2> QED
    BY <2>1, <2>2, JobFixed, CapacityStep DEF NeedInv, IInv, JobControl, MainInv
<1> SUFFICES ASSUME RefusingJob, ~failed', Cardinality(Live') # allocations'
             PROVE  Cardinality(Admitted') = cap
  BY <1>0 DEF RefuseInv, RefusingJob
<1>1. ~failed /\ ColdJob /\ ColdJob' /\ cap # Uncapped
  BY <1>0, CalmSteps DEF RefusingJob, ColdJob
<1>2. NothingTaken /\ NothingTaken'
  <2>1. pc[Main] # "unpark" /\ pc'[Main] # "unpark"
    BY <1>0 DEF JobControl, MainInv, FillSteps, ReturnSteps
  <2>2. /\ recycled = 0 /\ \A w \in Workers : pc[w] # "unpark"
        /\ recycled' = 0 /\ \A w \in Workers : pc'[w] # "unpark"
    BY <1>1 DEF ColdInv
  <2> QED
    BY <2>1, <2>2 DEF NothingTaken, Workers
<1>3. Cardinality(Admitted) = cap
  <2>1. CASE Cardinality(Live) # allocations
    BY <1>1, <2>1 DEF RefuseInv
  <2>2. CASE Cardinality(Live) = allocations
    <3>1. PICK t \in Threads : Unclaim(t)
      BY <1>0, <2>2, LiveCounts DEF CountersType
    <3> QED
      BY <1>1, <1>2, <3>1 DEF Unclaim, RefusedOnlyAtCap
  <2> QED
    BY <2>1, <2>2
<1>4. /\ IsFiniteSet(Admitted') /\ Cardinality(Admitted') \in Nat
      /\ Cardinality(Admitted') <= cap /\ cap \in Nat
  BY <1>0, <1>1, AdmittedFits
<1>5. Cardinality(Admitted) <= Cardinality(Admitted')
  BY <1>0, <1>1, <1>2, <1>4, AdmittedStay, FS_Subset
<1> QED
  BY <1>3, <1>4, <1>5

-----------------------------------------------------------------------------

\* The inductive invariant of the programs' assertions.
AssertInv ==
  /\ NeedInv /\ ContentInv /\ Books /\ SumInv
  /\ TallyInv /\ MemoryInv /\ FilledInv /\ WarmInv /\ DoneInv
  /\ SpawnInv /\ ColdInv /\ CapacityInv /\ RefusedOnlyAtCap /\ RefuseInv

\* It holds at first,
LEMMA AssertStart == JobInit => AssertInv
<1> SUFFICES ASSUME JobInit PROVE AssertInv
  OBVIOUS
<1>0. /\ NeedInv /\ ContentInv /\ Books /\ SumInv
      /\ Main \in Threads /\ toFill[Main] = job.prefill /\ job.prefill \in Nat
      /\ \A p \in Piles : pile[p] = <<>>
      /\ Cardinality({}) = 0
  BY NeedStart, ContentStart, BooksStart, SumStart, JobsAssumption, ProgramsAssumption, FS_EmptySet
  DEF JobInit
<1>1. Live = {} /\ Parked = {}
  BY EmptyPile DEF JobInit, Live, Parked, InHand, Guarded, Hauled
<1>2. TallyInv
  <2>1. DOMAIN result = todo /\ Cardinality(todo) = job.items
    BY DEF JobInit
  <2>2. DOMAIN result \ todo = {}
    BY <2>1
  <2>3. leases = 0 /\ phase = "loop" /\ 0 <= MaxLeases
    BY WordAssumption DEF JobInit
  <2> QED
    BY <1>0, <2>1, <2>2, <2>3 DEF TallyInv
<1>3. MemoryInv
  BY <1>0, <1>1 DEF MemoryInv, JobInit
<1>4. FilledInv
  BY <1>0 DEF FilledInv, JobInit
<1>5. WarmInv /\ DoneInv
  BY DEF WarmInv, DoneInv, JobInit
<1>6. SpawnInv
  <2> SUFFICES ASSUME job.each = 1
               PROVE  LeaseOnce
    BY DEF SpawnInv
  <2>1. tid = [t \in Threads |-> Unassigned] /\ nextTid = 0
    BY DEF JobInit
  <2>2. Numbered = {}
    BY <2>1 DEF Numbered, Workers
  <2>3. \A w \in Workers : w \in Threads /\ w # Main
    BY DEF Workers
  <2> QED
    BY <1>0, <2>1, <2>2, <2>3 DEF LeaseOnce, JobInit
<1>7. ColdInv
  <2> SUFFICES ASSUME job.prefill = 0
               PROVE  /\ recycled = 0 /\ filled = 0 /\ ~Filling
                      /\ Range(pile[Reserve]) = {}
                      /\ \A w \in Workers : pc[w] # "unpark"
                      /\ \A p \in Piles : Range(pile[p]) = {}
                      /\ \A w \in Workers : pc[w] \notin ReturnSteps
    BY DEF ColdInv, ColdJob
  <2>1. \A t \in Threads : pc[t] = "ready"
    BY <1>0 DEF JobInit
  <2>2. Reserve \in Piles
    BY ShardsAssumption DEF Reserve, Piles
  <2>3. recycled = 0 /\ filled = 0
    BY DEF JobInit
  <2>4. \A p \in Piles : Range(pile[p]) = {}
    BY <1>0, EmptyPile
  <2>5. ~Filling /\ \A w \in Workers : pc[w] = "ready"
    BY <1>0, <2>1 DEF Filling, FillSteps, ReturnSteps, Workers
  <2> QED
    BY <2>2, <2>3, <2>4, <2>5 DEF ReturnSteps
<1>8. CapacityInv /\ RefusedOnlyAtCap
  BY RefusalStart
<1>9. RefuseInv
  BY <1>0, <1>1 DEF RefuseInv, JobInit
<1> QED
  BY <1>0, <1>2, <1>3, <1>4, <1>5, <1>6, <1>7, <1>8, <1>9 DEF AssertInv

\* and every step of a program keeps it.
LEMMA AssertStep == AssertInv /\ [JobNext]_jobState => AssertInv'
<1> SUFFICES ASSUME AssertInv, [JobNext]_jobState
             PROVE  AssertInv'
  OBVIOUS
<1>1. /\ NeedInv /\ ContentInv /\ Books /\ SumInv
      /\ TallyInv /\ MemoryInv /\ FilledInv /\ WarmInv /\ DoneInv
      /\ SpawnInv /\ ColdInv /\ CapacityInv /\ RefusedOnlyAtCap /\ RefuseInv
  BY DEF AssertInv
<1>2. /\ Control /\ Apart /\ CountExact /\ ClaimsFitCap /\ JobControl /\ HostInv /\ ReserveInv
      /\ ItemsInv /\ FreshInv /\ OwnDataInv
      /\ CountersType /\ LeasesAccounted /\ AllocationsBoundMemory
  BY <1>1 DEF NeedInv, IInv, ContentInv, Books
<1>3. NeedInv' /\ ContentInv' /\ Books' /\ SumInv'
  BY <1>1, <1>2, NeedStep, ContentStep, BooksStep, SumStep
<1>4. CountersType' /\ AllocationsBoundMemory'
  BY <1>3 DEF Books
<1>5. TallyInv' /\ FilledInv' /\ DoneInv' /\ SpawnInv'
  BY <1>1, <1>2, TallyStep, FilledStep, DoneStep, SpawnStep
<1>6. MemoryInv'
  BY <1>1, <1>2, <1>4, MemoryExactStep
<1>7. WarmInv'
  BY <1>1, <1>2, WarmStep
<1>8. ColdInv' /\ CapacityInv' /\ RefusedOnlyAtCap'
  BY <1>1, <1>2, ColdStep, CapacityStep, RefusedStep
<1>9. RefuseInv'
  BY <1>1, <1>2, <1>8, RefuseStep
<1> QED
  BY <1>3, <1>5, <1>6, <1>7, <1>8, <1>9 DEF AssertInv

-----------------------------------------------------------------------------

\* How a program ends when no item has unwound.
LEMMA AtEnd ==
  ASSUME AssertInv, Finished, ~failed
  PROVE  /\ Main \in Threads /\ todo = {} /\ \A t \in Threads : item[t] = NoItem
         /\ Exclusive
         /\ Live = Parked \cup loose
         /\ leases \in Nat /\ allocations \in Nat /\ recycled \in Nat /\ filled \in Nat
         /\ leases = recycled + (allocations - filled)
         /\ job.rounds = 1 => leases = LoopLeases
         /\ LoopLeases = job.items /\ LoopLeases \in Nat
         /\ filled = job.prefill
         /\ CountIdle = Cardinality(Parked)
<1>1. /\ Control /\ Apart /\ JobControl /\ ContentInv
      /\ CountersType /\ LeasesAccounted /\ TallyInv /\ FilledInv
  BY DEF AssertInv, NeedInv, IInv, Books
<1>2. Main \in Threads /\ Main \notin Workers /\ \A t \in Threads : t = Main \/ t \in Workers
  BY JobsAssumption DEF Workers
<1>3. phase = "done" /\ \A t \in Threads : pc[t] = "ready"
  BY DEF Finished
<1>4. todo = {} /\ \A t \in Threads : item[t] = NoItem /\ guards[t] = {}
  BY <1>1, <1>2, <1>3 DEF TallyInv, JobControl, MainInv, WorkerInv
<1>5. \A t \in Threads : hand[t] = NoBuffer /\ haul[t] = <<>>
  BY <1>1, <1>3 DEF Control, HandInv, HaulInv, Moving
<1>6. Exclusive
  BY <1>3, <1>4 DEF Exclusive
<1>7. Live = Parked \cup loose
  <2>1. InHand = {} /\ Guarded = {} /\ Hauled = {}
    BY <1>4, <1>5, EmptyPile DEF InHand, Guarded, Hauled
  <2> QED
    BY <2>1 DEF Live
<1>8. leases = recycled + (allocations - filled)
  <2>1. {t \in Threads : pc[t] \in {"pop_shard", "pop_reserve", "unpark", "init"}} = {}
    BY <1>3
  <2>2. Cardinality({t \in Threads : pc[t] \in {"pop_shard", "pop_reserve", "unpark", "init"}}) = 0
    BY <2>1, FS_EmptySet
  <2> QED
    BY <1>1, <2>2 DEF LeasesAccounted, CountersType
<1>9. /\ job.rounds = 1 => leases = LoopLeases
      /\ LoopLeases = job.items /\ LoopLeases \in Nat
  <2>1. DOMAIN result \ todo = DOMAIN result
    BY <1>4
  <2>2. IsFiniteSet(DOMAIN result)
    BY <1>1, JobsAssumption, FS_Subset DEF JobControl, JobTypes
  <2> QED
    BY <1>1, <2>1, <2>2, FS_CardinalityType DEF TallyInv, LoopLeases
<1>10. filled = job.prefill
  <2>1. ~Filling /\ toFill[Main] \in Nat
    BY <1>1, <1>2, <1>3 DEF Filling, FillSteps, ReturnSteps, Control, TypeInv
  <2>2. toFill[Main] = 0 /\ job.prefill \in Nat
    BY <1>1, <2>1, ProgramsAssumption DEF JobControl, MainInv
  <2> QED
    BY <1>1, <1>2, <1>5, <2>2 DEF FilledInv, CountersType
<1>11. CountIdle = Cardinality(Parked)
  BY <1>1, <1>6, Recount
<1> QED
  BY <1>1, <1>2, <1>4, <1>6, <1>7, <1>8, <1>9, <1>10, <1>11 DEF CountersType

\* At its end a program whose items see their own data has seen all of it, and
\* keeps in the pool what it did not detach.
LEMMA OwnDataAtEnd ==
  ASSUME AssertInv, Finished, ~failed, ~(job.adds /\ ~job.hook)
  PROVE  /\ OwnDataOnly
         /\ ~job.detach => loose = {} /\ Live = Parked
<1>1. OwnDataInv /\ DoneInv
  BY DEF AssertInv, ContentInv
<1>2. \A k \in DOMAIN result : k \in result[k] /\ result[k] \subseteq {k}
  <2>1. \A k \in DOMAIN result : k # NoItem
    BY JobsAssumption DEF AssertInv, NeedInv, JobControl, JobTypes
  <2>2. \A t \in Workers : item[t] = NoItem
    BY AtEnd DEF Workers
  <2>3. todo = {}
    BY AtEnd
  <2> QED
    BY <1>1, <2>1, <2>2, <2>3 DEF OwnDataInv, DoneInv
<1>3. ~job.detach => loose = {}
  BY <1>1 DEF OwnDataInv
<1> QED
  BY <1>2, <1>3, AtEnd DEF OwnDataOnly

\* The records of the programs that assert.
LEMMA Programs ==
  /\ /\ DrainReduce.items = NumItems /\ DrainReduce.rounds = 1 /\ DrainReduce.prefill = 0
     /\ DrainReduce.cap = Uncapped /\ DrainReduce.drains
  /\ RayonScratch.rounds = 1
  /\ /\ NonStaticInit.items = NumItems /\ NonStaticInit.rounds = 1 /\ NonStaticInit.prefill = 0
     /\ NonStaticInit.cap = Uncapped /\ NonStaticInit.hook /\ ~NonStaticInit.detach
  /\ /\ ScopedThreads.rounds = 1 /\ ScopedThreads.prefill = 0
     /\ ScopedThreads.cap = Uncapped /\ ScopedThreads.hook /\ ~ScopedThreads.detach
  /\ DetachCollect.rounds = 1 /\ DetachCollect.prefill = 0 /\ DetachCollect.detach
  /\ /\ DetachCollectScratch.rounds = 1 /\ DetachCollectScratch.prefill = 0
     /\ DetachCollectScratch.cap = Uncapped
     /\ ~DetachCollectScratch.adds /\ ~DetachCollectScratch.detach
  /\ /\ PrefillServesColdLeases.prefill = Cardinality(Workers)
     /\ PrefillServesColdLeases.cap = Uncapped
     /\ ~PrefillServesColdLeases.adds /\ ~PrefillServesColdLeases.detach
  /\ /\ MaxIdleIsGlobal.prefill = 0 /\ MaxIdleIsGlobal.each = 1 /\ MaxIdleIsGlobal.rounds = 1
     /\ MaxIdleIsGlobal.cap = Cardinality(Workers) \div 2
     /\ MaxIdleIsGlobal.items = 1 * Cardinality(Workers)
     /\ ~MaxIdleIsGlobal.adds /\ ~MaxIdleIsGlobal.detach
<1>1. /\ DrainReduce.items = NumItems /\ DrainReduce.rounds = 1 /\ DrainReduce.prefill = 0
      /\ DrainReduce.cap = Uncapped /\ DrainReduce.drains
  BY DEF DrainReduce, Loop
<1>2. RayonScratch.rounds = 1
  BY DEF RayonScratch, Loop
<1>3. /\ NonStaticInit.items = NumItems /\ NonStaticInit.rounds = 1 /\ NonStaticInit.prefill = 0
      /\ NonStaticInit.cap = Uncapped /\ NonStaticInit.hook /\ ~NonStaticInit.detach
  BY DEF NonStaticInit, Loop
<1>4. /\ ScopedThreads.rounds = 1 /\ ScopedThreads.prefill = 0
      /\ ScopedThreads.cap = Uncapped /\ ScopedThreads.hook /\ ~ScopedThreads.detach
  BY DEF ScopedThreads, Spawned, Loop
<1>5. DetachCollect.rounds = 1 /\ DetachCollect.prefill = 0 /\ DetachCollect.detach
  BY DEF DetachCollect, Loop
<1>6. /\ DetachCollectScratch.rounds = 1 /\ DetachCollectScratch.prefill = 0
      /\ DetachCollectScratch.cap = Uncapped
      /\ ~DetachCollectScratch.adds /\ ~DetachCollectScratch.detach
  BY DEF DetachCollectScratch, Loop
<1>7. /\ PrefillServesColdLeases.prefill = Cardinality(Workers)
      /\ PrefillServesColdLeases.cap = Uncapped
      /\ ~PrefillServesColdLeases.adds /\ ~PrefillServesColdLeases.detach
  BY DEF PrefillServesColdLeases, Spawned, Loop
<1>8. /\ MaxIdleIsGlobal.prefill = 0 /\ MaxIdleIsGlobal.each = 1 /\ MaxIdleIsGlobal.rounds = 1
      /\ MaxIdleIsGlobal.cap = Cardinality(Workers) \div 2
      /\ MaxIdleIsGlobal.items = 1 * Cardinality(Workers)
      /\ ~MaxIdleIsGlobal.adds /\ ~MaxIdleIsGlobal.detach
  BY DEF MaxIdleIsGlobal, Spawned, Loop
<1> QED
  BY <1>1, <1>2, <1>3, <1>4, <1>5, <1>6, <1>7, <1>8

\* At its end a program has allocated no more than it needed.
LEMMA FewAtEnd ==
  ASSUME AssertInv, Finished, ~failed, job.cap = Uncapped, ~(job.adds /\ ~job.hook), ~job.detach
  PROVE  /\ allocations = Cardinality(Live)
         /\ allocations <= job.prefill \/ allocations <= Cardinality(Workers)
<1>1. Control /\ JobControl /\ FitInv /\ MemoryInv
  BY DEF AssertInv, NeedInv, IInv
<1>2. allocations = Cardinality(Live)
  BY <1>1 DEF MemoryInv, JobControl, MainInv
<1>3. Live \ loose = Live
  BY OwnDataAtEnd
<1> QED
  BY <1>1, <1>2, <1>3, FitBounds DEF BuffersFitWorkers

\* A cap of half the workers is below their number.
LEMMA HalfIsFewer ==
  ASSUME NEW n \in Nat \ {0}
  PROVE  n \div 2 \in Nat /\ n \div 2 < n
  OBVIOUS

\* Every program asserts what is true, in the setting it is written for: a loop
\* has more items than there are workers, and spawned threads have shards enough
\* (128 in the tests, for 6 threads).
THEOREM ProgramsAssertTruth ==
  ASSUME NumItems \in Nat, NumItems > Cardinality(Workers),
         Workers # {}, Cardinality(Workers) <= NumShards
  PROVE  JobSpec => []AssertionsHold
<1>1. AssertInv => AssertionsHold
  <2> SUFFICES ASSUME AssertInv, Finished, ~failed
               PROVE  /\ job = DrainReduce => DrainReduceAsserts
                      /\ job = RayonScratch => RayonScratchAsserts
                      /\ job = NonStaticInit => NonStaticInitAsserts
                      /\ job = ScopedThreads => ScopedThreadsAsserts
                      /\ job = DetachCollect => DetachCollectAsserts
                      /\ job = DetachCollectScratch => DetachCollectScratchAsserts
                      /\ job = PrefillServesColdLeases => PrefillAsserts
                      /\ job = MaxIdleIsGlobal => MaxIdleAsserts
    BY DEF AssertionsHold
  <2>0. /\ IsFiniteSet(Workers) /\ Cardinality(Workers) \in Nat \ {0}
        /\ Main \in Threads /\ Exclusive
        /\ Live = Parked \cup loose /\ Cardinality(Live) \in Nat
        /\ leases \in Nat /\ allocations \in Nat /\ recycled \in Nat /\ filled \in Nat
        /\ leases = recycled + (allocations - filled)
        /\ job.rounds = 1 => leases = LoopLeases
        /\ LoopLeases = job.items /\ LoopLeases \in Nat
        /\ filled = job.prefill
        /\ CountIdle = Cardinality(Parked)
    <3>1. IsFiniteSet(Workers)
      BY BuffersAssumption, FS_Subset DEF Workers
    <3>2. Cardinality(Workers) \in Nat \ {0}
      BY <3>1, FS_EmptySet, FS_CardinalityType
    <3>3. Cardinality(Live) \in Nat
      BY LiveFinite, FS_CardinalityType DEF AssertInv, NeedInv, IInv
    <3> QED
      BY <3>1, <3>2, <3>3, AtEnd
  <2>a. ASSUME job.rounds = 1, job.prefill = 0, job.items = NumItems
        PROVE  allocations >= 1
    <3>1. recycled > 0 => allocations > 0
      BY DEF AssertInv, MemoryInv
    <3> QED
      BY <2>0, <2>a, <3>1
  <2>1. ASSUME job = DrainReduce
        PROVE  DrainReduceAsserts
    <3>1. /\ job.items = NumItems /\ job.rounds = 1 /\ job.prefill = 0
          /\ job.cap = Uncapped /\ job.drains
      BY <2>1, Programs
    <3>2. Live \subseteq loose
      <4>1. Control /\ JobControl /\ SumInv
        BY DEF AssertInv, NeedInv, IInv
      <4> QED
        BY <3>1, <4>1, DrainedAtEnd, LiveIs, LiveFinite
    <3>3. loose = Live
      BY <2>0, <3>2
    <3>4. Cardinality(Live) = allocations
      BY <3>1 DEF AssertInv, MemoryInv, NeedInv, JobControl, MainInv
    <3> QED
      BY <2>0, <2>a, <3>1, <3>3, <3>4 DEF DrainReduceAsserts
  <2>2. ASSUME job = RayonScratch
        PROVE  RayonScratchAsserts
    BY <2>0, <2>2, Programs DEF RayonScratchAsserts
  <2>3. ASSUME job = NonStaticInit
        PROVE  NonStaticInitAsserts
    <3>1. /\ job.items = NumItems /\ job.rounds = 1 /\ job.prefill = 0
          /\ job.cap = Uncapped /\ job.hook /\ ~job.detach
      BY <2>3, Programs
    <3>2. OwnDataOnly /\ (allocations <= 0 \/ allocations <= Cardinality(Workers))
      BY <3>1, OwnDataAtEnd, FewAtEnd
    <3> QED
      BY <2>0, <2>a, <3>1, <3>2 DEF NonStaticInitAsserts
  <2>4. ASSUME job = ScopedThreads
        PROVE  ScopedThreadsAsserts
    <3>1. /\ job.rounds = 1 /\ job.prefill = 0
          /\ job.cap = Uncapped /\ job.hook /\ ~job.detach
      BY <2>4, Programs
    <3>2. OwnDataOnly /\ (allocations <= 0 \/ allocations <= Cardinality(Workers))
      BY <3>1, OwnDataAtEnd, FewAtEnd
    <3> QED
      BY <2>0, <3>1, <3>2 DEF ScopedThreadsAsserts
  <2>5. ASSUME job = DetachCollect
        PROVE  DetachCollectAsserts
    <3>1. job.rounds = 1 /\ job.prefill = 0 /\ job.detach
      BY <2>5, Programs
    <3>2. recycled = 0 /\ filled = 0
      BY <3>1 DEF AssertInv, ColdInv, ColdJob
    <3> QED
      BY <2>0, <3>1, <3>2 DEF DetachCollectAsserts
  <2>6. ASSUME job = DetachCollectScratch, Cardinality(Workers) < LoopLeases
        PROVE  Reuses([leases |-> leases, allocations |-> allocations]) > 0
    <3>1. /\ job.rounds = 1 /\ job.prefill = 0
          /\ job.cap = Uncapped /\ ~job.adds /\ ~job.detach
      BY <2>6, Programs
    <3>2. allocations <= 0 \/ allocations <= Cardinality(Workers)
      BY <3>1, FewAtEnd
    <3>3. leases <= MaxLeases /\ WordSize \in Nat \ {0} /\ MaxLeases \in 0 .. WordSize - 1
      BY WordAssumption DEF AssertInv, TallyInv
    <3>4. leases - allocations \in Nat /\ leases - allocations > 0 /\ leases - allocations < WordSize
      BY <2>0, <2>6, <3>1, <3>2, <3>3
    <3>5. (leases - allocations) % WordSize = leases - allocations
      BY <3>3, <3>4, SmallIds
    <3> QED
      BY <3>4, <3>5 DEF Reuses
  <2>7. ASSUME job = PrefillServesColdLeases
        PROVE  PrefillAsserts
    <3>1. /\ job.prefill = Cardinality(Workers)
          /\ job.cap = Uncapped /\ ~job.adds /\ ~job.detach
      BY <2>7, Programs
    <3>2. cap = Uncapped
      BY <3>1 DEF AssertInv, NeedInv, JobControl, MainInv
    <3>3. allocations = filled
      BY <2>0, <3>1, <3>2 DEF AssertInv, WarmInv
    <3>4. Live = Parked /\ allocations = Cardinality(Live)
      BY <3>1, OwnDataAtEnd, FewAtEnd
    <3> QED
      BY <2>0, <3>3, <3>4 DEF PrefillAsserts
  <2>8. ASSUME job = MaxIdleIsGlobal
        PROVE  MaxIdleAsserts
    <3>1. /\ job.prefill = 0 /\ job.each = 1 /\ job.rounds = 1
          /\ job.cap = Cardinality(Workers) \div 2
          /\ job.items = Cardinality(Workers)
          /\ ~job.adds /\ ~job.detach
      BY <2>0, <2>8, Programs
    <3>2. /\ job.cap \in Nat /\ job.cap < Cardinality(Workers)
          /\ job.cap # Uncapped /\ cap = job.cap
      BY <2>0, <3>1, HalfIsFewer, CapsAssumption DEF AssertInv, NeedInv, JobControl, MainInv
    <3>3. RefusingJob /\ ColdJob
      BY <3>1, <3>2 DEF RefusingJob, ColdJob
    <3>4. allocations = Cardinality(Workers)
      <4>1. recycled = 0 /\ filled = 0
        BY <3>3 DEF AssertInv, ColdInv
      <4> QED
        BY <2>0, <3>1, <4>1
    <3>5. Live = Parked /\ Admitted = Parked
      <4>1. Claims = {}
        BY DEF Finished, Claims
      <4> QED
        BY <3>1, <4>1, OwnDataAtEnd DEF Admitted
    <3>6. Cardinality(Parked) <= job.cap
      BY <3>2 DEF AssertInv, CapacityInv
    <3>7. Cardinality(Live) = allocations \/ Cardinality(Admitted) = cap
      BY <3>3 DEF AssertInv, RefuseInv
    <3>8. /\ Cardinality(Live) = Cardinality(Parked)
          /\ Cardinality(Admitted) = Cardinality(Parked)
      BY <3>5
    <3>9. Cardinality(Workers) \in Nat
      BY <2>0
    <3>10. Cardinality(Live) # allocations
      BY <3>2, <3>4, <3>6, <3>8, <3>9
    <3> QED
      BY <2>0, <3>2, <3>7, <3>8, <3>10 DEF MaxIdleAsserts
  <2> QED
    BY <2>1, <2>2, <2>3, <2>4, <2>5, <2>6, <2>7, <2>8 DEF DetachCollectScratchAsserts
<1> QED
  BY <1>1, AssertStart, AssertStep, PTL DEF JobSpec, jobState

=============================================================================

---------------------------- MODULE LocalPoolProofs ----------------------------
(****************************************************************************)
(* The registries of LocalPool hold what they should for any number of      *)
(* threads, buffers and pools, under stale loads of both atomics; and the   *)
(* stock and counters of LocalStatistics agree with them.                   *)
(****************************************************************************)
EXTENDS LocalStatistics, FiniteSetTheorems, TLAPS

Steps == {"ready", "reset", "load", "sweep", "access", "init", "bump"}
Calls == [op : {"none", "get", "park", "idle_len", "drop"}, pool : Pools, pc : Steps,
          at : 0 .. MaxPools]

\* A registry never outgrows the pools.
SlotInv == \A t \in Threads : Len(slots[t]) <= MaxPools

\* What a return has in hand is of the pool it returns to.
HandInv ==
  \A t \in Threads : hand[t] # Nothing =>
    call[t].op = "park" /\ hand[t][1] = call[t].pool

\* A call borrows a living pool, or is the end of a dead one.
CallInv ==
  \A t \in Threads :
    /\ call[t].op \in {"get", "park", "idle_len"} => call[t].pool \in live
    /\ call[t].op = "drop" => call[t].pool \notin live /\ call[t].pool < nextId
    /\ At(t, "bump") <=> call[t].op = "drop"
    /\ At(t, "ready") <=> call[t].op = "none"
    /\ At(t, "init") => call[t].op = "get"
    /\ At(t, "reset") \/ At(t, "load") => call[t].at = 0

\* From its load on, a call knows of the deaths its registry accounts for, and
\* of no others.
ViewInv ==
  \A t \in Threads :
    /\ seen[t] <= view[t]
    /\ At(t, "sweep") \/ At(t, "access") => seen[t] = view[t]

\* Only dead pools have told the registries anything.
DeathInv ==
  \A p \in Pools :
    /\ p \in live => p < nextId
    /\ p \in live \/ p >= nextId => bump[p] = 0

\* The inductive invariant.
IInv == TypeOK /\ SlotInv /\ HandInv /\ CallInv /\ ViewInv /\ DeathInv /\ SlotsMatchPools

\* Everything that can happen: threads t and u, pool p, a buffer, an epoch.
Action(t, u, p, item, e) ==
  \/ New
  \/ p \in Pools /\ WithReset(p)
  \/ t \in Threads /\ p \in Pools /\ DropPool(t, p)
  \/ t \in Threads /\ p \in Pools /\ Get(t, p)
  \/ t \in Threads /\ p \in Pools /\ IdleLen(t, p)
  \/ t \in Threads /\ p \in Pools /\ Put(t, p)
  \/ t \in Threads /\ item \in Items /\ DropGuard(t, item)
  \/ t \in Threads /\ item \in Items /\ IntoInner(t, item)
  \/ t \in Threads /\ u \in Threads /\ item \in Items /\ SendGuard(t, u, item)
  \/ t \in Threads /\ u \in Threads /\ Synchronize(t, u)
  \/ t \in Threads /\ u \in Threads /\ ThreadExit(t, u)
  \/ t \in Threads /\ DropBump(t)
  \/ t \in Threads /\ Reset(t)
  \/ t \in Threads /\ ResetPanics(t)
  \/ t \in Threads /\ e \in 0 .. epoch /\ LoadEpoch(t, e)
  \/ t \in Threads /\ SweepSlot(t)
  \/ t \in Threads /\ SweepPanics(t)
  \/ t \in Threads /\ SweepEnds(t)
  \/ t \in Threads /\ AccessGet(t)
  \/ t \in Threads /\ AccessPark(t)
  \/ t \in Threads /\ AccessIdleLen(t)
  \/ t \in Threads /\ RunInit(t)
  \/ t \in Threads /\ InitPanics(t)

USE PoolsAssumption

\* Every step is some thread's.
LEMMA NextIsAction ==
  ASSUME Next
  PROVE  \E t, u, p, item, e : Action(t, u, p, item, e)
  BY DEF Next, Step, Call, Action

\* The call under way is a call.
LEMMA CallsTyped ==
  ASSUME IInv
  PROVE  call \in [Threads -> Calls]
  BY DEF IInv, TypeOK, Calls, Steps

\* What the fields of a thread's call are.
LEMMA CallTypes ==
  /\ Ready \in Calls
  /\ \A c \in Calls, pc \in Steps : [c EXCEPT !.pc = pc] \in Calls
  /\ \A op \in {"get", "park", "idle_len", "drop"}, p \in Pools, pc \in Steps :
       [op |-> op, pool |-> p, pc |-> pc, at |-> 0] \in Calls
<1>1. 0 \in Pools /\ 0 \in 0 .. MaxPools
  BY PoolsAssumption DEF Pools
<1> QED BY <1>1 DEF Calls, Steps, Ready

-----------------------------------------------------------------------------
(* Registries as sequences of slots.                                        *)

\* A registry's positions.
LEMMA SlotSequence == \A s \in Seq(Slot) : DOMAIN s = 1 .. Len(s) /\ Len(s) \in Nat
  OBVIOUS

\* What is at them.
LEMMA SlotTyped == \A s \in Seq(Slot) : \A j \in DOMAIN s : s[j] \in Slot
  OBVIOUS

\* The same, of a thread's registry.
LEMMA LenType ==
  ASSUME NEW t \in Threads, slots \in [Threads -> Seq(Slot)]
  PROVE  Len(slots[t]) \in Nat /\ DOMAIN slots[t] = 1 .. Len(slots[t])
  OBVIOUS

WithBuf(reg, i, buf) == [reg EXCEPT ![i].buf = buf]

\* A buffer is put into a slot, or taken out of it.
LEMMA SlotFilled ==
  ASSUME NEW reg \in Seq(Slot), NEW i \in DOMAIN reg, NEW buf \in Items \cup {Nothing}
  PROVE  LET new == WithBuf(reg, i, buf)
         IN  /\ new \in Seq(Slot) /\ Len(new) = Len(reg)
             /\ new[i].buf = buf /\ new[i].live = reg[i].live
             /\ \A j \in DOMAIN reg : j # i => new[j] = reg[j]
<1>1. reg[i] \in Slot
  OBVIOUS
<1>2. [reg[i] EXCEPT !.buf = buf] \in Slot
  BY <1>1 DEF Slot
<1> QED BY <1>1, <1>2 DEF Slot, WithBuf

\* slot_for makes room for p's slot, gives it p's flag, and moves no buffer.
LEMMA SlotForType ==
  ASSUME NEW reg \in Seq(Slot), NEW p \in Pools, Len(reg) <= MaxPools
  PROVE  LET new == SlotFor(reg, p)
         IN  /\ new \in Seq(Slot) /\ Len(new) <= MaxPools
             /\ SlotOf(p) \in DOMAIN new /\ new[SlotOf(p)].live = p
             /\ Len(reg) <= Len(new)
             /\ \A j \in DOMAIN reg :
                  new[j].buf = reg[j].buf /\ (j # SlotOf(p) => new[j] = reg[j])
             /\ \A j \in DOMAIN new : j \notin DOMAIN reg => new[j].buf = Nothing
<1>1. CASE Len(reg) <= p
  <2> DEFINE gap == [i \in 1 .. SlotOf(p) - Len(reg) |-> [live |-> p, buf |-> Nothing]]
  <2>1. gap \in Seq(Slot) /\ Len(gap) = SlotOf(p) - Len(reg)
    BY <1>1, PoolsAssumption DEF Slot, SlotOf, Pools
  <2>2. SlotFor(reg, p) = reg \o gap
    BY <1>1 DEF SlotFor, Grown
  <2>3. p \in Nat /\ Len(reg) \in Nat
    BY DEF Pools
  <2>4. reg \o gap \in Seq(Slot) /\ Len(reg \o gap) = SlotOf(p)
    <3> HIDE DEF gap
    <3> QED BY <2>1, <2>3 DEF SlotOf
  <2>5. \A j \in 1 .. SlotOf(p) :
          (reg \o gap)[j] = IF j <= Len(reg) THEN reg[j] ELSE [live |-> p, buf |-> Nothing]
    BY <2>1, <1>1, PoolsAssumption DEF SlotOf, Pools
  <2>6. Len(reg) \in Nat /\ SlotOf(p) \in 1 .. MaxPools /\ Len(reg) < SlotOf(p)
        /\ DOMAIN reg = 1 .. Len(reg)
    BY <1>1, PoolsAssumption DEF SlotOf, Pools
  <2> HIDE DEF gap
  <2>7. DOMAIN (reg \o gap) = 1 .. SlotOf(p)
    BY <2>4, SlotSequence, Zenon
  <2>8. \A j \in DOMAIN (reg \o gap) :
          /\ j \in DOMAIN reg => (reg \o gap)[j] = reg[j]
          /\ j \notin DOMAIN reg => (reg \o gap)[j] = [live |-> p, buf |-> Nothing]
    BY <2>5, <2>6, <2>7
  <2> QED BY <2>2, <2>4, <2>6, <2>7, <2>8, PoolsAssumption
<1>2. CASE ~(Len(reg) <= p)
  <2>1. SlotOf(p) \in DOMAIN reg
    BY <1>2, PoolsAssumption DEF SlotOf, Pools
  <2>2. reg[SlotOf(p)] \in Slot
    BY <2>1
  <2>3. [reg[SlotOf(p)] EXCEPT !.live = p] \in Slot
    BY <2>2 DEF Slot
  <2>4. SlotFor(reg, p) = [reg EXCEPT ![SlotOf(p)].live = p]
    BY <1>2 DEF SlotFor
  <2> QED BY <2>1, <2>3, <2>4, <2>2 DEF Slot
<1> QED BY <1>1, <1>2

\* What it finds in a pool's slot was there before.
LEMMA SlotForBuf ==
  ASSUME NEW reg \in Seq(Slot), NEW p \in Pools, Len(reg) <= MaxPools,
         SlotFor(reg, p)[SlotOf(p)].buf # Nothing
  PROVE  SlotOf(p) \in DOMAIN reg /\ SlotFor(reg, p)[SlotOf(p)].buf = reg[SlotOf(p)].buf
<1> DEFINE new == SlotFor(reg, p)
           i   == SlotOf(p)
<1>1. /\ i \in DOMAIN new
      /\ \A j \in DOMAIN reg : new[j].buf = reg[j].buf
      /\ \A j \in DOMAIN new : j \notin DOMAIN reg => new[j].buf = Nothing
  BY SlotForType
<1> HIDE DEF new, i
<1>2. new[i].buf # Nothing => i \in DOMAIN reg /\ new[i].buf = reg[i].buf
  BY <1>1
<1> QED
  BY <1>2 DEF new, i

\* A round of the sweep leaves the registry alone, or drops one parked buffer
\* whose flag it read as cleared.
LEMMA SlotSwept ==
  ASSUME IInv, NEW t \in Threads, SweepSlot(t) \/ SweepPanics(t), slots' # slots
  PROVE  LET i   == SlotOf(call[t].at)
             reg == slots[t]
             new == slots'[t]
         IN  /\ slots' = [slots EXCEPT ![t] = new]
             /\ i \in DOMAIN reg /\ reg[i].buf # Nothing
             /\ FALSE \in FlagReads(t, reg[i].live)
             /\ new \in Seq(Slot) /\ Len(new) = Len(reg)
             /\ new[i].buf = Nothing
             /\ \A j \in DOMAIN reg : j # i => new[j] = reg[j]
<1> DEFINE i == SlotOf(call[t].at)
<1>1. call[t].at \in 0 .. MaxPools /\ slots \in [Threads -> Seq(Slot)]
  BY CallsTyped DEF Calls, IInv, TypeOK
<1>2. i \in Nat \ {0} /\ i <= Len(slots[t])
  <2>1. SlotOf(call[t].at) <= Len(slots[t])
    BY DEF SweepSlot, SweepPanics
  <2> QED BY <1>1, <2>1, PoolsAssumption DEF SlotOf
<1>3. /\ slots' = [slots EXCEPT ![t][i].buf = Nothing]
      /\ slots[t][i].buf # Nothing /\ FALSE \in FlagReads(t, slots[t][i].live)
  BY DEF SweepSlot, SweepPanics
<1>4. i \in DOMAIN slots[t]
  BY <1>1, <1>2, LenType
<1>5. slots'[t] = [slots[t] EXCEPT ![i].buf = Nothing]
  BY <1>1, <1>3
<1>6. slots' = [slots EXCEPT ![t] = slots'[t]]
  BY <1>1, <1>3
<1>7. /\ slots'[t] \in Seq(Slot) /\ Len(slots'[t]) = Len(slots[t])
      /\ slots'[t][i].buf = Nothing
      /\ \A j \in DOMAIN slots[t] : j # i => slots'[t][j] = slots[t][j]
  <2> HIDE DEF i
  <2> DEFINE reg == slots[t]
  <2>1. reg \in Seq(Slot) /\ Nothing \in Items \cup {Nothing} /\ i \in DOMAIN reg
    BY <1>1, <1>4
  <2>2. slots'[t] = WithBuf(reg, i, Nothing)
    BY <1>5 DEF WithBuf
  <2> HIDE DEF reg
  <2>3. /\ slots'[t] \in Seq(Slot) /\ Len(slots'[t]) = Len(reg)
        /\ slots'[t][i].buf = Nothing
        /\ \A j \in DOMAIN reg : j # i => slots'[t][j] = reg[j]
    BY <2>1, <2>2, SlotFilled
  <2> QED BY <2>3 DEF reg
<1> QED BY <1>3, <1>4, <1>6, <1>7

\* A lease empties the slot of its pool, a return fills it; either may bring new
\* slots, all of them empty.
LEMMA SlotAccessed ==
  ASSUME IInv, NEW t \in Threads, AccessGet(t) \/ AccessPark(t)
  PROVE  LET p   == call[t].pool
             reg == slots[t]
             new == slots'[t]
             buf == IF call[t].op = "park" THEN hand[t] ELSE Nothing
         IN  /\ slots' = [slots EXCEPT ![t] = new]
             /\ new \in Seq(Slot) /\ Len(new) <= MaxPools
             /\ SlotOf(p) \in DOMAIN new
             /\ new[SlotOf(p)].live = p /\ new[SlotOf(p)].buf = buf
             /\ \A j \in DOMAIN new : j # SlotOf(p) =>
                  (j \in DOMAIN reg /\ new[j] = reg[j]) \/ new[j].buf = Nothing
             /\ Len(reg) <= Len(new)
             /\ \A j \in DOMAIN reg : j \in DOMAIN new /\ (j # SlotOf(p) => new[j] = reg[j])
<1> DEFINE p   == call[t].pool
           mid == SlotFor(slots[t], p)
           buf == IF call[t].op = "park" THEN hand[t] ELSE Nothing
<1>1. p \in Pools /\ slots \in [Threads -> Seq(Slot)] /\ Len(slots[t]) <= MaxPools
      /\ buf \in Items \cup {Nothing}
  BY CallsTyped DEF Calls, IInv, TypeOK, SlotInv
<1>2. slots' = [slots EXCEPT ![t] = [mid EXCEPT ![SlotOf(p)].buf = buf]]
  <2>1. CASE AccessGet(t)
    BY <2>1 DEF AccessGet, TakeFrom
  <2>2. CASE AccessPark(t)
    BY <2>2 DEF AccessPark
  <2> QED BY <2>1, <2>2
<1>3. /\ mid \in Seq(Slot) /\ Len(mid) <= MaxPools
      /\ SlotOf(p) \in DOMAIN mid /\ mid[SlotOf(p)].live = p
      /\ \A j \in DOMAIN mid : j # SlotOf(p) =>
           (j \in DOMAIN slots[t] /\ mid[j] = slots[t][j]) \/ mid[j].buf = Nothing
      /\ Len(slots[t]) <= Len(mid)
      /\ \A j \in DOMAIN slots[t] : j # SlotOf(p) => mid[j] = slots[t][j]
  BY <1>1, SlotForType
<1> HIDE DEF mid, buf, p
<1>4. slots'[t] = WithBuf(mid, SlotOf(p), buf)
  BY <1>1, <1>2 DEF WithBuf
<1>5. slots' = [slots EXCEPT ![t] = slots'[t]]
  BY <1>1, <1>2
<1>6. /\ slots'[t] \in Seq(Slot) /\ Len(slots'[t]) = Len(mid)
      /\ slots'[t][SlotOf(p)].buf = buf /\ slots'[t][SlotOf(p)].live = p
      /\ \A j \in DOMAIN mid : j # SlotOf(p) => slots'[t][j] = mid[j]
  BY <1>1, <1>3, <1>4, SlotFilled
<1>7. DOMAIN slots'[t] = DOMAIN mid
  BY <1>3, <1>6
<1>8. \A j \in DOMAIN slots[t] : j \in DOMAIN mid
  <2>1. DOMAIN mid = 1 .. Len(mid) /\ Len(mid) \in Nat
    BY <1>3, SlotSequence
  <2> QED BY <1>1, <1>3, <2>1, LenType
<1> QED BY <1>3, <1>5, <1>6, <1>7, <1>8 DEF p, buf

-----------------------------------------------------------------------------
(* The steps.                                                               *)

\* Calls keep their type.
LEMMA CallTypeStep ==
  ASSUME IInv, NEW t, NEW u, NEW p, NEW item, NEW e,
         Action(t, u, p, item, e)
  PROVE  call' \in [Threads -> Calls]
<1>1. CASE New
  BY <1>1, CallsTyped, CallTypes DEF Steps, New
<1>2. CASE p \in Pools /\ WithReset(p)
  BY <1>2, CallsTyped, CallTypes DEF Steps, WithReset
<1>3. CASE t \in Threads /\ p \in Pools /\ DropPool(t, p)
  BY <1>3, CallsTyped, CallTypes DEF Steps, DropPool
<1>4. CASE t \in Threads /\ p \in Pools /\ Get(t, p)
  BY <1>4, CallsTyped, CallTypes DEF Steps, Get, Enter
<1>5. CASE t \in Threads /\ p \in Pools /\ IdleLen(t, p)
  BY <1>5, CallsTyped, CallTypes DEF Steps, IdleLen, Enter
<1>6. CASE t \in Threads /\ p \in Pools /\ Put(t, p)
  BY <1>6, CallsTyped, CallTypes DEF Steps, Put, Enter
<1>7. CASE t \in Threads /\ item \in Items /\ DropGuard(t, item)
  <2>1. item[1] \in Pools
    BY <1>7 DEF Items
  <2> QED BY <1>7, <2>1, CallsTyped, CallTypes DEF DropGuard, Enter, Steps
<1>8. CASE t \in Threads /\ item \in Items /\ IntoInner(t, item)
  BY <1>8, CallsTyped, CallTypes DEF Steps, IntoInner
<1>9. CASE t \in Threads /\ u \in Threads /\ item \in Items /\ SendGuard(t, u, item)
  BY <1>9, CallsTyped, CallTypes DEF Steps, SendGuard
<1>10. CASE t \in Threads /\ u \in Threads /\ Synchronize(t, u)
  BY <1>10, CallsTyped, CallTypes DEF Steps, Synchronize
<1>11. CASE t \in Threads /\ u \in Threads /\ ThreadExit(t, u)
  BY <1>11, CallsTyped, CallTypes DEF Steps, ThreadExit
<1>12. CASE t \in Threads /\ DropBump(t)
  BY <1>12, CallsTyped, CallTypes DEF Steps, DropBump, Return
<1>13. CASE t \in Threads /\ Reset(t)
  BY <1>13, CallsTyped, CallTypes DEF Steps, Reset, Go
<1>14. CASE t \in Threads /\ ResetPanics(t)
  BY <1>14, CallsTyped, CallTypes DEF Steps, ResetPanics, Return
<1>15. CASE t \in Threads /\ e \in 0 .. epoch /\ LoadEpoch(t, e)
  <2>1. \E pc \in Steps : call' = [call EXCEPT ![t] = [call[t] EXCEPT !.pc = pc]]
    BY <1>15 DEF LoadEpoch, Go, Steps
  <2> QED BY <1>15, <2>1, CallsTyped, CallTypes
<1>16. CASE t \in Threads /\ SweepSlot(t)
  <2>1. /\ call[t].at \in 0 .. MaxPools /\ Len(slots[t]) \in Nat
        /\ SlotOf(call[t].at) <= Len(slots[t]) /\ Len(slots[t]) <= MaxPools
    BY <1>16, LenType DEF IInv, TypeOK, SlotInv, SweepSlot
  <2>2. call[t].at + 1 \in 0 .. MaxPools
    BY <2>1, PoolsAssumption DEF SlotOf
  <2>3. [call[t] EXCEPT !.at = @ + 1] \in Calls
    BY <1>16, <2>2, CallsTyped DEF Calls
  <2> QED BY <1>16, <2>3, CallsTyped DEF SweepSlot
<1>17. CASE t \in Threads /\ SweepPanics(t)
  BY <1>17, CallsTyped, CallTypes DEF Steps, SweepPanics, Return
<1>18. CASE t \in Threads /\ SweepEnds(t)
  BY <1>18, CallsTyped, CallTypes DEF Steps, SweepEnds, Go
<1>19. CASE t \in Threads /\ AccessGet(t)
  <2>1. \/ call' = [call EXCEPT ![t] = [call[t] EXCEPT !.pc = "init"]]
        \/ call' = [call EXCEPT ![t] = Ready]
    BY <1>19 DEF AccessGet, Go, Return
  <2>2. "init" \in Steps
    BY DEF Steps
  <2> QED BY <1>19, <2>1, <2>2, CallsTyped, CallTypes
<1>20. CASE t \in Threads /\ AccessPark(t)
  BY <1>20, CallsTyped, CallTypes DEF Steps, AccessPark, Return
<1>21. CASE t \in Threads /\ AccessIdleLen(t)
  BY <1>21, CallsTyped, CallTypes DEF Steps, AccessIdleLen, Return
<1>22. CASE t \in Threads /\ RunInit(t)
  BY <1>22, CallsTyped, CallTypes DEF Steps, RunInit, Return
<1>23. CASE t \in Threads /\ InitPanics(t)
  BY <1>23, CallsTyped, CallTypes DEF Steps, InitPanics, Return
<1> QED BY <1>1, <1>2, <1>3, <1>4, <1>5, <1>6, <1>7, <1>8, <1>9, <1>10, <1>11, <1>12, <1>13,
             <1>14, <1>15, <1>16, <1>17, <1>18, <1>19, <1>20, <1>21, <1>22, <1>23 DEF Action

\* Registries keep their type, and their length within the pools.
LEMMA SlotTypeStep ==
  ASSUME IInv, NEW t, NEW u, NEW p, NEW item, NEW e,
         Action(t, u, p, item, e)
  PROVE  slots' \in [Threads -> Seq(Slot)] /\ SlotInv'
<1>1. CASE New
  BY <1>1 DEF IInv, TypeOK, SlotInv, New
<1>2. CASE p \in Pools /\ WithReset(p)
  BY <1>2 DEF IInv, TypeOK, SlotInv, WithReset
<1>3. CASE t \in Threads /\ p \in Pools /\ DropPool(t, p)
  BY <1>3 DEF IInv, TypeOK, SlotInv, DropPool
<1>4. CASE t \in Threads /\ p \in Pools /\ Get(t, p)
  BY <1>4 DEF IInv, TypeOK, SlotInv, Get
<1>5. CASE t \in Threads /\ p \in Pools /\ IdleLen(t, p)
  BY <1>5 DEF IInv, TypeOK, SlotInv, IdleLen
<1>6. CASE t \in Threads /\ p \in Pools /\ Put(t, p)
  BY <1>6 DEF IInv, TypeOK, SlotInv, Put
<1>7. CASE t \in Threads /\ item \in Items /\ DropGuard(t, item)
  BY <1>7 DEF IInv, TypeOK, SlotInv, DropGuard
<1>8. CASE t \in Threads /\ item \in Items /\ IntoInner(t, item)
  BY <1>8 DEF IInv, TypeOK, SlotInv, IntoInner
<1>9. CASE t \in Threads /\ u \in Threads /\ item \in Items /\ SendGuard(t, u, item)
  BY <1>9 DEF IInv, TypeOK, SlotInv, SendGuard
<1>10. CASE t \in Threads /\ u \in Threads /\ Synchronize(t, u)
  BY <1>10 DEF IInv, TypeOK, SlotInv, Synchronize
<1>11. CASE t \in Threads /\ u \in Threads /\ ThreadExit(t, u)
  <2>1. <<>> \in Seq(Slot) /\ Len(<<>>) = 0
    OBVIOUS
  <2> QED BY <1>11, <2>1, PoolsAssumption DEF IInv, TypeOK, SlotInv, ThreadExit
<1>12. CASE t \in Threads /\ DropBump(t)
  BY <1>12 DEF IInv, TypeOK, SlotInv, DropBump
<1>13. CASE t \in Threads /\ Reset(t)
  BY <1>13 DEF IInv, TypeOK, SlotInv, Reset
<1>14. CASE t \in Threads /\ ResetPanics(t)
  BY <1>14 DEF IInv, TypeOK, SlotInv, ResetPanics
<1>15. CASE t \in Threads /\ e \in 0 .. epoch /\ LoadEpoch(t, e)
  BY <1>15 DEF IInv, TypeOK, SlotInv, LoadEpoch
<1>16. CASE t \in Threads /\ SweepSlot(t)
  <2>1. CASE slots' = slots
    BY <2>1 DEF IInv, TypeOK, SlotInv
  <2>2. CASE slots' # slots
    <3>1. /\ slots' = [slots EXCEPT ![t] = slots'[t]]
          /\ slots'[t] \in Seq(Slot) /\ Len(slots'[t]) = Len(slots[t])
      BY <1>16, <2>2, SlotSwept
    <3> QED BY <1>16, <3>1 DEF IInv, TypeOK, SlotInv
  <2> QED BY <2>1, <2>2
<1>17. CASE t \in Threads /\ SweepPanics(t)
  <2>1. CASE slots' = slots
    BY <2>1 DEF IInv, TypeOK, SlotInv
  <2>2. CASE slots' # slots
    <3>1. /\ slots' = [slots EXCEPT ![t] = slots'[t]]
          /\ slots'[t] \in Seq(Slot) /\ Len(slots'[t]) = Len(slots[t])
      BY <1>17, <2>2, SlotSwept
    <3> QED BY <1>17, <3>1 DEF IInv, TypeOK, SlotInv
  <2> QED BY <2>1, <2>2
<1>18. CASE t \in Threads /\ SweepEnds(t)
  BY <1>18 DEF IInv, TypeOK, SlotInv, SweepEnds
<1>19. CASE t \in Threads /\ AccessGet(t)
  BY <1>19, SlotAccessed DEF IInv, TypeOK, SlotInv
<1>20. CASE t \in Threads /\ AccessPark(t)
  BY <1>20, SlotAccessed DEF IInv, TypeOK, SlotInv
<1>21. CASE t \in Threads /\ AccessIdleLen(t)
  BY <1>21 DEF IInv, TypeOK, SlotInv, AccessIdleLen
<1>22. CASE t \in Threads /\ RunInit(t)
  BY <1>22 DEF IInv, TypeOK, SlotInv, RunInit
<1>23. CASE t \in Threads /\ InitPanics(t)
  BY <1>23 DEF IInv, TypeOK, SlotInv, InitPanics
<1> QED BY <1>1, <1>2, <1>3, <1>4, <1>5, <1>6, <1>7, <1>8, <1>9, <1>10, <1>11, <1>12, <1>13,
             <1>14, <1>15, <1>16, <1>17, <1>18, <1>19, <1>20, <1>21, <1>22, <1>23 DEF Action

\* Pools and atomics keep their type.
LEMMA AtomicsTypeStep ==
  ASSUME IInv, NEW t, NEW u, NEW p, NEW item, NEW e,
         Action(t, u, p, item, e)
  PROVE  /\ nextId' \in 0 .. MaxPools /\ live' \subseteq Pools /\ hook' \subseteq live'
         /\ epoch' \in Nat /\ bump' \in [Pools -> 0 .. epoch']
         /\ seen' \in [Threads -> 0 .. epoch'] /\ view' \in [Threads -> 0 .. epoch']
<1>1. CASE New
  BY <1>1, PoolsAssumption DEF IInv, TypeOK, New, Pools
<1>2. CASE p \in Pools /\ WithReset(p)
  BY <1>2 DEF IInv, TypeOK, WithReset, Exists
<1>3. CASE t \in Threads /\ p \in Pools /\ DropPool(t, p)
  BY <1>3 DEF IInv, TypeOK, DropPool, Exists
<1>4. CASE t \in Threads /\ p \in Pools /\ Get(t, p)
  BY <1>4 DEF IInv, TypeOK, Get, Enter, Exists
<1>5. CASE t \in Threads /\ p \in Pools /\ IdleLen(t, p)
  BY <1>5 DEF IInv, TypeOK, IdleLen, Enter, Exists
<1>6. CASE t \in Threads /\ p \in Pools /\ Put(t, p)
  BY <1>6 DEF IInv, TypeOK, Put, Enter, Exists
<1>7. CASE t \in Threads /\ item \in Items /\ DropGuard(t, item)
  BY <1>7 DEF IInv, TypeOK, DropGuard, Enter, Exists
<1>8. CASE t \in Threads /\ item \in Items /\ IntoInner(t, item)
  BY <1>8 DEF IInv, TypeOK, IntoInner
<1>9. CASE t \in Threads /\ u \in Threads /\ item \in Items /\ SendGuard(t, u, item)
  BY <1>9 DEF IInv, TypeOK, SendGuard, Newest
<1>10. CASE t \in Threads /\ u \in Threads /\ Synchronize(t, u)
  BY <1>10 DEF IInv, TypeOK, Synchronize
<1>11. CASE t \in Threads /\ u \in Threads /\ ThreadExit(t, u)
  BY <1>11 DEF IInv, TypeOK, ThreadExit
<1>12. CASE t \in Threads /\ DropBump(t)
  BY <1>12 DEF IInv, TypeOK, DropBump
<1>13. CASE t \in Threads /\ Reset(t)
  BY <1>13 DEF IInv, TypeOK, Reset
<1>14. CASE t \in Threads /\ ResetPanics(t)
  BY <1>14 DEF IInv, TypeOK, ResetPanics
<1>15. CASE t \in Threads /\ e \in 0 .. epoch /\ LoadEpoch(t, e)
  BY <1>15 DEF IInv, TypeOK, LoadEpoch
<1>16. CASE t \in Threads /\ SweepSlot(t)
  BY <1>16 DEF IInv, TypeOK, SweepSlot
<1>17. CASE t \in Threads /\ SweepPanics(t)
  BY <1>17 DEF IInv, TypeOK, SweepPanics
<1>18. CASE t \in Threads /\ SweepEnds(t)
  BY <1>18 DEF IInv, TypeOK, SweepEnds
<1>19. CASE t \in Threads /\ AccessGet(t)
  BY <1>19 DEF IInv, TypeOK, AccessGet
<1>20. CASE t \in Threads /\ AccessPark(t)
  BY <1>20 DEF IInv, TypeOK, AccessPark
<1>21. CASE t \in Threads /\ AccessIdleLen(t)
  BY <1>21 DEF IInv, TypeOK, AccessIdleLen
<1>22. CASE t \in Threads /\ RunInit(t)
  BY <1>22 DEF IInv, TypeOK, RunInit
<1>23. CASE t \in Threads /\ InitPanics(t)
  BY <1>23 DEF IInv, TypeOK, InitPanics
<1> QED BY <1>1, <1>2, <1>3, <1>4, <1>5, <1>6, <1>7, <1>8, <1>9, <1>10, <1>11, <1>12, <1>13,
             <1>14, <1>15, <1>16, <1>17, <1>18, <1>19, <1>20, <1>21, <1>22, <1>23 DEF Action

\* Hands and guards keep their type.
LEMMA BuffersTypeStep ==
  ASSUME IInv, NEW t, NEW u, NEW p, NEW item, NEW e,
         Action(t, u, p, item, e)
  PROVE  hand' \in [Threads -> Items \cup {Nothing}] /\ guards' \in [Threads -> SUBSET Items]
<1>1. CASE New
  BY <1>1 DEF IInv, TypeOK, New
<1>2. CASE p \in Pools /\ WithReset(p)
  BY <1>2 DEF IInv, TypeOK, WithReset
<1>3. CASE t \in Threads /\ p \in Pools /\ DropPool(t, p)
  BY <1>3 DEF IInv, TypeOK, DropPool
<1>4. CASE t \in Threads /\ p \in Pools /\ Get(t, p)
  BY <1>4 DEF IInv, TypeOK, Get
<1>5. CASE t \in Threads /\ p \in Pools /\ IdleLen(t, p)
  BY <1>5 DEF IInv, TypeOK, IdleLen
<1>6. CASE t \in Threads /\ p \in Pools /\ Put(t, p)
  <2>1. \A b \in Fresh : <<p, b>> \in Items
    BY <1>6 DEF Fresh, Items
  <2> QED BY <1>6, <2>1 DEF IInv, TypeOK, Put
<1>7. CASE t \in Threads /\ item \in Items /\ DropGuard(t, item)
  BY <1>7 DEF IInv, TypeOK, DropGuard
<1>8. CASE t \in Threads /\ item \in Items /\ IntoInner(t, item)
  BY <1>8 DEF IInv, TypeOK, IntoInner
<1>9. CASE t \in Threads /\ u \in Threads /\ item \in Items /\ SendGuard(t, u, item)
  BY <1>9 DEF IInv, TypeOK, SendGuard
<1>10. CASE t \in Threads /\ u \in Threads /\ Synchronize(t, u)
  BY <1>10 DEF IInv, TypeOK, Synchronize
<1>11. CASE t \in Threads /\ u \in Threads /\ ThreadExit(t, u)
  BY <1>11 DEF IInv, TypeOK, ThreadExit
<1>12. CASE t \in Threads /\ DropBump(t)
  BY <1>12 DEF IInv, TypeOK, DropBump
<1>13. CASE t \in Threads /\ Reset(t)
  BY <1>13 DEF IInv, TypeOK, Reset
<1>14. CASE t \in Threads /\ ResetPanics(t)
  BY <1>14 DEF IInv, TypeOK, ResetPanics
<1>15. CASE t \in Threads /\ e \in 0 .. epoch /\ LoadEpoch(t, e)
  BY <1>15 DEF IInv, TypeOK, LoadEpoch
<1>16. CASE t \in Threads /\ SweepSlot(t)
  BY <1>16 DEF IInv, TypeOK, SweepSlot
<1>17. CASE t \in Threads /\ SweepPanics(t)
  BY <1>17 DEF IInv, TypeOK, SweepPanics
<1>18. CASE t \in Threads /\ SweepEnds(t)
  BY <1>18 DEF IInv, TypeOK, SweepEnds
<1>19. CASE t \in Threads /\ AccessGet(t)
  <2>1. SlotFor(slots[t], call[t].pool) \in Seq(Slot)
        /\ SlotOf(call[t].pool) \in DOMAIN SlotFor(slots[t], call[t].pool)
    BY <1>19, CallsTyped, SlotForType DEF Calls, IInv, TypeOK, SlotInv
  <2>2. SlotFor(slots[t], call[t].pool)[SlotOf(call[t].pool)] \in Slot
    BY <2>1
  <2>3. SlotFor(slots[t], call[t].pool)[SlotOf(call[t].pool)].buf \in Items \cup {Nothing}
    BY <2>2 DEF Slot
  <2>4. /\ UNCHANGED hand
        /\ \/ UNCHANGED guards
           \/ \E buf \in Items : guards' = [guards EXCEPT ![t] = @ \cup {buf}]
    BY <1>19, <2>3 DEF AccessGet
  <2> QED BY <1>19, <2>4 DEF IInv, TypeOK
<1>20. CASE t \in Threads /\ AccessPark(t)
  BY <1>20 DEF IInv, TypeOK, AccessPark
<1>21. CASE t \in Threads /\ AccessIdleLen(t)
  BY <1>21 DEF IInv, TypeOK, AccessIdleLen
<1>22. CASE t \in Threads /\ RunInit(t)
  <2>1. \A b \in Fresh : <<call[t].pool, b>> \in Items
    BY <1>22, CallsTyped DEF Fresh, Items, Calls
  <2> QED BY <1>22, <2>1 DEF IInv, TypeOK, RunInit
<1>23. CASE t \in Threads /\ InitPanics(t)
  BY <1>23 DEF IInv, TypeOK, InitPanics
<1> QED BY <1>1, <1>2, <1>3, <1>4, <1>5, <1>6, <1>7, <1>8, <1>9, <1>10, <1>11, <1>12, <1>13,
             <1>14, <1>15, <1>16, <1>17, <1>18, <1>19, <1>20, <1>21, <1>22, <1>23 DEF Action

\* A return carries a buffer of its pool.
LEMMA HandStep ==
  ASSUME IInv, NEW t, NEW u, NEW p, NEW item, NEW e,
         Action(t, u, p, item, e)
  PROVE  HandInv'
<1>1. CASE New
  BY <1>1 DEF IInv, TypeOK, HandInv, CallInv, At, New
<1>2. CASE p \in Pools /\ WithReset(p)
  BY <1>2 DEF IInv, TypeOK, HandInv, CallInv, At, WithReset
<1>3. CASE t \in Threads /\ p \in Pools /\ DropPool(t, p)
  BY <1>3 DEF IInv, TypeOK, HandInv, CallInv, At, DropPool, IsReady, Ready
<1>4. CASE t \in Threads /\ p \in Pools /\ Get(t, p)
  BY <1>4 DEF IInv, TypeOK, HandInv, CallInv, At, Get, Enter, IsReady, Ready
<1>5. CASE t \in Threads /\ p \in Pools /\ IdleLen(t, p)
  BY <1>5 DEF IInv, TypeOK, HandInv, CallInv, At, IdleLen, Enter, IsReady, Ready
<1>6. CASE t \in Threads /\ p \in Pools /\ Put(t, p)
  BY <1>6 DEF IInv, TypeOK, HandInv, CallInv, At, Put, Enter, IsReady, Ready
<1>7. CASE t \in Threads /\ item \in Items /\ DropGuard(t, item)
  BY <1>7, NothingAssumption
  DEF IInv, TypeOK, HandInv, CallInv, DropGuard, Enter, IsReady, Ready
<1>8. CASE t \in Threads /\ item \in Items /\ IntoInner(t, item)
  BY <1>8 DEF IInv, TypeOK, HandInv, CallInv, At, IntoInner
<1>9. CASE t \in Threads /\ u \in Threads /\ item \in Items /\ SendGuard(t, u, item)
  BY <1>9 DEF IInv, TypeOK, HandInv, CallInv, At, SendGuard, IsReady, Ready
<1>10. CASE t \in Threads /\ u \in Threads /\ Synchronize(t, u)
  BY <1>10 DEF IInv, TypeOK, HandInv, CallInv, At, Synchronize, IsReady, Ready
<1>11. CASE t \in Threads /\ u \in Threads /\ ThreadExit(t, u)
  BY <1>11 DEF IInv, TypeOK, HandInv, CallInv, At, ThreadExit, IsReady, Ready
<1>12. CASE t \in Threads /\ DropBump(t)
  BY <1>12 DEF IInv, TypeOK, HandInv, CallInv, At, DropBump, Return, Ready
<1>13. CASE t \in Threads /\ Reset(t)
  BY <1>13 DEF IInv, TypeOK, HandInv, CallInv, At, Reset, Go
<1>14. CASE t \in Threads /\ ResetPanics(t)
  BY <1>14 DEF IInv, TypeOK, HandInv, CallInv, At, ResetPanics, Return, Ready
<1>15. CASE t \in Threads /\ e \in 0 .. epoch /\ LoadEpoch(t, e)
  BY <1>15 DEF IInv, TypeOK, HandInv, CallInv, At, LoadEpoch, Go
<1>16. CASE t \in Threads /\ SweepSlot(t)
  BY <1>16 DEF IInv, TypeOK, HandInv, CallInv, At, SweepSlot
<1>17. CASE t \in Threads /\ SweepPanics(t)
  BY <1>17 DEF IInv, TypeOK, HandInv, CallInv, At, SweepPanics, Return, Ready
<1>18. CASE t \in Threads /\ SweepEnds(t)
  BY <1>18 DEF IInv, TypeOK, HandInv, CallInv, At, SweepEnds, Go
<1>19. CASE t \in Threads /\ AccessGet(t)
  <2>1. call[t].op = "get" /\ hand' = hand /\ \A v \in Threads : v # t => call'[v] = call[v]
    BY <1>19 DEF IInv, TypeOK, AccessGet, Go, Return
  <2> QED BY <1>19, <2>1 DEF IInv, HandInv
<1>20. CASE t \in Threads /\ AccessPark(t)
  BY <1>20 DEF IInv, TypeOK, HandInv, CallInv, At, AccessPark, Return, Ready
<1>21. CASE t \in Threads /\ AccessIdleLen(t)
  BY <1>21 DEF IInv, TypeOK, HandInv, CallInv, At, AccessIdleLen, Return, Ready
<1>22. CASE t \in Threads /\ RunInit(t)
  BY <1>22 DEF IInv, TypeOK, HandInv, CallInv, At, RunInit, Return, Ready
<1>23. CASE t \in Threads /\ InitPanics(t)
  BY <1>23 DEF IInv, TypeOK, HandInv, CallInv, At, InitPanics, Return, Ready
<1> QED BY <1>1, <1>2, <1>3, <1>4, <1>5, <1>6, <1>7, <1>8, <1>9, <1>10, <1>11, <1>12, <1>13,
             <1>14, <1>15, <1>16, <1>17, <1>18, <1>19, <1>20, <1>21, <1>22, <1>23 DEF Action

\* Calls stand on what they should.
LEMMA CallStep ==
  ASSUME IInv, NEW t, NEW u, NEW p, NEW item, NEW e,
         Action(t, u, p, item, e)
  PROVE  CallInv'
<1>1. CASE New
  <2>1. \A v \in Threads : call[v].op = "drop" =>
          call[v].pool # nextId /\ call[v].pool < nextId + 1
    BY DEF IInv, TypeOK, CallInv, Pools
  <2> QED BY <1>1, <2>1 DEF IInv, TypeOK, CallInv, At, New
<1>2. CASE p \in Pools /\ WithReset(p)
  BY <1>2 DEF IInv, TypeOK, CallInv, At, WithReset, Exists
<1>3. CASE t \in Threads /\ p \in Pools /\ DropPool(t, p)
  BY <1>3 DEF IInv, TypeOK, CallInv, At, DropPool, IsReady, Exists, Borrowed, Ready
<1>4. CASE t \in Threads /\ p \in Pools /\ Get(t, p)
  BY <1>4 DEF IInv, TypeOK, CallInv, At, Get, Enter, IsReady, Exists, Ready
<1>5. CASE t \in Threads /\ p \in Pools /\ IdleLen(t, p)
  BY <1>5 DEF IInv, TypeOK, CallInv, At, IdleLen, Enter, IsReady, Exists, Ready
<1>6. CASE t \in Threads /\ p \in Pools /\ Put(t, p)
  BY <1>6 DEF IInv, TypeOK, CallInv, At, Put, Enter, IsReady, Exists, Ready
<1>7. CASE t \in Threads /\ item \in Items /\ DropGuard(t, item)
  BY <1>7 DEF IInv, TypeOK, CallInv, At, DropGuard, Enter, IsReady, Exists, Ready
<1>8. CASE t \in Threads /\ item \in Items /\ IntoInner(t, item)
  BY <1>8 DEF IInv, TypeOK, CallInv, At, IntoInner
<1>9. CASE t \in Threads /\ u \in Threads /\ item \in Items /\ SendGuard(t, u, item)
  BY <1>9 DEF IInv, TypeOK, CallInv, At, SendGuard, IsReady, Ready
<1>10. CASE t \in Threads /\ u \in Threads /\ Synchronize(t, u)
  BY <1>10 DEF IInv, TypeOK, CallInv, At, Synchronize, IsReady, Ready
<1>11. CASE t \in Threads /\ u \in Threads /\ ThreadExit(t, u)
  BY <1>11 DEF IInv, TypeOK, CallInv, At, ThreadExit, IsReady, Ready
<1>12. CASE t \in Threads /\ DropBump(t)
  BY <1>12 DEF IInv, TypeOK, CallInv, At, DropBump, Return, Ready
<1>13. CASE t \in Threads /\ Reset(t)
  BY <1>13 DEF IInv, TypeOK, CallInv, At, Reset, Go
<1>14. CASE t \in Threads /\ ResetPanics(t)
  BY <1>14 DEF IInv, TypeOK, CallInv, At, ResetPanics, Return, Ready
<1>15. CASE t \in Threads /\ e \in 0 .. epoch /\ LoadEpoch(t, e)
  BY <1>15 DEF IInv, TypeOK, CallInv, At, LoadEpoch, Go
<1>16. CASE t \in Threads /\ SweepSlot(t)
  BY <1>16 DEF IInv, TypeOK, CallInv, At, SweepSlot
<1>17. CASE t \in Threads /\ SweepPanics(t)
  BY <1>17 DEF IInv, TypeOK, CallInv, At, SweepPanics, Return, Ready
<1>18. CASE t \in Threads /\ SweepEnds(t)
  BY <1>18 DEF IInv, TypeOK, CallInv, At, SweepEnds, Go
<1>19. CASE t \in Threads /\ AccessGet(t)
  <2>1. \/ call' = [call EXCEPT ![t] = Ready]
        \/ call' = [call EXCEPT ![t].pc = "init"]
    BY <1>19 DEF AccessGet, Go, Return
  <2>2. call[t].op = "get" /\ UNCHANGED <<live, nextId>>
    BY <1>19 DEF AccessGet
  <2>3. CASE call' = [call EXCEPT ![t] = Ready]
    BY <1>19, <2>2, <2>3 DEF IInv, TypeOK, CallInv, At, Ready
  <2>4. CASE call' = [call EXCEPT ![t].pc = "init"]
    BY <1>19, <2>2, <2>4 DEF IInv, TypeOK, CallInv, At
  <2> QED BY <2>1, <2>3, <2>4
<1>20. CASE t \in Threads /\ AccessPark(t)
  BY <1>20 DEF IInv, TypeOK, CallInv, At, AccessPark, Return, Ready
<1>21. CASE t \in Threads /\ AccessIdleLen(t)
  BY <1>21 DEF IInv, TypeOK, CallInv, At, AccessIdleLen, Return, Ready
<1>22. CASE t \in Threads /\ RunInit(t)
  BY <1>22 DEF IInv, TypeOK, CallInv, At, RunInit, Return, Ready
<1>23. CASE t \in Threads /\ InitPanics(t)
  BY <1>23 DEF IInv, TypeOK, CallInv, At, InitPanics, Return, Ready
<1> QED BY <1>1, <1>2, <1>3, <1>4, <1>5, <1>6, <1>7, <1>8, <1>9, <1>10, <1>11, <1>12, <1>13,
             <1>14, <1>15, <1>16, <1>17, <1>18, <1>19, <1>20, <1>21, <1>22, <1>23 DEF Action

\* A call's registry accounts for the deaths its thread knows of.
LEMMA ViewStep ==
  ASSUME IInv, NEW t, NEW u, NEW p, NEW item, NEW e,
         Action(t, u, p, item, e)
  PROVE  ViewInv'
<1>1. CASE New
  BY <1>1 DEF IInv, TypeOK, CallInv, ViewInv, At, New
<1>2. CASE p \in Pools /\ WithReset(p)
  BY <1>2 DEF IInv, TypeOK, CallInv, ViewInv, At, WithReset
<1>3. CASE t \in Threads /\ p \in Pools /\ DropPool(t, p)
  BY <1>3 DEF IInv, TypeOK, CallInv, ViewInv, At, DropPool, IsReady, Ready
<1>4. CASE t \in Threads /\ p \in Pools /\ Get(t, p)
  BY <1>4 DEF IInv, TypeOK, CallInv, ViewInv, At, Get, Enter, IsReady, Ready
<1>5. CASE t \in Threads /\ p \in Pools /\ IdleLen(t, p)
  BY <1>5 DEF IInv, TypeOK, CallInv, ViewInv, At, IdleLen, Enter, IsReady, Ready
<1>6. CASE t \in Threads /\ p \in Pools /\ Put(t, p)
  BY <1>6 DEF IInv, TypeOK, CallInv, ViewInv, At, Put, Enter, IsReady, Ready
<1>7. CASE t \in Threads /\ item \in Items /\ DropGuard(t, item)
  BY <1>7 DEF IInv, TypeOK, CallInv, ViewInv, At, DropGuard, Enter, IsReady, Ready
<1>8. CASE t \in Threads /\ item \in Items /\ IntoInner(t, item)
  BY <1>8 DEF IInv, TypeOK, CallInv, ViewInv, At, IntoInner
<1>9. CASE t \in Threads /\ u \in Threads /\ item \in Items /\ SendGuard(t, u, item)
  BY <1>9 DEF IInv, TypeOK, CallInv, ViewInv, At, SendGuard, IsReady, Ready, Newest
<1>10. CASE t \in Threads /\ u \in Threads /\ Synchronize(t, u)
  BY <1>10 DEF IInv, TypeOK, CallInv, ViewInv, At, Synchronize, IsReady, Ready
<1>11. CASE t \in Threads /\ u \in Threads /\ ThreadExit(t, u)
  <2>1. call[t].pc = "ready" /\ call' = call
        /\ seen' = [seen EXCEPT ![t] = 0] /\ view' = [view EXCEPT ![t] = view[u]]
    BY <1>11 DEF ThreadExit, IsReady, Ready
  <2>2. /\ \A v \in Threads : v # t => seen'[v] = seen[v] /\ view'[v] = view[v]
        /\ seen'[t] = 0 /\ view'[t] \in Nat
    BY <1>11, <2>1 DEF IInv, TypeOK
  <2> QED BY <2>1, <2>2 DEF IInv, ViewInv, At
<1>12. CASE t \in Threads /\ DropBump(t)
  BY <1>12 DEF IInv, TypeOK, CallInv, ViewInv, At, DropBump, Return, Ready
<1>13. CASE t \in Threads /\ Reset(t)
  BY <1>13 DEF IInv, TypeOK, CallInv, ViewInv, At, Reset, Go
<1>14. CASE t \in Threads /\ ResetPanics(t)
  BY <1>14 DEF IInv, TypeOK, CallInv, ViewInv, At, ResetPanics, Return, Ready
<1>15. CASE t \in Threads /\ e \in 0 .. epoch /\ LoadEpoch(t, e)
  BY <1>15 DEF IInv, TypeOK, CallInv, ViewInv, At, LoadEpoch, Go
<1>16. CASE t \in Threads /\ SweepSlot(t)
  BY <1>16 DEF IInv, TypeOK, CallInv, ViewInv, At, SweepSlot
<1>17. CASE t \in Threads /\ SweepPanics(t)
  BY <1>17 DEF IInv, TypeOK, CallInv, ViewInv, At, SweepPanics, Return, Ready
<1>18. CASE t \in Threads /\ SweepEnds(t)
  BY <1>18 DEF IInv, TypeOK, CallInv, ViewInv, At, SweepEnds, Go
<1>19. CASE t \in Threads /\ AccessGet(t)
  BY <1>19 DEF IInv, TypeOK, CallInv, ViewInv, At, AccessGet, Go, Return, Ready
<1>20. CASE t \in Threads /\ AccessPark(t)
  BY <1>20 DEF IInv, TypeOK, CallInv, ViewInv, At, AccessPark, Return, Ready
<1>21. CASE t \in Threads /\ AccessIdleLen(t)
  BY <1>21 DEF IInv, TypeOK, CallInv, ViewInv, At, AccessIdleLen, Return, Ready
<1>22. CASE t \in Threads /\ RunInit(t)
  BY <1>22 DEF IInv, TypeOK, CallInv, ViewInv, At, RunInit, Return, Ready
<1>23. CASE t \in Threads /\ InitPanics(t)
  BY <1>23 DEF IInv, TypeOK, CallInv, ViewInv, At, InitPanics, Return, Ready
<1> QED BY <1>1, <1>2, <1>3, <1>4, <1>5, <1>6, <1>7, <1>8, <1>9, <1>10, <1>11, <1>12, <1>13,
             <1>14, <1>15, <1>16, <1>17, <1>18, <1>19, <1>20, <1>21, <1>22, <1>23 DEF Action

\* Only dead pools tell.
LEMMA DeathStep ==
  ASSUME IInv, NEW t, NEW u, NEW p, NEW item, NEW e,
         Action(t, u, p, item, e)
  PROVE  DeathInv'
<1>1. CASE New
  BY <1>1 DEF IInv, TypeOK, CallInv, DeathInv, At, Pools, New
<1>2. CASE p \in Pools /\ WithReset(p)
  BY <1>2 DEF IInv, TypeOK, CallInv, DeathInv, At, Pools, WithReset
<1>3. CASE t \in Threads /\ p \in Pools /\ DropPool(t, p)
  BY <1>3 DEF IInv, TypeOK, CallInv, DeathInv, At, Pools, DropPool, IsReady, Ready
<1>4. CASE t \in Threads /\ p \in Pools /\ Get(t, p)
  BY <1>4 DEF IInv, TypeOK, CallInv, DeathInv, At, Pools, Get, Enter, IsReady, Ready
<1>5. CASE t \in Threads /\ p \in Pools /\ IdleLen(t, p)
  BY <1>5 DEF IInv, TypeOK, CallInv, DeathInv, At, Pools, IdleLen, Enter, IsReady, Ready
<1>6. CASE t \in Threads /\ p \in Pools /\ Put(t, p)
  BY <1>6 DEF IInv, TypeOK, CallInv, DeathInv, At, Pools, Put, Enter, IsReady, Ready
<1>7. CASE t \in Threads /\ item \in Items /\ DropGuard(t, item)
  BY <1>7 DEF IInv, TypeOK, CallInv, DeathInv, At, Pools, DropGuard, Enter, IsReady, Ready
<1>8. CASE t \in Threads /\ item \in Items /\ IntoInner(t, item)
  BY <1>8 DEF IInv, TypeOK, CallInv, DeathInv, At, Pools, IntoInner
<1>9. CASE t \in Threads /\ u \in Threads /\ item \in Items /\ SendGuard(t, u, item)
  BY <1>9 DEF IInv, TypeOK, CallInv, DeathInv, At, Pools, SendGuard, IsReady, Ready
<1>10. CASE t \in Threads /\ u \in Threads /\ Synchronize(t, u)
  BY <1>10 DEF IInv, TypeOK, CallInv, DeathInv, At, Pools, Synchronize, IsReady, Ready
<1>11. CASE t \in Threads /\ u \in Threads /\ ThreadExit(t, u)
  BY <1>11 DEF IInv, TypeOK, CallInv, DeathInv, At, Pools, ThreadExit, IsReady, Ready
<1>12. CASE t \in Threads /\ DropBump(t)
  BY <1>12 DEF IInv, TypeOK, CallInv, DeathInv, At, Pools, DropBump, Return, Ready
<1>13. CASE t \in Threads /\ Reset(t)
  BY <1>13 DEF IInv, TypeOK, CallInv, DeathInv, At, Pools, Reset, Go
<1>14. CASE t \in Threads /\ ResetPanics(t)
  BY <1>14 DEF IInv, TypeOK, CallInv, DeathInv, At, Pools, ResetPanics, Return, Ready
<1>15. CASE t \in Threads /\ e \in 0 .. epoch /\ LoadEpoch(t, e)
  BY <1>15 DEF IInv, TypeOK, CallInv, DeathInv, At, Pools, LoadEpoch, Go
<1>16. CASE t \in Threads /\ SweepSlot(t)
  BY <1>16 DEF IInv, TypeOK, CallInv, DeathInv, At, Pools, SweepSlot
<1>17. CASE t \in Threads /\ SweepPanics(t)
  BY <1>17 DEF IInv, TypeOK, CallInv, DeathInv, At, Pools, SweepPanics, Return, Ready
<1>18. CASE t \in Threads /\ SweepEnds(t)
  BY <1>18 DEF IInv, TypeOK, CallInv, DeathInv, At, Pools, SweepEnds, Go
<1>19. CASE t \in Threads /\ AccessGet(t)
  BY <1>19 DEF IInv, TypeOK, CallInv, DeathInv, At, Pools, AccessGet, Go, Return, Ready
<1>20. CASE t \in Threads /\ AccessPark(t)
  BY <1>20 DEF IInv, TypeOK, CallInv, DeathInv, At, Pools, AccessPark, Return, Ready
<1>21. CASE t \in Threads /\ AccessIdleLen(t)
  BY <1>21 DEF IInv, TypeOK, CallInv, DeathInv, At, Pools, AccessIdleLen, Return, Ready
<1>22. CASE t \in Threads /\ RunInit(t)
  BY <1>22 DEF IInv, TypeOK, CallInv, DeathInv, At, Pools, RunInit, Return, Ready
<1>23. CASE t \in Threads /\ InitPanics(t)
  BY <1>23 DEF IInv, TypeOK, CallInv, DeathInv, At, Pools, InitPanics, Return, Ready
<1> QED BY <1>1, <1>2, <1>3, <1>4, <1>5, <1>6, <1>7, <1>8, <1>9, <1>10, <1>11, <1>12, <1>13,
             <1>14, <1>15, <1>16, <1>17, <1>18, <1>19, <1>20, <1>21, <1>22, <1>23 DEF Action

\* Slots match their pools.
LEMMA MatchStep ==
  ASSUME IInv, NEW t, NEW u, NEW p, NEW item, NEW e,
         Action(t, u, p, item, e)
  PROVE  SlotsMatchPools'
<1>1. CASE New
  BY <1>1 DEF IInv, SlotsMatchPools, New
<1>2. CASE p \in Pools /\ WithReset(p)
  BY <1>2 DEF IInv, SlotsMatchPools, WithReset
<1>3. CASE t \in Threads /\ p \in Pools /\ DropPool(t, p)
  BY <1>3 DEF IInv, SlotsMatchPools, DropPool
<1>4. CASE t \in Threads /\ p \in Pools /\ Get(t, p)
  BY <1>4 DEF IInv, SlotsMatchPools, Get
<1>5. CASE t \in Threads /\ p \in Pools /\ IdleLen(t, p)
  BY <1>5 DEF IInv, SlotsMatchPools, IdleLen
<1>6. CASE t \in Threads /\ p \in Pools /\ Put(t, p)
  BY <1>6 DEF IInv, SlotsMatchPools, Put
<1>7. CASE t \in Threads /\ item \in Items /\ DropGuard(t, item)
  BY <1>7 DEF IInv, SlotsMatchPools, DropGuard
<1>8. CASE t \in Threads /\ item \in Items /\ IntoInner(t, item)
  BY <1>8 DEF IInv, SlotsMatchPools, IntoInner
<1>9. CASE t \in Threads /\ u \in Threads /\ item \in Items /\ SendGuard(t, u, item)
  BY <1>9 DEF IInv, SlotsMatchPools, SendGuard
<1>10. CASE t \in Threads /\ u \in Threads /\ Synchronize(t, u)
  BY <1>10 DEF IInv, SlotsMatchPools, Synchronize
<1>11. CASE t \in Threads /\ u \in Threads /\ ThreadExit(t, u)
  <2>1. slots' = [slots EXCEPT ![t] = <<>>]
    BY <1>11 DEF ThreadExit
  <2>2. DOMAIN slots = Threads /\ DOMAIN <<>> = {}
    BY DEF IInv, TypeOK
  <2>3. slots'[t] = <<>> /\ \A v \in Threads : v # t => slots'[v] = slots[v]
    BY <1>11, <2>1, <2>2
  <2> QED BY <2>2, <2>3 DEF IInv, SlotsMatchPools
<1>12. CASE t \in Threads /\ DropBump(t)
  BY <1>12 DEF IInv, SlotsMatchPools, DropBump
<1>13. CASE t \in Threads /\ Reset(t)
  BY <1>13 DEF IInv, SlotsMatchPools, Reset
<1>14. CASE t \in Threads /\ ResetPanics(t)
  BY <1>14 DEF IInv, SlotsMatchPools, ResetPanics
<1>15. CASE t \in Threads /\ e \in 0 .. epoch /\ LoadEpoch(t, e)
  BY <1>15 DEF IInv, SlotsMatchPools, LoadEpoch
<1>16. CASE t \in Threads /\ SweepSlot(t)
  <2>1. CASE slots' = slots
    BY <2>1 DEF IInv, SlotsMatchPools
  <2>2. CASE slots' # slots
    <3>1. /\ slots' = [slots EXCEPT ![t] = slots'[t]]
          /\ DOMAIN slots'[t] = DOMAIN slots[t]
          /\ \A j \in DOMAIN slots[t] : slots'[t][j] = slots[t][j] \/ slots'[t][j].buf = Nothing
      BY <1>16, <2>2, SlotSwept, LenType, SlotSequence DEF IInv, TypeOK
    <3> QED BY <1>16, <3>1 DEF IInv, TypeOK, SlotsMatchPools
  <2> QED BY <2>1, <2>2
<1>17. CASE t \in Threads /\ SweepPanics(t)
  <2>1. CASE slots' = slots
    BY <2>1 DEF IInv, SlotsMatchPools
  <2>2. CASE slots' # slots
    <3>1. /\ slots' = [slots EXCEPT ![t] = slots'[t]]
          /\ DOMAIN slots'[t] = DOMAIN slots[t]
          /\ \A j \in DOMAIN slots[t] : slots'[t][j] = slots[t][j] \/ slots'[t][j].buf = Nothing
      BY <1>17, <2>2, SlotSwept, LenType, SlotSequence DEF IInv, TypeOK
    <3> QED BY <1>17, <3>1 DEF IInv, TypeOK, SlotsMatchPools
  <2> QED BY <2>1, <2>2
<1>18. CASE t \in Threads /\ SweepEnds(t)
  BY <1>18 DEF IInv, SlotsMatchPools, SweepEnds
<1>19. CASE t \in Threads /\ AccessGet(t)
  <2>1. /\ slots' = [slots EXCEPT ![t] = slots'[t]]
        /\ \A j \in DOMAIN slots'[t] :
             \/ j = SlotOf(call[t].pool) /\ slots'[t][j].live = call[t].pool
                /\ slots'[t][j].buf \in {hand[t], Nothing}
             \/ j \in DOMAIN slots[t] /\ slots'[t][j] = slots[t][j]
             \/ slots'[t][j].buf = Nothing
    BY <1>19, SlotAccessed
  <2>2. call[t].pool \in Pools
    BY <1>19, CallsTyped DEF Calls
  <2> SUFFICES ASSUME NEW v \in Threads, NEW q \in Pools, SlotOf(q) \in DOMAIN slots'[v],
                      slots'[v][SlotOf(q)].buf # Nothing
               PROVE  /\ slots'[v][SlotOf(q)].live = q
                      /\ slots'[v][SlotOf(q)].buf[1] = q
    BY DEF SlotsMatchPools
  <2>3. CASE v # t
    BY <1>19, <2>1, <2>3 DEF IInv, TypeOK, SlotsMatchPools
  <2>4. CASE v = t /\ SlotOf(q) = SlotOf(call[t].pool)
    <3>1. q = call[t].pool
      BY <2>2, <2>4 DEF SlotOf, Pools
    <3> QED BY <1>19, <2>1, <2>4, <3>1 DEF IInv, HandInv, SlotsMatchPools
  <2>5. CASE v = t /\ SlotOf(q) # SlotOf(call[t].pool)
    BY <1>19, <2>1, <2>5 DEF IInv, SlotsMatchPools
  <2> QED BY <2>3, <2>4, <2>5
<1>20. CASE t \in Threads /\ AccessPark(t)
  <2>1. /\ slots' = [slots EXCEPT ![t] = slots'[t]]
        /\ \A j \in DOMAIN slots'[t] :
             \/ j = SlotOf(call[t].pool) /\ slots'[t][j].live = call[t].pool
                /\ slots'[t][j].buf \in {hand[t], Nothing}
             \/ j \in DOMAIN slots[t] /\ slots'[t][j] = slots[t][j]
             \/ slots'[t][j].buf = Nothing
    BY <1>20, SlotAccessed
  <2>2. call[t].pool \in Pools
    BY <1>20, CallsTyped DEF Calls
  <2> SUFFICES ASSUME NEW v \in Threads, NEW q \in Pools, SlotOf(q) \in DOMAIN slots'[v],
                      slots'[v][SlotOf(q)].buf # Nothing
               PROVE  /\ slots'[v][SlotOf(q)].live = q
                      /\ slots'[v][SlotOf(q)].buf[1] = q
    BY DEF SlotsMatchPools
  <2>3. CASE v # t
    BY <1>20, <2>1, <2>3 DEF IInv, TypeOK, SlotsMatchPools
  <2>4. CASE v = t /\ SlotOf(q) = SlotOf(call[t].pool)
    <3>1. q = call[t].pool
      BY <2>2, <2>4 DEF SlotOf, Pools
    <3> QED BY <1>20, <2>1, <2>4, <3>1 DEF IInv, HandInv, SlotsMatchPools
  <2>5. CASE v = t /\ SlotOf(q) # SlotOf(call[t].pool)
    BY <1>20, <2>1, <2>5 DEF IInv, SlotsMatchPools
  <2> QED BY <2>3, <2>4, <2>5
<1>21. CASE t \in Threads /\ AccessIdleLen(t)
  BY <1>21 DEF IInv, SlotsMatchPools, AccessIdleLen
<1>22. CASE t \in Threads /\ RunInit(t)
  BY <1>22 DEF IInv, SlotsMatchPools, RunInit
<1>23. CASE t \in Threads /\ InitPanics(t)
  BY <1>23 DEF IInv, SlotsMatchPools, InitPanics
<1> QED BY <1>1, <1>2, <1>3, <1>4, <1>5, <1>6, <1>7, <1>8, <1>9, <1>10, <1>11, <1>12, <1>13,
             <1>14, <1>15, <1>16, <1>17, <1>18, <1>19, <1>20, <1>21, <1>22, <1>23 DEF Action

\* A sweep leaves living pools' buffers alone.
LEMMA SpareStep ==
  ASSUME IInv, NEW t, NEW u, NEW p, NEW item, NEW e,
         Action(t, u, p, item, e)
  PROVE  \A v \in Threads : \A q \in live :
           LET i == SlotOf(q)
           IN  At(v, "sweep") /\ i \in DOMAIN slots[v] /\ i \in DOMAIN slots'[v]
                 => slots'[v][i].buf = slots[v][i].buf
<1>1. CASE New
  BY <1>1 DEF New
<1>2. CASE p \in Pools /\ WithReset(p)
  BY <1>2 DEF WithReset
<1>3. CASE t \in Threads /\ p \in Pools /\ DropPool(t, p)
  BY <1>3 DEF DropPool
<1>4. CASE t \in Threads /\ p \in Pools /\ Get(t, p)
  BY <1>4 DEF Get
<1>5. CASE t \in Threads /\ p \in Pools /\ IdleLen(t, p)
  BY <1>5 DEF IdleLen
<1>6. CASE t \in Threads /\ p \in Pools /\ Put(t, p)
  BY <1>6 DEF Put
<1>7. CASE t \in Threads /\ item \in Items /\ DropGuard(t, item)
  BY <1>7 DEF DropGuard
<1>8. CASE t \in Threads /\ item \in Items /\ IntoInner(t, item)
  BY <1>8 DEF IntoInner
<1>9. CASE t \in Threads /\ u \in Threads /\ item \in Items /\ SendGuard(t, u, item)
  BY <1>9 DEF SendGuard
<1>10. CASE t \in Threads /\ u \in Threads /\ Synchronize(t, u)
  BY <1>10 DEF Synchronize
<1>11. CASE t \in Threads /\ u \in Threads /\ ThreadExit(t, u)
  BY <1>11 DEF IInv, TypeOK, CallInv, ThreadExit, At, IsReady, Ready
<1>12. CASE t \in Threads /\ DropBump(t)
  BY <1>12 DEF DropBump
<1>13. CASE t \in Threads /\ Reset(t)
  BY <1>13 DEF Reset
<1>14. CASE t \in Threads /\ ResetPanics(t)
  BY <1>14 DEF ResetPanics
<1>15. CASE t \in Threads /\ e \in 0 .. epoch /\ LoadEpoch(t, e)
  BY <1>15 DEF LoadEpoch
<1>16. CASE t \in Threads /\ SweepSlot(t)
  <2>1. CASE slots' = slots
    BY <2>1
  <2>2. CASE slots' # slots
    <3> DEFINE i == SlotOf(call[t].at)
    <3>1. /\ slots' = [slots EXCEPT ![t] = slots'[t]]
          /\ i \in DOMAIN slots[t] /\ slots[t][i].buf # Nothing
          /\ FALSE \in FlagReads(t, slots[t][i].live)
          /\ \A j \in DOMAIN slots[t] : j # i => slots'[t][j] = slots[t][j]
      BY <1>16, <2>2, SlotSwept
    <3>2. \A q \in live : SlotOf(q) # i
      <4> SUFFICES ASSUME NEW q \in live, SlotOf(q) = i
                   PROVE  FALSE
        OBVIOUS
      <4>1. q \in Pools
        BY DEF IInv, TypeOK
      <4>2. slots[t][i].live = q
        <5> HIDE DEF i
        <5> QED BY <1>16, <3>1, <4>1 DEF IInv, SlotsMatchPools
      <4>3. FlagReads(t, q) = {TRUE}
        BY DEF FlagReads
      <4> QED BY <3>1, <4>2, <4>3
    <3> HIDE DEF i
    <3> QED BY <1>16, <3>1, <3>2 DEF IInv, TypeOK
  <2> QED BY <2>1, <2>2
<1>17. CASE t \in Threads /\ SweepPanics(t)
  <2>1. CASE slots' = slots
    BY <2>1
  <2>2. CASE slots' # slots
    <3> DEFINE i == SlotOf(call[t].at)
    <3>1. /\ slots' = [slots EXCEPT ![t] = slots'[t]]
          /\ i \in DOMAIN slots[t] /\ slots[t][i].buf # Nothing
          /\ FALSE \in FlagReads(t, slots[t][i].live)
          /\ \A j \in DOMAIN slots[t] : j # i => slots'[t][j] = slots[t][j]
      BY <1>17, <2>2, SlotSwept
    <3>2. \A q \in live : SlotOf(q) # i
      <4> SUFFICES ASSUME NEW q \in live, SlotOf(q) = i
                   PROVE  FALSE
        OBVIOUS
      <4>1. q \in Pools
        BY DEF IInv, TypeOK
      <4>2. slots[t][i].live = q
        <5> HIDE DEF i
        <5> QED BY <1>17, <3>1, <4>1 DEF IInv, SlotsMatchPools
      <4>3. FlagReads(t, q) = {TRUE}
        BY DEF FlagReads
      <4> QED BY <3>1, <4>2, <4>3
    <3> HIDE DEF i
    <3> QED BY <1>17, <3>1, <3>2 DEF IInv, TypeOK
  <2> QED BY <2>1, <2>2
<1>18. CASE t \in Threads /\ SweepEnds(t)
  BY <1>18 DEF SweepEnds
<1>19. CASE t \in Threads /\ AccessGet(t)
  <2>1. call[t].pc = "access"
    BY <1>19 DEF AccessGet, At
  <2>2. \A v \in Threads : v # t => slots'[v] = slots[v]
    BY <1>19, SlotAccessed DEF IInv, TypeOK
  <2> QED BY <2>1, <2>2 DEF At
<1>20. CASE t \in Threads /\ AccessPark(t)
  <2>1. call[t].pc = "access"
    BY <1>20 DEF AccessPark, At
  <2>2. \A v \in Threads : v # t => slots'[v] = slots[v]
    BY <1>20, SlotAccessed DEF IInv, TypeOK
  <2> QED BY <2>1, <2>2 DEF At
<1>21. CASE t \in Threads /\ AccessIdleLen(t)
  BY <1>21 DEF AccessIdleLen
<1>22. CASE t \in Threads /\ RunInit(t)
  BY <1>22 DEF RunInit
<1>23. CASE t \in Threads /\ InitPanics(t)
  BY <1>23 DEF InitPanics
<1> QED BY <1>1, <1>2, <1>3, <1>4, <1>5, <1>6, <1>7, <1>8, <1>9, <1>10, <1>11, <1>12, <1>13,
             <1>14, <1>15, <1>16, <1>17, <1>18, <1>19, <1>20, <1>21, <1>22, <1>23 DEF Action

\* What an access parks is of a pool that lives.
LEMMA ParksLive ==
  ASSUME IInv, NoStrandedBuffer, NEW t \in Threads, AccessGet(t) \/ AccessPark(t)
  PROVE  NoStrandedBuffer'
<1>1. /\ slots' = [slots EXCEPT ![t] = slots'[t]]
      /\ \A j \in DOMAIN slots'[t] :
           \/ j = SlotOf(call[t].pool)
           \/ j \in DOMAIN slots[t] /\ slots'[t][j] = slots[t][j]
           \/ slots'[t][j].buf = Nothing
  BY SlotAccessed
<1>2. /\ At(t, "access") /\ call[t].pool \in Pools /\ call[t].op \in {"get", "park"}
      /\ UNCHANGED <<bump, seen>> /\ \A v \in Threads : v # t => call'[v] = call[v]
  BY CallsTyped DEF Calls, AccessGet, AccessPark, Go, Return
<1>3. bump[call[t].pool] = 0
  BY <1>2 DEF IInv, CallInv, DeathInv
<1> SUFFICES ASSUME NEW v \in Threads, NEW q \in Pools, SlotOf(q) \in DOMAIN slots'[v],
                    slots'[v][SlotOf(q)].buf # Nothing
             PROVE  \/ bump[q] = 0 \/ seen[v] < bump[q]
                    \/ At(v, "sweep")' /\ call'[v].at <= q
  BY <1>2 DEF NoStrandedBuffer
<1>4. CASE v # t
  BY <1>1, <1>2, <1>4 DEF IInv, TypeOK, NoStrandedBuffer, At
<1>5. CASE v = t /\ SlotOf(q) = SlotOf(call[t].pool)
  BY <1>2, <1>3, <1>5 DEF SlotOf, Pools
<1>6. CASE v = t /\ SlotOf(q) # SlotOf(call[t].pool)
  BY <1>1, <1>2, <1>6 DEF NoStrandedBuffer, At
<1> QED BY <1>4, <1>5, <1>6

\* What a round of the sweep passes by is of a pool whose death the thread does
\* not account for.
LEMMA SweepsDead ==
  ASSUME IInv, NoStrandedBuffer, NEW t \in Threads, SweepSlot(t)
  PROVE  NoStrandedBuffer'
<1> DEFINE k == call[t].at
<1>1. /\ At(t, "sweep") /\ UNCHANGED <<bump, seen>>
      /\ call' = [call EXCEPT ![t].at = k + 1] /\ k \in Nat
  BY CallsTyped DEF Calls, SweepSlot
<1>2. \A v \in Threads : DOMAIN slots'[v] = DOMAIN slots[v]
        /\ \A j \in DOMAIN slots[v] : slots'[v][j].buf # Nothing => slots'[v][j] = slots[v][j]
  <2>1. CASE slots' = slots
    BY <2>1
  <2>2. CASE slots' # slots
    <3>1. /\ slots' = [slots EXCEPT ![t] = slots'[t]]
          /\ DOMAIN slots'[t] = DOMAIN slots[t]
          /\ \A j \in DOMAIN slots[t] :
               slots'[t][j].buf # Nothing => slots'[t][j] = slots[t][j]
      BY <2>2, SlotSwept, SlotSequence, LenType DEF IInv, TypeOK
    <3> QED BY <3>1 DEF IInv, TypeOK
  <2> QED BY <2>1, <2>2
<1>3. SlotOf(k) \in DOMAIN slots[t] /\ slots'[t][SlotOf(k)].buf # Nothing
        => TRUE \in FlagReads(t, slots[t][SlotOf(k)].live)
  <2>1. CASE slots' = slots /\ slots[t][SlotOf(k)].buf # Nothing
             /\ TRUE \notin FlagReads(t, slots[t][SlotOf(k)].live)
    <3>1. slots' = [slots EXCEPT ![t][SlotOf(k)].buf = Nothing]
      BY <2>1 DEF SweepSlot
    <3> QED BY <2>1, <3>1 DEF IInv, TypeOK, SlotOf
  <2>2. CASE slots' # slots
    BY <2>2, SlotSwept
  <2> QED BY <2>1, <2>2
<1> SUFFICES ASSUME NEW v \in Threads, NEW q \in Pools, SlotOf(q) \in DOMAIN slots'[v],
                    slots'[v][SlotOf(q)].buf # Nothing
             PROVE  \/ bump[q] = 0 \/ seen[v] < bump[q]
                    \/ At(v, "sweep")' /\ call'[v].at <= q
  BY <1>1 DEF NoStrandedBuffer
<1>4. SlotOf(q) \in DOMAIN slots[v] /\ slots[v][SlotOf(q)].buf # Nothing
  BY <1>2
<1>5. bump[q] = 0 \/ seen[v] < bump[q] \/ (At(v, "sweep") /\ call[v].at <= q)
  BY <1>4 DEF NoStrandedBuffer
<1>6. CASE v # t
  BY <1>1, <1>5, <1>6 DEF IInv, TypeOK, At
<1>7. CASE v = t /\ q # k
  <2>1. At(t, "sweep")' /\ call'[t].at = k + 1
    BY <1>1, CallsTyped DEF Calls, At
  <2> QED BY <1>1, <1>5, <1>7, <2>1 DEF Pools
<1>8. CASE v = t /\ q = k
  <2>1. slots[t][SlotOf(q)].live = q
    BY <1>4, <1>8 DEF IInv, SlotsMatchPools
  <2>2. TRUE \in FlagReads(t, q)
    BY <1>3, <1>4, <1>8, <2>1
  <2>3. q \in live \/ bump[q] = 0 \/ ~(bump[q] <= view[t])
    BY <2>2 DEF FlagReads
  <2> QED BY <1>8, <2>3 DEF IInv, TypeOK, ViewInv, DeathInv
<1> QED BY <1>6, <1>7, <1>8

\* No step strands a buffer, if destructors do not unwind.
LEMMA StrandStep ==
  ASSUME IInv, NoStrandedBuffer, "drop_panic" \notin Workload,
         NEW t, NEW u, NEW p, NEW item, NEW e,
         Action(t, u, p, item, e)
  PROVE  NoStrandedBuffer'
<1>0. ASSUME UNCHANGED <<slots, seen, bump>>,
             \A v \in Threads : At(v, "sweep") => call'[v] = call[v]
      PROVE  NoStrandedBuffer'
  BY <1>0 DEF NoStrandedBuffer, At
<1>1. CASE New
  BY <1>0, <1>1 DEF IInv, TypeOK, At, New
<1>2. CASE p \in Pools /\ WithReset(p)
  BY <1>0, <1>2 DEF IInv, TypeOK, At, WithReset
<1>3. CASE t \in Threads /\ p \in Pools /\ DropPool(t, p)
  BY <1>0, <1>3 DEF IInv, TypeOK, At, DropPool, IsReady, Ready
<1>4. CASE t \in Threads /\ p \in Pools /\ Get(t, p)
  BY <1>0, <1>4 DEF IInv, TypeOK, At, Get, Enter, IsReady, Ready
<1>5. CASE t \in Threads /\ p \in Pools /\ IdleLen(t, p)
  BY <1>0, <1>5 DEF IInv, TypeOK, At, IdleLen, Enter, IsReady, Ready
<1>6. CASE t \in Threads /\ p \in Pools /\ Put(t, p)
  BY <1>0, <1>6 DEF IInv, TypeOK, At, Put, Enter, IsReady, Ready
<1>7. CASE t \in Threads /\ item \in Items /\ DropGuard(t, item)
  BY <1>0, <1>7 DEF IInv, TypeOK, At, DropGuard, Enter, IsReady, Ready
<1>8. CASE t \in Threads /\ item \in Items /\ IntoInner(t, item)
  BY <1>0, <1>8 DEF IInv, TypeOK, At, IntoInner
<1>9. CASE t \in Threads /\ u \in Threads /\ item \in Items /\ SendGuard(t, u, item)
  BY <1>0, <1>9 DEF IInv, TypeOK, At, SendGuard, IsReady, Ready
<1>10. CASE t \in Threads /\ u \in Threads /\ Synchronize(t, u)
  BY <1>0, <1>10 DEF IInv, TypeOK, At, Synchronize, IsReady, Ready
<1>11. CASE t \in Threads /\ u \in Threads /\ ThreadExit(t, u)
  <2>1. slots' = [slots EXCEPT ![t] = <<>>] /\ UNCHANGED <<call, bump>>
        /\ \A v \in Threads : v # t => seen'[v] = seen[v]
    BY <1>11 DEF ThreadExit, IInv, TypeOK
  <2>2. slots'[t] = <<>> /\ \A v \in Threads : v # t => slots'[v] = slots[v]
    BY <1>11, <2>1 DEF IInv, TypeOK
  <2>3. ASSUME NEW q \in Pools
        PROVE  SlotOf(q) \notin DOMAIN slots'[t]
    BY <2>2
  <2> HIDE DEF SlotOf
  <2> QED BY <2>1, <2>2, <2>3 DEF NoStrandedBuffer, At
<1>12. CASE t \in Threads /\ DropBump(t)
  BY <1>12
  DEF IInv, TypeOK, CallInv, ViewInv, DeathInv, NoStrandedBuffer, At, DropBump, Return,
      Ready
<1>13. CASE t \in Threads /\ Reset(t)
  BY <1>0, <1>13 DEF IInv, TypeOK, At, Reset, Go
<1>14. CASE t \in Threads /\ ResetPanics(t)
  BY <1>0, <1>14 DEF IInv, TypeOK, At, ResetPanics, Return, Ready
<1>15. CASE t \in Threads /\ e \in 0 .. epoch /\ LoadEpoch(t, e)
  <2>1. /\ At(t, "load") /\ UNCHANGED <<slots, bump>> /\ seen' = [seen EXCEPT ![t] = e]
        /\ \A v \in Threads : v # t => call'[v] = call[v] /\ seen'[v] = seen[v]
    BY <1>15 DEF LoadEpoch, Go, IInv, TypeOK
  <2>2. seen'[t] = seen[t] \/ (At(t, "sweep")' /\ call'[t].at = 0)
    BY <1>15, <2>1, CallsTyped DEF LoadEpoch, Go, Calls, At, IInv, TypeOK, CallInv
  <2>3. ASSUME NEW q \in Pools, SlotOf(q) \in DOMAIN slots[t], slots[t][SlotOf(q)].buf # Nothing
        PROVE  bump[q] = 0 \/ seen[t] < bump[q]
    BY <1>15, <2>1, <2>3 DEF NoStrandedBuffer, At
  <2> SUFFICES ASSUME NEW v \in Threads, NEW q \in Pools, SlotOf(q) \in DOMAIN slots[v],
                      slots[v][SlotOf(q)].buf # Nothing
               PROVE  \/ bump[q] = 0 \/ seen'[v] < bump[q]
                      \/ At(v, "sweep")' /\ call'[v].at <= q
    BY <2>1 DEF NoStrandedBuffer
  <2>4. CASE v = t
    BY <1>15, <2>2, <2>3, <2>4 DEF Pools
  <2>5. CASE v # t
    BY <1>15, <2>1, <2>5 DEF NoStrandedBuffer, At
  <2> QED BY <2>4, <2>5
<1>16. CASE t \in Threads /\ SweepSlot(t)
  BY <1>16, SweepsDead
<1>17. CASE t \in Threads /\ SweepPanics(t)
  BY <1>17 DEF SweepPanics
<1>18. CASE t \in Threads /\ SweepEnds(t)
  <2>1. /\ call[t].at = Len(slots[t]) /\ UNCHANGED <<slots, bump, seen>>
        /\ \A v \in Threads : v # t => call'[v] = call[v]
    BY <1>18 DEF SweepEnds, Go
  <2>2. ASSUME NEW q \in Pools, SlotOf(q) \in DOMAIN slots[t]
        PROVE  ~(call[t].at <= q)
    BY <1>18, <2>1, <2>2, LenType DEF IInv, TypeOK, SlotOf, Pools
  <2> QED BY <1>18, <2>1, <2>2 DEF NoStrandedBuffer, At
<1>19. CASE t \in Threads /\ AccessGet(t)
  BY <1>19, ParksLive
<1>20. CASE t \in Threads /\ AccessPark(t)
  BY <1>20, ParksLive
<1>21. CASE t \in Threads /\ AccessIdleLen(t)
  BY <1>0, <1>21 DEF IInv, TypeOK, At, AccessIdleLen, Return, Ready
<1>22. CASE t \in Threads /\ RunInit(t)
  BY <1>0, <1>22 DEF IInv, TypeOK, At, RunInit, Return, Ready
<1>23. CASE t \in Threads /\ InitPanics(t)
  BY <1>0, <1>23 DEF IInv, TypeOK, At, InitPanics, Return, Ready
<1> QED BY <1>1, <1>2, <1>3, <1>4, <1>5, <1>6, <1>7, <1>8, <1>9, <1>10, <1>11, <1>12, <1>13,
             <1>14, <1>15, <1>16, <1>17, <1>18, <1>19, <1>20, <1>21, <1>22, <1>23 DEF Action

\* No step strands a buffer.
LEMMA StrandsNothing ==
  ASSUME "drop_panic" \notin Workload, IInv, NoStrandedBuffer, [Next]_vars
  PROVE  NoStrandedBuffer'
<1>1. CASE UNCHANGED vars
  BY <1>1 DEF vars, NoStrandedBuffer, At
<1>2. CASE Next
  <2>1. PICK t, u, p, item, e : Action(t, u, p, item, e)
    BY <1>2, NextIsAction
  <2> QED BY <2>1, StrandStep
<1> QED BY <1>1, <1>2

-----------------------------------------------------------------------------
(* Where buffers are.                                                       *)

\* NoAliasing, place by place.
Apart ==
  \A b \in Buffers, v, w \in Threads, q, r \in Pools, x, y \in Places :
    Holds(v, x, q, b) /\ Holds(w, y, r, b) => v = w /\ x = y /\ q = r

\* Apart is the aliasing property, place by place.
LEMMA ApartIsNoAliasing == Apart <=> NoAliasing
<1>1. ASSUME Apart
      PROVE  NoAliasing
  BY <1>1 DEF Apart, NoAliasing, Holders
<1>2. ASSUME NoAliasing, NEW b \in Buffers, NEW v \in Threads, NEW w \in Threads,
             NEW q \in Pools, NEW r \in Pools, NEW x \in Places, NEW y \in Places,
             Holds(v, x, q, b), Holds(w, y, r, b)
      PROVE  v = w /\ x = y /\ q = r
  <2>1. <<v, x, q>> \in Holders(b) /\ <<w, y, r>> \in Holders(b)
    BY <1>2 DEF Holders
  <2>2. <<v, x, q>> = <<w, y, r>>
    BY <1>2, <2>1 DEF NoAliasing
  <2> QED BY <2>2
<1> QED BY <1>1, <1>2 DEF Apart

\* An empty slot has no buffer.
LEMMA NothingIsNoItem == \A s \in Pools, c \in Buffers : <<s, c>> # Nothing
  BY NothingAssumption DEF Items

\* A fresh buffer is nowhere.
LEMMA FreshIsNowhere ==
  ASSUME IInv, NEW b \in Fresh, NEW v \in Threads, NEW q \in Pools, NEW x \in Places
  PROVE  ~Holds(v, x, q, b)
<1>1. \A r \in Pools :
        <<r, b>> \notin guards[v] /\ <<r, b>> # hand[v] /\ <<r, b>> \notin Parked(v)
  BY NothingAssumption DEF Fresh, Alive, Items
<1>2. ASSUME SlotOf(q) \in DOMAIN slots[v], slots[v][SlotOf(q)].buf # Nothing,
             slots[v][SlotOf(q)].buf[2] = b
      PROVE  FALSE
  <2>1. slots[v][SlotOf(q)] \in Slot
    BY <1>2 DEF IInv, TypeOK
  <2>2. slots[v][SlotOf(q)].buf \in Items
    BY <1>2, <2>1 DEF Slot
  <2>3. \E r \in Pools : slots[v][SlotOf(q)].buf = <<r, b>>
    BY <1>2, <2>2 DEF Items
  <2> QED BY <1>1, <1>2, <2>3 DEF Parked
<1> QED BY <1>1, <1>2 DEF Holds

\* Slots that a step changes: none but t's, and what is in them was there before.
LEMMA SlotsKeep ==
  ASSUME IInv, NEW t \in Threads, SweepSlot(t) \/ SweepPanics(t),
         NEW v \in Threads, NEW j \in DOMAIN slots'[v], slots'[v][j].buf # Nothing
  PROVE  j \in DOMAIN slots[v] /\ slots'[v][j] = slots[v][j]
<1>1. CASE slots' = slots
  BY <1>1
<1>2. CASE slots' # slots
  <2>1. /\ slots' = [slots EXCEPT ![t] = slots'[t]]
        /\ DOMAIN slots'[t] = DOMAIN slots[t]
        /\ \A k \in DOMAIN slots[t] : slots'[t][k].buf # Nothing => slots'[t][k] = slots[t][k]
    BY <1>2, SlotSwept, SlotSequence, LenType DEF IInv, TypeOK
  <2> QED BY <2>1 DEF IInv, TypeOK
<1> QED BY <1>1, <1>2

\* Buffers move from one place to another.
LEMMA ApartStep ==
  ASSUME IInv, Apart, NEW t, NEW u, NEW p, NEW item, NEW e,
         Action(t, u, p, item, e)
  PROVE  Apart'
<1>1. CASE New
  BY <1>1 DEF Apart, Holds, New
<1>2. CASE p \in Pools /\ WithReset(p)
  BY <1>2 DEF Apart, Holds, WithReset
<1>3. CASE t \in Threads /\ p \in Pools /\ DropPool(t, p)
  BY <1>3 DEF Apart, Holds, DropPool
<1>4. CASE t \in Threads /\ p \in Pools /\ Get(t, p)
  BY <1>4 DEF Apart, Holds, Get, Enter
<1>5. CASE t \in Threads /\ p \in Pools /\ IdleLen(t, p)
  BY <1>5 DEF Apart, Holds, IdleLen, Enter
<1>6. CASE t \in Threads /\ p \in Pools /\ Put(t, p)
  <2> SUFFICES ASSUME NEW b \in Buffers, NEW v \in Threads, NEW w \in Threads,
                      NEW q \in Pools, NEW r \in Pools, NEW x \in Places, NEW y \in Places,
                      Holds(v, x, q, b)', Holds(w, y, r, b)'
               PROVE  v = w /\ x = y /\ q = r
    BY DEF Apart
  <2>1. PICK c \in Fresh : hand' = [hand EXCEPT ![t] = <<p, c>>] /\ UNCHANGED <<guards, slots>>
    BY <1>6 DEF Put
  <2>2. ASSUME NEW z \in Threads, NEW s \in Pools, NEW k \in Places, Holds(z, k, s, b)'
        PROVE  \/ b # c /\ Holds(z, k, s, b)
               \/ b = c /\ z = t /\ k = "hand" /\ s = p
    <3>1. Holds(z, k, s, b) \/ (b = c /\ z = t /\ k = "hand" /\ s = p)
      BY <1>6, <2>1, <2>2 DEF Holds, IInv, TypeOK
    <3>2. b = c => ~Holds(z, k, s, b)
      BY FreshIsNowhere
    <3> QED BY <3>1, <3>2
  <2> QED BY <2>2 DEF Apart
<1>7. CASE t \in Threads /\ item \in Items /\ DropGuard(t, item)
  <2> SUFFICES ASSUME NEW b \in Buffers, NEW v \in Threads, NEW w \in Threads,
                      NEW q \in Pools, NEW r \in Pools, NEW x \in Places, NEW y \in Places,
                      Holds(v, x, q, b)', Holds(w, y, r, b)'
               PROVE  v = w /\ x = y /\ q = r
    BY DEF Apart
  <2>1. PICK s \in Pools, c \in Buffers : item = <<s, c>>
    BY <1>7 DEF Items
  <2>2. /\ Holds(t, "guard", s, c) /\ hand' = [hand EXCEPT ![t] = <<s, c>>]
        /\ guards' = [guards EXCEPT ![t] = @ \ {<<s, c>>}] /\ UNCHANGED slots
    BY <1>7, <2>1 DEF DropGuard, Holds
  <2>3. ASSUME NEW z \in Threads, NEW o \in Pools, NEW k \in Places, Holds(z, k, o, b)'
        PROVE  \/ b = c /\ z = t /\ k = "hand" /\ o = s
               \/ Holds(z, k, o, b) /\ ~(b = c /\ z = t /\ k = "guard" /\ o = s)
    BY <1>7, <2>2, <2>3 DEF Holds, IInv, TypeOK
  <2> QED BY <1>7, <2>2, <2>3 DEF Apart, Places
<1>8. CASE t \in Threads /\ item \in Items /\ IntoInner(t, item)
  <2> SUFFICES ASSUME NEW b \in Buffers, NEW v \in Threads, NEW w \in Threads,
                      NEW q \in Pools, NEW r \in Pools, NEW x \in Places, NEW y \in Places,
                      Holds(v, x, q, b)', Holds(w, y, r, b)'
               PROVE  v = w /\ x = y /\ q = r
    BY DEF Apart
  <2>1. Holds(v, x, q, b) /\ Holds(w, y, r, b)
    BY <1>8 DEF IntoInner, Holds, IInv, TypeOK
  <2> QED BY <2>1 DEF Apart
<1>9. CASE t \in Threads /\ u \in Threads /\ item \in Items /\ SendGuard(t, u, item)
  <2> SUFFICES ASSUME NEW b \in Buffers, NEW v \in Threads, NEW w \in Threads,
                      NEW q \in Pools, NEW r \in Pools, NEW x \in Places, NEW y \in Places,
                      Holds(v, x, q, b)', Holds(w, y, r, b)'
               PROVE  v = w /\ x = y /\ q = r
    BY DEF Apart
  <2>1. PICK s \in Pools, c \in Buffers : item = <<s, c>>
    BY <1>9 DEF Items
  <2>2. /\ Holds(t, "guard", s, c) /\ t # u /\ UNCHANGED <<hand, slots>>
        /\ guards' = [guards EXCEPT ![t] = @ \ {<<s, c>>}, ![u] = @ \cup {<<s, c>>}]
    BY <1>9, <2>1 DEF SendGuard, Holds
  <2>3. ASSUME NEW z \in Threads, NEW o \in Pools, NEW k \in Places, Holds(z, k, o, b)'
        PROVE  \/ b = c /\ z = u /\ k = "guard" /\ o = s
               \/ Holds(z, k, o, b) /\ ~(b = c /\ z = t /\ k = "guard" /\ o = s)
    BY <1>9, <2>2, <2>3 DEF Holds, IInv, TypeOK
  <2> QED BY <1>9, <2>2, <2>3 DEF Apart, Places
<1>10. CASE t \in Threads /\ u \in Threads /\ Synchronize(t, u)
  BY <1>10 DEF Apart, Holds, Synchronize
<1>11. CASE t \in Threads /\ u \in Threads /\ ThreadExit(t, u)
  <2> SUFFICES ASSUME NEW b \in Buffers, NEW v \in Threads, NEW w \in Threads,
                      NEW q \in Pools, NEW r \in Pools, NEW x \in Places, NEW y \in Places,
                      Holds(v, x, q, b)', Holds(w, y, r, b)'
               PROVE  v = w /\ x = y /\ q = r
    BY DEF Apart
  <2>1. slots'[t] = <<>> /\ \A z \in Threads : z # t => slots'[z] = slots[z]
    BY <1>11 DEF ThreadExit, IInv, TypeOK
  <2>2. SlotOf(q) \notin DOMAIN slots'[t] /\ SlotOf(r) \notin DOMAIN slots'[t]
    BY <2>1
  <2>3. UNCHANGED <<hand, guards>>
    BY <1>11 DEF ThreadExit
  <2>4. Holds(v, x, q, b) /\ Holds(w, y, r, b)
    BY <2>1, <2>2, <2>3 DEF Holds
  <2> QED BY <2>4 DEF Apart
<1>12. CASE t \in Threads /\ DropBump(t)
  BY <1>12 DEF Apart, Holds, DropBump
<1>13. CASE t \in Threads /\ Reset(t)
  BY <1>13 DEF Apart, Holds, Reset
<1>14. CASE t \in Threads /\ ResetPanics(t)
  <2> SUFFICES ASSUME NEW b \in Buffers, NEW v \in Threads, NEW w \in Threads,
                      NEW q \in Pools, NEW r \in Pools, NEW x \in Places, NEW y \in Places,
                      Holds(v, x, q, b)', Holds(w, y, r, b)'
               PROVE  v = w /\ x = y /\ q = r
    BY DEF Apart
  <2>1. Holds(v, x, q, b) /\ Holds(w, y, r, b)
    <3>1. /\ UNCHANGED <<slots, guards>>
          /\ \A z \in Threads : hand'[z] = hand[z] \/ hand'[z] = Nothing
      BY <1>14 DEF ResetPanics, IInv, TypeOK
    <3> QED BY <3>1, NothingIsNoItem DEF Holds
  <2> QED BY <2>1 DEF Apart
<1>15. CASE t \in Threads /\ e \in 0 .. epoch /\ LoadEpoch(t, e)
  BY <1>15 DEF Apart, Holds, LoadEpoch
<1>16. CASE t \in Threads /\ SweepSlot(t)
  <2> SUFFICES ASSUME NEW b \in Buffers, NEW v \in Threads, NEW w \in Threads,
                      NEW q \in Pools, NEW r \in Pools, NEW x \in Places, NEW y \in Places,
                      Holds(v, x, q, b)', Holds(w, y, r, b)'
               PROVE  v = w /\ x = y /\ q = r
    BY DEF Apart
  <2>1. UNCHANGED guards /\ \A z \in Threads : hand'[z] = hand[z] \/ hand'[z] = Nothing
    BY <1>16 DEF SweepSlot, IInv, TypeOK
  <2>2. Holds(v, x, q, b) /\ Holds(w, y, r, b)
    BY <1>16, <2>1, SlotsKeep, NothingAssumption DEF Holds, Items
  <2> QED BY <2>2 DEF Apart
<1>17. CASE t \in Threads /\ SweepPanics(t)
  <2> SUFFICES ASSUME NEW b \in Buffers, NEW v \in Threads, NEW w \in Threads,
                      NEW q \in Pools, NEW r \in Pools, NEW x \in Places, NEW y \in Places,
                      Holds(v, x, q, b)', Holds(w, y, r, b)'
               PROVE  v = w /\ x = y /\ q = r
    BY DEF Apart
  <2>1. UNCHANGED guards /\ \A z \in Threads : hand'[z] = hand[z] \/ hand'[z] = Nothing
    BY <1>17 DEF SweepPanics, IInv, TypeOK
  <2>2. Holds(v, x, q, b) /\ Holds(w, y, r, b)
    BY <1>17, <2>1, SlotsKeep, NothingAssumption DEF Holds, Items
  <2> QED BY <2>2 DEF Apart
<1>18. CASE t \in Threads /\ SweepEnds(t)
  BY <1>18 DEF Apart, Holds, SweepEnds
<1>19. CASE t \in Threads /\ AccessGet(t)
  <2> SUFFICES ASSUME NEW b \in Buffers, NEW v \in Threads, NEW w \in Threads,
                      NEW q \in Pools, NEW r \in Pools, NEW x \in Places, NEW y \in Places,
                      Holds(v, x, q, b)', Holds(w, y, r, b)'
               PROVE  v = w /\ x = y /\ q = r
    BY DEF Apart
  <2> DEFINE o == call[t].pool
             i == SlotOf(o)
  <2>1. o \in Pools
    BY <1>19, CallsTyped DEF Calls
  <2>2. /\ slots' = [slots EXCEPT ![t] = slots'[t]]
        /\ i \in DOMAIN slots'[t] /\ slots'[t][i].buf \in {hand[t], Nothing}
        /\ \A j \in DOMAIN slots'[t] : j # i =>
             (j \in DOMAIN slots[t] /\ slots'[t][j] = slots[t][j]) \/ slots'[t][j].buf = Nothing
    BY <1>19, SlotAccessed
  <2>3. slots'[t][i].buf = Nothing /\ UNCHANGED hand
    BY <1>19, SlotAccessed DEF AccessGet
  <2>4. \/ UNCHANGED guards
        \/ /\ i \in DOMAIN slots[t] /\ slots[t][i].buf # Nothing
           /\ guards' = [guards EXCEPT ![t] = @ \cup {slots[t][i].buf}]
    <3> DEFINE buf == SlotFor(slots[t], o)[i].buf
    <3>1. UNCHANGED guards \/ (buf # Nothing /\ guards' = [guards EXCEPT ![t] = @ \cup {buf}])
      BY <1>19 DEF AccessGet
    <3>2. slots[t] \in Seq(Slot) /\ Len(slots[t]) <= MaxPools
      BY <1>19 DEF IInv, TypeOK, SlotInv
    <3>3. buf # Nothing => i \in DOMAIN slots[t] /\ buf = slots[t][i].buf
      <4> HIDE DEF o
      <4> QED BY <2>1, <3>2, SlotForBuf
    <3> HIDE DEF buf
    <3> QED BY <3>1, <3>3
  <2>5. ASSUME NEW z \in Threads, NEW s \in Pools, Holds(z, "slot", s, b)'
        PROVE  Holds(z, "slot", s, b) /\ ~(z = t /\ SlotOf(s) = i)
    <3> HIDE DEF i
    <3> QED BY <1>19, <2>2, <2>3, <2>5 DEF Holds, IInv, TypeOK
  <2>6. CASE UNCHANGED guards
    <3>1. Holds(v, x, q, b) /\ Holds(w, y, r, b)
      BY <2>3, <2>5, <2>6 DEF Holds
    <3> QED BY <3>1 DEF Apart
  <2>7. CASE /\ i \in DOMAIN slots[t] /\ slots[t][i].buf # Nothing
             /\ guards' = [guards EXCEPT ![t] = @ \cup {slots[t][i].buf}]
    <3>1. slots[t][i] \in Slot
      <4>1. slots[t] \in Seq(Slot)
        BY <1>19 DEF IInv, TypeOK
      <4> HIDE DEF i
      <4> QED BY <2>7, <4>1, SlotTyped
    <3>2. PICK c \in Buffers : slots[t][i].buf = <<o, c>>
      BY <1>19, <2>1, <2>7, <3>1 DEF IInv, SlotsMatchPools, Slot, Items
    <3>3. Holds(t, "slot", o, c)
      BY <2>7, <3>2 DEF Holds
    <3> HIDE DEF o
    <3>4. ASSUME NEW z \in Threads, NEW s \in Pools, NEW k \in Places, Holds(z, k, s, b)'
          PROVE  \/ b = c /\ z = t /\ k = "guard" /\ s = o
                 \/ Holds(z, k, s, b) /\ ~(z = t /\ k = "slot" /\ s = o)
      <4>1. CASE k = "slot"
        BY <2>5, <3>4, <4>1
      <4>2. CASE k = "hand"
        BY <2>3, <3>4, <4>2 DEF Holds
      <4>3. CASE k = "guard"
        BY <1>19, <2>7, <3>2, <3>4, <4>3 DEF Holds, IInv, TypeOK
      <4> QED BY <4>1, <4>2, <4>3 DEF Places
    <3> QED BY <1>19, <2>1, <3>3, <3>4 DEF Apart, Places
  <2> QED BY <2>4, <2>6, <2>7
<1>20. CASE t \in Threads /\ AccessPark(t)
  <2> SUFFICES ASSUME NEW b \in Buffers, NEW v \in Threads, NEW w \in Threads,
                      NEW q \in Pools, NEW r \in Pools, NEW x \in Places, NEW y \in Places,
                      Holds(v, x, q, b)', Holds(w, y, r, b)'
               PROVE  v = w /\ x = y /\ q = r
    BY DEF Apart
  <2> DEFINE o == call[t].pool
             i == SlotOf(o)
  <2>1. o \in Pools /\ hand[t] \in Items \cup {Nothing}
    BY <1>20, CallsTyped DEF Calls, IInv, TypeOK
  <2>2. /\ slots' = [slots EXCEPT ![t] = slots'[t]]
        /\ i \in DOMAIN slots'[t] /\ slots'[t][i].buf = hand[t]
        /\ \A j \in DOMAIN slots'[t] : j # i =>
             (j \in DOMAIN slots[t] /\ slots'[t][j] = slots[t][j]) \/ slots'[t][j].buf = Nothing
    BY <1>20, SlotAccessed DEF AccessPark
  <2>3. UNCHANGED guards /\ hand' = [hand EXCEPT ![t] = Nothing]
    BY <1>20 DEF AccessPark
  <2>4. ASSUME NEW z \in Threads, NEW s \in Pools, NEW k \in Places, Holds(z, k, s, b)'
        PROVE  \/ /\ z = t /\ k = "slot" /\ s = o
                  /\ Holds(t, "hand", o, b)
               \/ Holds(z, k, s, b) /\ ~(z = t /\ k = "hand")
    <3>1. CASE k = "slot" /\ (z # t \/ SlotOf(s) # i)
      <4> HIDE DEF i
      <4> QED BY <1>20, <2>2, <2>4, <3>1 DEF Holds, IInv, TypeOK
    <3>2. CASE k = "slot" /\ z = t /\ SlotOf(s) = i
      <4>1. s = o
        BY <2>1, <3>2 DEF SlotOf, Pools
      <4>2. hand[t] # Nothing /\ hand[t][2] = b
        BY <2>2, <2>4, <3>2 DEF Holds
      <4>3. hand[t][1] = o
        BY <1>20, <4>2 DEF IInv, HandInv
      <4>4. hand[t] = <<o, b>>
        BY <2>1, <4>2, <4>3 DEF Items
      <4> QED BY <3>2, <4>1, <4>4 DEF Holds
    <3>3. CASE k = "hand"
      <4>1. hand'[t] = Nothing /\ \A a \in Threads : a # t => hand'[a] = hand[a]
        BY <1>20, <2>3 DEF IInv, TypeOK
      <4> QED BY <4>1, <2>4, <3>3, NothingIsNoItem DEF Holds
    <3>4. CASE k = "guard"
      BY <2>3, <2>4, <3>4 DEF Holds
    <3> QED BY <3>1, <3>2, <3>3, <3>4 DEF Places
  <2> HIDE DEF o
  <2> QED BY <1>20, <2>1, <2>4 DEF Apart, Places
<1>21. CASE t \in Threads /\ AccessIdleLen(t)
  BY <1>21 DEF Apart, Holds, AccessIdleLen
<1>22. CASE t \in Threads /\ RunInit(t)
  <2> SUFFICES ASSUME NEW b \in Buffers, NEW v \in Threads, NEW w \in Threads,
                      NEW q \in Pools, NEW r \in Pools, NEW x \in Places, NEW y \in Places,
                      Holds(v, x, q, b)', Holds(w, y, r, b)'
               PROVE  v = w /\ x = y /\ q = r
    BY DEF Apart
  <2>1. PICK c \in Fresh : /\ guards' = [guards EXCEPT ![t] = @ \cup {<<call[t].pool, c>>}]
                           /\ UNCHANGED <<hand, slots>>
    BY <1>22 DEF RunInit
  <2>2. ASSUME NEW z \in Threads, NEW s \in Pools, NEW k \in Places, Holds(z, k, s, b)'
        PROVE  \/ b # c /\ Holds(z, k, s, b)
               \/ b = c /\ z = t /\ k = "guard" /\ s = call[t].pool
    <3>1. CASE b = c
      <4>1. ~Holds(z, k, s, b)
        BY <2>1, <2>2, <3>1, FreshIsNowhere
      <4>2. k = "guard" /\ <<s, b>> \in guards'[z]
        BY <2>1, <2>2, <4>1 DEF Holds
      <4>3. <<s, b>> \notin guards[z]
        BY <4>1, <4>2 DEF Holds
      <4> QED BY <1>22, <2>1, <3>1, <4>2, <4>3 DEF IInv, TypeOK
    <3>2. CASE b # c
      <4>1. \A v1 \in Threads : <<s, b>> \in guards'[v1] => <<s, b>> \in guards[v1]
        BY <1>22, <2>1, <3>2 DEF IInv, TypeOK
      <4> QED BY <2>1, <2>2, <3>2, <4>1 DEF Holds
    <3> QED BY <3>1, <3>2
  <2> QED BY <2>2 DEF Apart
<1>23. CASE t \in Threads /\ InitPanics(t)
  BY <1>23 DEF Apart, Holds, InitPanics
<1> QED BY <1>1, <1>2, <1>3, <1>4, <1>5, <1>6, <1>7, <1>8, <1>9, <1>10, <1>11, <1>12, <1>13,
             <1>14, <1>15, <1>16, <1>17, <1>18, <1>19, <1>20, <1>21, <1>22, <1>23 DEF Action

\* The invariant holds at first, when no registry has a slot.
LEMMA Initially ==
  ASSUME Init
  PROVE  IInv
<1>1. Ready \in Calls /\ Ready.op = "none" /\ Ready.pc = "ready" /\ Ready.at = 0
  BY CallTypes DEF Ready
<1>2. \A t \in Threads : slots[t] = <<>>
  BY DEF Init
<1>3. slots \in [Threads -> Seq(Slot)]
  BY DEF Init
<1>4. TypeOK
  BY <1>1, <1>3 DEF Init, TypeOK, Calls, Steps
<1>5. HandInv /\ CallInv /\ ViewInv /\ DeathInv
  BY <1>1 DEF Init, HandInv, CallInv, ViewInv, DeathInv, At, Pools
<1>6. SlotInv /\ SlotsMatchPools
  BY <1>2 DEF SlotInv, SlotsMatchPools
<1> QED BY <1>4, <1>5, <1>6 DEF IInv

\* Every step preserves it.
LEMMA Inductive ==
  ASSUME IInv, [Next]_vars
  PROVE  IInv'
<1>1. CASE UNCHANGED vars
  BY <1>1 DEF vars, IInv, TypeOK, SlotInv, HandInv, CallInv, At, ViewInv, DeathInv,
              SlotsMatchPools
<1>2. CASE Next
  <2>1. PICK t, u, p, item, e : Action(t, u, p, item, e)
    BY <1>2, NextIsAction
  <2>2. TypeOK'
    BY <2>1, AtomicsTypeStep, SlotTypeStep, CallTypeStep, BuffersTypeStep
    DEF TypeOK, Calls, Steps
  <2>3. SlotInv' /\ HandInv'
    BY <2>1, SlotTypeStep, HandStep
  <2>4. CallInv' /\ ViewInv' /\ DeathInv'
    BY <2>1, CallStep, ViewStep, DeathStep
  <2>5. SlotsMatchPools'
    BY <2>1, MatchStep
  <2> QED BY <2>2, <2>3, <2>4, <2>5 DEF IInv
<1> QED BY <1>1, <1>2

-----------------------------------------------------------------------------
(* The theorems.                                                            *)

\* Every variable keeps its type, and no thread's registry grows past the last
\* pool's slot, for any number of threads, buffers and pools (local.rs, Registry,
\* slot_for).
THEOREM LocalTyped == Spec => [](TypeOK /\ SlotInv)
<1>1. Init => IInv
  BY Initially
<1>2. IInv /\ [Next]_vars => IInv'
  BY Inductive
<1>3. IInv => TypeOK /\ SlotInv
  BY DEF IInv
<1> QED BY <1>1, <1>2, <1>3, PTL DEF Spec

\* A parked buffer is in the slot of its own pool, beside that pool's flag, in
\* whatever order pools grow the registry: the downcasts of get and park_erased
\* cannot fail.
THEOREM SlotsMatch == Spec => []SlotsMatchPools
<1>1. Init => IInv
  BY Initially
<1>2. IInv /\ [Next]_vars => IInv'
  BY Inductive
<1>3. IInv => SlotsMatchPools
  BY DEF IInv
<1> QED BY <1>1, <1>2, <1>3, PTL DEF Spec

\* No buffer is in two places: a slot's buffer is leased to one guard, a guard
\* parks on one thread, whatever threads it has been on (get, LocalPooled::drop).
THEOREM NoLocalAliasing == Spec => []NoAliasing
<1>1. Init => IInv /\ Apart
  <2>1. Init => Apart
    <3> SUFFICES ASSUME Init
                 PROVE  \A b \in Buffers, v \in Threads, q \in Pools, x \in Places :
                          ~Holds(v, x, q, b)
      BY DEF Apart
    <3>1. \A v \in Threads : slots[v] = <<>> /\ guards[v] = {} /\ hand[v] = Nothing
      BY DEF Init
    <3> QED BY <3>1, NothingAssumption DEF Holds, Items
  <2> QED BY <2>1, Initially
<1>2. IInv /\ Apart /\ [Next]_vars => IInv' /\ Apart'
  <2> SUFFICES ASSUME IInv, Apart, [Next]_vars
               PROVE  Apart'
    BY Inductive
  <2>1. CASE UNCHANGED vars
    BY <2>1 DEF vars, Apart, Holds
  <2>2. CASE Next
    <3>1. PICK t, u, p, item, e : Action(t, u, p, item, e)
      BY <2>2, NextIsAction
    <3> QED BY <3>1, ApartStep
  <2> QED BY <2>1, <2>2
<1>3. Apart => NoAliasing
  BY ApartIsNoAliasing
<1> QED BY <1>1, <1>2, <1>3, PTL DEF Spec

\* with_registry's sweep drops no buffer of a living pool, however old the values
\* it reads.
THEOREM SweepsSpare == Spec => SweepSparesLivePools
<1> DEFINE Spares ==
      \A t \in Threads : \A p \in live :
        LET i == SlotOf(p)
        IN  At(t, "sweep") /\ i \in DOMAIN slots[t] /\ i \in DOMAIN slots'[t]
              => slots'[t][i].buf = slots[t][i].buf
<1>1. Init => IInv
  BY Initially
<1>2. IInv /\ [Next]_vars => IInv'
  BY Inductive
<1>3. IInv /\ [Next]_vars => [Spares]_vars
  <2> SUFFICES ASSUME IInv, Next
               PROVE  Spares
    OBVIOUS
  <2>1. PICK t, u, p, item, e : Action(t, u, p, item, e)
    BY NextIsAction
  <2> QED BY <2>1, SpareStep
<1> QED BY <1>1, <1>2, <1>3, PTL DEF Spec, SweepSparesLivePools

\* Unless a destructor unwinds out of a sweep, no buffer is stranded: a thread
\* that accounts for a pool's death has dropped the pool's buffer, or is about
\* to (local.rs, LocalInner::drop and with_registry).
THEOREM NothingStranded ==
  ASSUME "drop_panic" \notin Workload
  PROVE  Spec => []NoStrandedBuffer
<1>1. Init => IInv /\ NoStrandedBuffer
  <2>1. Init => NoStrandedBuffer
    BY DEF Init, NoStrandedBuffer
  <2> QED BY <2>1, Initially
<1>2. IInv /\ NoStrandedBuffer /\ [Next]_vars => IInv' /\ NoStrandedBuffer'
  BY Inductive, StrandsNothing
<1> QED BY <1>1, <1>2, PTL DEF Spec

\* Then a thread that knows of a pool's death finishes no interaction with a
\* buffer of that pool still parked.
THEOREM Discarded ==
  ASSUME "drop_panic" \notin Workload
  PROVE  Spec => []DiscardedOnNextInteraction
<1>1. Spec => []NoStrandedBuffer
  BY NothingStranded
<1>2. Init => IInv
  BY Initially
<1>3. IInv /\ [Next]_vars => IInv'
  BY Inductive
<1>4. IInv /\ NoStrandedBuffer => DiscardedOnNextInteraction
  <2> SUFFICES ASSUME IInv, NoStrandedBuffer, NEW t \in Threads, NEW p \in Pools,
                      At(t, "access"), bump[p] # 0, bump[p] <= view[t],
                      SlotOf(p) \in DOMAIN slots[t], slots[t][SlotOf(p)].buf # Nothing
               PROVE  FALSE
    BY DEF DiscardedOnNextInteraction
  <2>1. seen[t] = view[t] /\ ~At(t, "sweep")
    BY DEF IInv, ViewInv, At
  <2>2. seen[t] < bump[p]
    BY <2>1 DEF NoStrandedBuffer
  <2>3. seen[t] \in Nat /\ bump[p] \in Nat
    BY DEF IInv, TypeOK
  <2> QED BY <2>1, <2>2, <2>3
<1> QED BY <1>1, <1>2, <1>3, <1>4, PTL DEF Spec

-----------------------------------------------------------------------------
(* What the counters and the stock of LocalStatistics say of the registries. *)

\* The threads with a lease of p under way.
Leasing(p) == {t \in Threads : call[t].op = "get" /\ call[t].pool = p}

Occupied(t, p) == SlotOf(p) \in DOMAIN slots[t] /\ slots[t][SlotOf(p)].buf # Nothing

CountersType ==
  /\ leases \in [Pools -> Nat]
  /\ allocations \in [Pools -> Nat]
  /\ recycled \in [Pools -> Nat]

\* Every lease has been counted, and has come to one buffer at most.
LeaseInv ==
  \A p \in Pools : allocations[p] + recycled[p] + Cardinality(Leasing(p)) <= leases[p]

\* A return has its buffer in hand until it is parked.
ParkInv == \A t \in Threads : call[t].op = "park" => hand[t] # Nothing

\* A pool that is yet to come is in nobody's stock, and in no slot.
StockInv ==
  \A t \in Threads, p \in Pools :
    /\ p \in live => (p \in stock[t] <=> Occupied(t, p))
    /\ p >= nextId => p \notin stock[t] /\ ~Occupied(t, p)

\* How a call proceeds: it keeps its operation and its pool until it returns, it
\* leaves "init" by returning only, and leaves "access" by the step of its kind.
LEMMA CallProceeds ==
  ASSUME IInv, NEW t, NEW u, NEW p, NEW item, NEW e,
         Action(t, u, p, item, e), NEW v \in Threads
  PROVE  /\ ~IsReady(v) /\ ~IsReady(v)'
              => call'[v].op = call[v].op /\ call'[v].pool = call[v].pool
         /\ At(v, "init") /\ call'[v].pc # "init" => IsReady(v)'
         /\ At(v, "access") /\ call'[v].pc # "access"
              => v = t /\ (AccessGet(t) \/ AccessPark(t) \/ AccessIdleLen(t))
<1> USE DEF IsReady, At
<1>0. call \in [Threads -> Calls] /\ Ready.pc = "ready"
  BY CallsTyped DEF Ready
<1>1. CASE New
  BY <1>0, <1>1 DEF Calls, New
<1>2. CASE p \in Pools /\ WithReset(p)
  BY <1>0, <1>2 DEF Calls, WithReset
<1>3. CASE t \in Threads /\ p \in Pools /\ DropPool(t, p)
  BY <1>0, <1>3 DEF Calls, DropPool
<1>4. CASE t \in Threads /\ p \in Pools /\ Get(t, p)
  BY <1>0, <1>4 DEF Calls, Get, Enter
<1>5. CASE t \in Threads /\ p \in Pools /\ IdleLen(t, p)
  BY <1>0, <1>5 DEF Calls, IdleLen, Enter
<1>6. CASE t \in Threads /\ p \in Pools /\ Put(t, p)
  BY <1>0, <1>6 DEF Calls, Put, Enter
<1>7. CASE t \in Threads /\ item \in Items /\ DropGuard(t, item)
  BY <1>0, <1>7 DEF Calls, DropGuard, Enter
<1>8. CASE t \in Threads /\ item \in Items /\ IntoInner(t, item)
  BY <1>0, <1>8 DEF Calls, IntoInner
<1>9. CASE t \in Threads /\ u \in Threads /\ item \in Items /\ SendGuard(t, u, item)
  BY <1>0, <1>9 DEF Calls, SendGuard
<1>10. CASE t \in Threads /\ u \in Threads /\ Synchronize(t, u)
  BY <1>0, <1>10 DEF Calls, Synchronize
<1>11. CASE t \in Threads /\ u \in Threads /\ ThreadExit(t, u)
  BY <1>0, <1>11 DEF Calls, ThreadExit
<1>12. CASE t \in Threads /\ DropBump(t)
  BY <1>0, <1>12 DEF Calls, DropBump, Return
<1>13. CASE t \in Threads /\ Reset(t)
  BY <1>0, <1>13 DEF Calls, Reset, Go
<1>14. CASE t \in Threads /\ ResetPanics(t)
  BY <1>0, <1>14 DEF Calls, ResetPanics, Return
<1>15. CASE t \in Threads /\ e \in 0 .. epoch /\ LoadEpoch(t, e)
  BY <1>0, <1>15 DEF Calls, LoadEpoch, Go
<1>16. CASE t \in Threads /\ SweepSlot(t)
  BY <1>0, <1>16 DEF Calls, SweepSlot
<1>17. CASE t \in Threads /\ SweepPanics(t)
  BY <1>0, <1>17 DEF Calls, SweepPanics, Return
<1>18. CASE t \in Threads /\ SweepEnds(t)
  BY <1>0, <1>18 DEF Calls, SweepEnds, Go
<1>19. CASE t \in Threads /\ AccessGet(t)
  BY <1>0, <1>19 DEF Calls, AccessGet, Go, Return
<1>20. CASE t \in Threads /\ AccessPark(t)
  BY <1>0, <1>20 DEF Calls, AccessPark, Return
<1>21. CASE t \in Threads /\ AccessIdleLen(t)
  BY <1>0, <1>21 DEF Calls, AccessIdleLen, Return
<1>22. CASE t \in Threads /\ RunInit(t)
  BY <1>0, <1>22 DEF Calls, RunInit, Return
<1>23. CASE t \in Threads /\ InitPanics(t)
  BY <1>0, <1>23 DEF Calls, InitPanics, Return
<1> QED BY <1>1, <1>2, <1>3, <1>4, <1>5, <1>6, <1>7, <1>8, <1>9, <1>10, <1>11, <1>12, <1>13,
             <1>14, <1>15, <1>16, <1>17, <1>18, <1>19, <1>20, <1>21, <1>22, <1>23 DEF Action

\* Only a lease or a return that leaves "access" is seen to pass it.
LEMMA PassesByAccess ==
  ASSUME IInv, NEW t, NEW u, NEW p, NEW item, NEW e,
         Action(t, u, p, item, e), NEW v \in Threads, NEW q \in Pools
  PROVE  /\ Passes(v, "get", q, "access") => v = t /\ AccessGet(t)
         /\ Passes(v, "park", q, "access") => v = t /\ AccessPark(t)
  BY CallProceeds DEF Passes, At, AccessGet, AccessPark, AccessIdleLen

\* A step parks in a living pool only what a call has in hand.
LEMMA ParkStep ==
  ASSUME IInv, ParkInv, NEW t, NEW u, NEW p, NEW item, NEW e,
         Action(t, u, p, item, e)
  PROVE  ParkInv'
<1>0. call \in [Threads -> Calls] /\ hand \in [Threads -> Items \cup {Nothing}]
      /\ Ready.op = "none"
  BY CallsTyped DEF Ready, IInv, TypeOK
<1> USE DEF ParkInv, IsReady
<1>1. CASE New
  BY <1>0, <1>1 DEF Calls, New
<1>2. CASE p \in Pools /\ WithReset(p)
  BY <1>0, <1>2 DEF Calls, WithReset
<1>3. CASE t \in Threads /\ p \in Pools /\ DropPool(t, p)
  BY <1>0, <1>3 DEF Calls, DropPool
<1>4. CASE t \in Threads /\ p \in Pools /\ Get(t, p)
  BY <1>0, <1>4 DEF Calls, Get, Enter
<1>5. CASE t \in Threads /\ p \in Pools /\ IdleLen(t, p)
  BY <1>0, <1>5 DEF Calls, IdleLen, Enter
<1>6. CASE t \in Threads /\ p \in Pools /\ Put(t, p)
  BY <1>0, <1>6, NothingAssumption DEF Calls, Put, Enter, Items, Fresh
<1>7. CASE t \in Threads /\ item \in Items /\ DropGuard(t, item)
  BY <1>0, <1>7, NothingAssumption DEF Calls, DropGuard, Enter
<1>8. CASE t \in Threads /\ item \in Items /\ IntoInner(t, item)
  BY <1>0, <1>8 DEF Calls, IntoInner
<1>9. CASE t \in Threads /\ u \in Threads /\ item \in Items /\ SendGuard(t, u, item)
  BY <1>0, <1>9 DEF Calls, SendGuard
<1>10. CASE t \in Threads /\ u \in Threads /\ Synchronize(t, u)
  BY <1>0, <1>10 DEF Calls, Synchronize
<1>11. CASE t \in Threads /\ u \in Threads /\ ThreadExit(t, u)
  BY <1>0, <1>11 DEF Calls, ThreadExit
<1>12. CASE t \in Threads /\ DropBump(t)
  BY <1>0, <1>12 DEF Calls, DropBump, Return
<1>13. CASE t \in Threads /\ Reset(t)
  BY <1>0, <1>13 DEF Calls, Reset, Go
<1>14. CASE t \in Threads /\ ResetPanics(t)
  BY <1>0, <1>14 DEF Calls, ResetPanics, Return
<1>15. CASE t \in Threads /\ e \in 0 .. epoch /\ LoadEpoch(t, e)
  BY <1>0, <1>15 DEF Calls, LoadEpoch, Go
<1>16. CASE t \in Threads /\ SweepSlot(t)
  BY <1>0, <1>16 DEF Calls, SweepSlot
<1>17. CASE t \in Threads /\ SweepPanics(t)
  BY <1>0, <1>17 DEF Calls, SweepPanics, Return
<1>18. CASE t \in Threads /\ SweepEnds(t)
  BY <1>0, <1>18 DEF Calls, SweepEnds, Go
<1>19. CASE t \in Threads /\ AccessGet(t)
  BY <1>0, <1>19 DEF Calls, AccessGet, Go, Return
<1>20. CASE t \in Threads /\ AccessPark(t)
  BY <1>0, <1>20 DEF Calls, AccessPark, Return
<1>21. CASE t \in Threads /\ AccessIdleLen(t)
  BY <1>0, <1>21 DEF Calls, AccessIdleLen, Return
<1>22. CASE t \in Threads /\ RunInit(t)
  BY <1>0, <1>22 DEF Calls, RunInit, Return
<1>23. CASE t \in Threads /\ InitPanics(t)
  BY <1>0, <1>23 DEF Calls, InitPanics, Return
<1> QED BY <1>1, <1>2, <1>3, <1>4, <1>5, <1>6, <1>7, <1>8, <1>9, <1>10, <1>11, <1>12, <1>13,
             <1>14, <1>15, <1>16, <1>17, <1>18, <1>19, <1>20, <1>21, <1>22, <1>23 DEF Action

\* One sum: the threads done with their leases, those in one still, those that
\* have begun one.
LEMMA LeasesMoveOn ==
  ASSUME NEW I, NEW J, NEW H, NEW A, NEW S, IsFiniteSet(I), IsFiniteSet(S),
         H \subseteq I, A \subseteq I, H \cap A = {},
         J \subseteq (I \ (H \cup A)) \cup S
  PROVE  /\ Cardinality(H) \in Nat /\ Cardinality(A) \in Nat /\ Cardinality(J) \in Nat
         /\ Cardinality(I) \in Nat /\ Cardinality(S) \in Nat
         /\ Cardinality(H) + Cardinality(A) + Cardinality(J)
              <= Cardinality(I) + Cardinality(S)
<1> DEFINE M == H \cup A
           L == I \ M
<1>1. /\ IsFiniteSet(H) /\ IsFiniteSet(A) /\ IsFiniteSet(L) /\ IsFiniteSet(M)
      /\ IsFiniteSet(L \cup S) /\ Cardinality(L \cup S) <= Cardinality(L) + Cardinality(S)
  <2>1. IsFiniteSet(H) /\ IsFiniteSet(A) /\ IsFiniteSet(L) /\ IsFiniteSet(M)
    BY FS_Subset
  <2>2. /\ IsFiniteSet(L \cup S)
        /\ Cardinality(L \cup S) = Cardinality(L) + Cardinality(S) - Cardinality(L \cap S)
    BY <2>1, FS_Union
  <2>3. IsFiniteSet(L \cap S)
    BY <2>1, FS_Intersection
  <2> HIDE DEF L, M
  <2>4. Cardinality(L) \in Nat /\ Cardinality(S) \in Nat /\ Cardinality(L \cap S) \in Nat
    BY <2>1, <2>3, FS_CardinalityType
  <2> QED BY <2>1, <2>2, <2>4
<1>2. IsFiniteSet(J) /\ Cardinality(J) <= Cardinality(L \cup S)
  BY <1>1, FS_Subset
<1>3. Cardinality(M) = Cardinality(H) + Cardinality(A)
  <2>1. Cardinality(M) = Cardinality(H) + Cardinality(A) - Cardinality(H \cap A)
    BY <1>1, FS_Union
  <2>2. Cardinality(H \cap A) = 0
    BY FS_EmptySet
  <2> QED BY <1>1, <2>1, <2>2, FS_CardinalityType
<1>4. Cardinality(L) = Cardinality(I) - Cardinality(M)
  <2>1. I \cap M = M
    OBVIOUS
  <2> HIDE DEF M
  <2>2. Cardinality(I \ M) = Cardinality(I) - Cardinality(I \cap M)
    BY FS_Difference
  <2> QED BY <2>1, <2>2
<1> HIDE DEF L, M
<1>5. /\ Cardinality(H) \in Nat /\ Cardinality(A) \in Nat /\ Cardinality(J) \in Nat
      /\ Cardinality(I) \in Nat /\ Cardinality(S) \in Nat /\ Cardinality(L) \in Nat
      /\ Cardinality(L \cup S) \in Nat
  BY <1>1, <1>2, FS_CardinalityType
<1> QED BY <1>1, <1>2, <1>3, <1>4, <1>5

\* A step changes the counters and the leases under way together.
LEMMA LeaseStep ==
  ASSUME IInv, CountersType, LeaseInv, StatsNext
  PROVE  CountersType' /\ LeaseInv'
<1> USE DEF IsReady, At
<1>1. PICK t, u, p, item, e : Action(t, u, p, item, e)
  BY NextIsAction DEF StatsNext
<1>2. call \in [Threads -> Calls] /\ call' \in [Threads -> Calls]
      /\ Ready.op = "none" /\ Ready.pc = "ready"
  BY <1>1, CallsTyped, CallTypeStep DEF Ready
<1>3. \A q \in Pools :
        /\ Cardinality(Hits(q)) \in Nat /\ Cardinality(Allocates(q)) \in Nat
        /\ Cardinality(Leasing(q)') \in Nat /\ Cardinality(Leasing(q)) \in Nat
        /\ Cardinality(Starts(q)) \in Nat
        /\ Cardinality(Hits(q)) + Cardinality(Allocates(q)) + Cardinality(Leasing(q)')
             <= Cardinality(Leasing(q)) + Cardinality(Starts(q))
  <2> TAKE q \in Pools
  <2>1. /\ Hits(q) \subseteq Leasing(q) /\ Allocates(q) \subseteq Leasing(q)
        /\ Hits(q) \cap Allocates(q) = {}
    BY DEF Hits, Allocates, Leasing, Passes
  <2>2. Leasing(q)' \subseteq (Leasing(q) \ (Hits(q) \cup Allocates(q))) \cup Starts(q)
    <3> SUFFICES ASSUME NEW v \in Threads, call'[v].op = "get", call'[v].pool = q,
                        v \notin Starts(q)
                 PROVE  v \in Leasing(q) /\ v \notin Hits(q) /\ v \notin Allocates(q)
      BY DEF Leasing
    <3>1. ~IsReady(v) /\ ~IsReady(v)'
      BY <1>2 DEF Starts
    <3>2. v \in Leasing(q)
      BY <1>1, <3>1, CallProceeds DEF Leasing
    <3>3. v \notin Hits(q)
      BY <3>1 DEF Hits
    <3>4. v \notin Allocates(q)
      BY <1>1, <3>1, CallProceeds DEF Allocates, Passes
    <3> QED BY <3>2, <3>3, <3>4
  <2>3. IsFiniteSet(Leasing(q)) /\ IsFiniteSet(Starts(q))
    BY FiniteAssumption, FS_Subset DEF Leasing, Starts
  <2> DEFINE I == Leasing(q)
             J == Leasing(q)'
             H == Hits(q)
             A == Allocates(q)
             S == Starts(q)
  <2>4. /\ IsFiniteSet(I) /\ IsFiniteSet(S) /\ H \subseteq I /\ A \subseteq I
        /\ H \cap A = {} /\ J \subseteq (I \ (H \cup A)) \cup S
    BY <2>1, <2>2, <2>3
  <2> HIDE DEF I, J, H, A, S
  <2>5. /\ Cardinality(H) \in Nat /\ Cardinality(A) \in Nat /\ Cardinality(J) \in Nat
        /\ Cardinality(I) \in Nat /\ Cardinality(S) \in Nat
        /\ Cardinality(H) + Cardinality(A) + Cardinality(J)
             <= Cardinality(I) + Cardinality(S)
    BY <2>4, LeasesMoveOn
  <2> QED BY <2>5 DEF I, J, H, A, S
<1>4. /\ leases' = [q \in Pools |-> leases[q] + Cardinality(Starts(q))]
      /\ allocations' = [q \in Pools |-> allocations[q] + Cardinality(Allocates(q))]
      /\ recycled' = [q \in Pools |-> recycled[q] + Cardinality(Hits(q))]
  BY DEF StatsNext
<1>5. CountersType'
  BY <1>3, <1>4 DEF CountersType
<1>6. LeaseInv'
  <2> SUFFICES ASSUME NEW q \in Pools
               PROVE  allocations'[q] + recycled'[q] + Cardinality(Leasing(q)') <= leases'[q]
    BY DEF LeaseInv
  <2>1. /\ leases'[q] = leases[q] + Cardinality(Starts(q))
        /\ allocations'[q] = allocations[q] + Cardinality(Allocates(q))
        /\ recycled'[q] = recycled[q] + Cardinality(Hits(q))
    BY <1>4
  <2>2. leases[q] \in Nat /\ allocations[q] \in Nat /\ recycled[q] \in Nat
        /\ allocations[q] + recycled[q] + Cardinality(Leasing(q)) <= leases[q]
    BY DEF CountersType, LeaseInv
  <2> QED BY <1>3, <2>1, <2>2
<1> QED BY <1>5, <1>6

\* A step that leaves every registry alone leaves every stock alone, unless it is
\* an access.
LEMMA QuietStock ==
  ASSUME IInv, StockInv, stock' = [v \in Threads |-> Stock(v)],
         UNCHANGED slots, nextId <= nextId', nextId' \in Nat,
         \A q \in live' : q \in live \/ q >= nextId,
         \A v \in Threads, q \in Pools :
           ~Passes(v, "get", q, "access") /\ ~Passes(v, "park", q, "access")
  PROVE  StockInv'
<1>1. \A v \in Threads : stock'[v] = stock[v]
  <2> SUFFICES ASSUME NEW v \in Threads
               PROVE  Stock(v) = stock[v]
    OBVIOUS
  <2>1. ~(Len(slots'[v]) < Len(slots[v]))
    BY LenType DEF IInv, TypeOK
  <2>2. {q \in Pools : v \in Hits(q)} = {} /\ {q \in Pools : Passes(v, "park", q, "access")} = {}
    BY DEF Hits
  <2> QED BY <2>1, <2>2 DEF Stock
<1>2. \A v \in Threads, q \in Pools : Occupied(v, q)' = Occupied(v, q)
  BY DEF Occupied
<1>3. \A q \in Pools : q >= nextId' => q >= nextId
  BY DEF Pools, IInv, TypeOK
<1> QED BY <1>1, <1>2, <1>3 DEF StockInv

\* A sweep empties no slot of a living pool, and fills none.
LEMMA SweptStock ==
  ASSUME IInv, StockInv, stock' = [v \in Threads |-> Stock(v)],
         NEW t \in Threads, SweepSlot(t) \/ SweepPanics(t),
         UNCHANGED <<nextId, live>>,
         \A v \in Threads, q \in Pools :
           ~Passes(v, "get", q, "access") /\ ~Passes(v, "park", q, "access")
  PROVE  StockInv'
<1>1. \A v \in Threads : DOMAIN slots'[v] = DOMAIN slots[v] /\ Len(slots'[v]) = Len(slots[v])
  <2>1. CASE slots' = slots
    BY <2>1
  <2>2. CASE slots' # slots
    <3>1. /\ slots' = [slots EXCEPT ![t] = slots'[t]]
          /\ slots'[t] \in Seq(Slot) /\ Len(slots'[t]) = Len(slots[t])
      BY <2>2, SlotSwept
    <3>2. DOMAIN slots'[t] = DOMAIN slots[t]
      BY <3>1, SlotSequence DEF IInv, TypeOK
    <3> QED BY <3>1, <3>2 DEF IInv, TypeOK
  <2> QED BY <2>1, <2>2
<1>2. \A v \in Threads : stock'[v] = stock[v]
  <2> SUFFICES ASSUME NEW v \in Threads
               PROVE  Stock(v) = stock[v]
    OBVIOUS
  <2>1. ~(Len(slots'[v]) < Len(slots[v]))
    BY <1>1, LenType DEF IInv, TypeOK
  <2>2. {q \in Pools : v \in Hits(q)} = {} /\ {q \in Pools : Passes(v, "park", q, "access")} = {}
    BY DEF Hits
  <2> QED BY <2>1, <2>2 DEF Stock
<1>3. \A v \in Threads, q \in Pools : Occupied(v, q)' => Occupied(v, q)
  BY <1>1, SlotsKeep DEF Occupied
<1>4. \A v \in Threads, q \in live : Occupied(v, q) => Occupied(v, q)'
  <2> SUFFICES ASSUME NEW v \in Threads, NEW q \in live, Occupied(v, q), slots' # slots
               PROVE  Occupied(v, q)'
    BY DEF Occupied
  <2> DEFINE i == SlotOf(call[t].at)
  <2>1. /\ slots' = [slots EXCEPT ![t] = slots'[t]]
        /\ i \in DOMAIN slots[t] /\ slots[t][i].buf # Nothing
        /\ FALSE \in FlagReads(t, slots[t][i].live)
        /\ \A j \in DOMAIN slots[t] : j # i => slots'[t][j] = slots[t][j]
    BY SlotSwept
  <2>2. q \in Pools /\ FlagReads(t, q) = {TRUE}
    BY DEF IInv, TypeOK, FlagReads
  <2>3. SlotOf(q) = i => slots[t][i].live = q
    <3> HIDE DEF i
    <3> QED BY <2>1, <2>2 DEF IInv, SlotsMatchPools
  <2>4. SlotOf(q) # i
    BY <2>1, <2>2, <2>3
  <2> HIDE DEF i
  <2> QED BY <1>1, <2>1, <2>4 DEF Occupied, IInv, TypeOK
<1> QED BY <1>2, <1>3, <1>4 DEF StockInv, IInv, TypeOK

\* An access changes one registry, in one slot of consequence.
LEMMA AccessElsewhere ==
  ASSUME IInv, NEW t \in Threads, AccessGet(t) \/ AccessPark(t),
         NEW p, p = call[t].pool
  PROVE  /\ p \in live /\ p \in Pools /\ p < nextId
         /\ \A v \in Threads : ~(Len(slots'[v]) < Len(slots[v]))
         /\ \A v \in Threads, q \in Pools :
              v # t \/ q # p => Occupied(v, q)' = Occupied(v, q)
         /\ Occupied(t, p)' = (slots'[t][SlotOf(p)].buf # Nothing)
<1>1. p \in live /\ p \in Pools /\ p < nextId
  BY DEF AccessGet, AccessPark, IInv, CallInv, DeathInv, TypeOK
<1>2. /\ slots' = [slots EXCEPT ![t] = slots'[t]] /\ slots'[t] \in Seq(Slot)
      /\ SlotOf(p) \in DOMAIN slots'[t]
      /\ \A j \in DOMAIN slots'[t] : j # SlotOf(p) =>
           (j \in DOMAIN slots[t] /\ slots'[t][j] = slots[t][j]) \/ slots'[t][j].buf = Nothing
      /\ Len(slots[t]) <= Len(slots'[t])
      /\ \A j \in DOMAIN slots[t] :
           j \in DOMAIN slots'[t] /\ (j # SlotOf(p) => slots'[t][j] = slots[t][j])
  BY SlotAccessed
<1>3. \A v \in Threads : v # t => slots'[v] = slots[v]
  BY <1>2 DEF IInv, TypeOK
<1>4. \A v \in Threads : ~(Len(slots'[v]) < Len(slots[v]))
  <2>1. ~(Len(slots'[t]) < Len(slots[t]))
    BY <1>2, LenType, SlotSequence DEF IInv, TypeOK
  <2>2. \A v \in Threads : ~(Len(slots[v]) < Len(slots[v]))
    BY LenType DEF IInv, TypeOK
  <2> QED BY <1>3, <2>1, <2>2
<1>5. \A q \in Pools : q # p => SlotOf(q) # SlotOf(p)
  BY <1>1 DEF SlotOf, Pools
<1>6. \A q \in Pools : q # p => Occupied(t, q)' = Occupied(t, q)
  BY <1>2, <1>5 DEF Occupied
<1>7. \A v \in Threads, q \in Pools : v # t => Occupied(v, q)' = Occupied(v, q)
  BY <1>3 DEF Occupied
<1>8. Occupied(t, p)' = (slots'[t][SlotOf(p)].buf # Nothing)
  BY <1>2 DEF Occupied
<1> QED BY <1>1, <1>4, <1>6, <1>7, <1>8

\* A lease that is served takes its pool out of the stock; one that is not found
\* the slot empty.
LEMMA LeaseStock ==
  ASSUME IInv, StockInv, stock' = [v \in Threads |-> Stock(v)],
         NEW t \in Threads, AccessGet(t), NEW p, p = call[t].pool
  PROVE  StockInv'
<1> DEFINE reg == SlotFor(slots[t], p)
<1>1. /\ p \in live /\ p \in Pools /\ p < nextId
      /\ \A v \in Threads : ~(Len(slots'[v]) < Len(slots[v]))
      /\ \A v \in Threads, q \in Pools :
           v # t \/ q # p => Occupied(v, q)' = Occupied(v, q)
      /\ Occupied(t, p)' = (slots'[t][SlotOf(p)].buf # Nothing)
  BY AccessElsewhere
<1>2. At(t, "access") /\ call[t].op = "get" /\ UNCHANGED <<nextId, live>>
  BY DEF AccessGet
<1>3. ~Occupied(t, p)'
  BY <1>1, <1>2, SlotAccessed
<1>4. \/ reg[SlotOf(p)].buf = Nothing /\ call' = [call EXCEPT ![t].pc = "init"]
      \/ call' = [call EXCEPT ![t] = Ready]
  BY DEF AccessGet, Go, Return
<1>5. reg[SlotOf(p)].buf = Nothing => ~Occupied(t, p)
  <2>1. slots[t] \in Seq(Slot) /\ Len(slots[t]) <= MaxPools
    BY DEF IInv, TypeOK, SlotInv
  <2>2. \A j \in DOMAIN slots[t] : reg[j].buf = slots[t][j].buf
    BY <1>1, <2>1, SlotForType
  <2> QED BY <2>2 DEF Occupied
<1> HIDE DEF reg
<1>6. call \in [Threads -> Calls] /\ p = call[t].pool /\ Ready.pc = "ready"
  BY CallsTyped DEF Ready
<1>7. \A v \in Threads, q \in Pools :
        /\ ~Passes(v, "park", q, "access")
        /\ v \in Hits(q) => v = t /\ q = p
  BY <1>2, <1>4, <1>6 DEF Passes, Hits
<1>8. call' = [call EXCEPT ![t] = Ready] => t \in Hits(p)
  BY <1>1, <1>2, <1>6 DEF Passes, Hits, IsReady, At
<1>9. \A v \in Threads : stock'[v] = stock[v] \ {q \in Pools : v \in Hits(q)}
  <2> SUFFICES ASSUME NEW v \in Threads
               PROVE  Stock(v) = stock[v] \ {q \in Pools : v \in Hits(q)}
    OBVIOUS
  <2>1. {q \in Pools : Passes(v, "park", q, "access")} = {}
    BY <1>7
  <2> QED BY <1>1, <2>1 DEF Stock
<1>10. \A v \in Threads, q \in Pools : v # t \/ q # p => (q \in stock'[v] <=> q \in stock[v])
  BY <1>7, <1>9
<1>11. p \notin stock'[t]
  <2>1. p \in stock[t] => Occupied(t, p)
    BY <1>1 DEF StockInv
  <2>2. p \in stock[t] => t \in Hits(p)
    BY <2>1, <1>4, <1>5, <1>8
  <2> QED BY <1>1, <1>9, <2>2
<1>12. ~(p >= nextId)
  BY <1>1 DEF IInv, TypeOK, Pools
<1> QED BY <1>1, <1>2, <1>3, <1>10, <1>11, <1>12 DEF StockInv

\* A return puts its pool in stock.
LEMMA ReturnStock ==
  ASSUME IInv, ParkInv, StockInv, stock' = [v \in Threads |-> Stock(v)],
         NEW t \in Threads, AccessPark(t), NEW p, p = call[t].pool
  PROVE  StockInv'
<1>1. /\ p \in live /\ p \in Pools /\ p < nextId
      /\ \A v \in Threads : ~(Len(slots'[v]) < Len(slots[v]))
      /\ \A v \in Threads, q \in Pools :
           v # t \/ q # p => Occupied(v, q)' = Occupied(v, q)
      /\ Occupied(t, p)' = (slots'[t][SlotOf(p)].buf # Nothing)
  BY AccessElsewhere
<1>2. /\ At(t, "access") /\ call[t].op = "park" /\ UNCHANGED <<nextId, live>>
      /\ call' = [call EXCEPT ![t] = Ready]
  BY DEF AccessPark, Return
<1>3. Occupied(t, p)'
  BY <1>1, <1>2, SlotAccessed DEF ParkInv
<1>4. call \in [Threads -> Calls] /\ p = call[t].pool /\ Ready.pc = "ready"
  BY CallsTyped DEF Ready
<1>5. \A v \in Threads, q \in Pools :
        /\ v \notin Hits(q)
        /\ Passes(v, "park", q, "access") <=> v = t /\ q = p
  BY <1>2, <1>4 DEF Passes, Hits, At
<1>6. \A v \in Threads :
        stock'[v] = stock[v] \cup {q \in Pools : Passes(v, "park", q, "access")}
  <2> SUFFICES ASSUME NEW v \in Threads
               PROVE  Stock(v) = stock[v] \cup {q \in Pools : Passes(v, "park", q, "access")}
    OBVIOUS
  <2>1. {q \in Pools : v \in Hits(q)} = {}
    BY <1>5
  <2> QED BY <1>1, <2>1 DEF Stock
<1>7. \A v \in Threads, q \in Pools : v # t \/ q # p => (q \in stock'[v] <=> q \in stock[v])
  BY <1>5, <1>6
<1>8. p \in stock'[t] /\ ~(p >= nextId)
  BY <1>1, <1>5, <1>6 DEF IInv, TypeOK, Pools
<1> QED BY <1>1, <1>2, <1>3, <1>7, <1>8 DEF StockInv

\* The stock follows the slots of the living pools.
LEMMA StockStep ==
  ASSUME IInv, ParkInv, StockInv, stock' = [v \in Threads |-> Stock(v)],
         NEW t, NEW u, NEW p, NEW item, NEW e, Action(t, u, p, item, e)
  PROVE  StockInv'
<1>0. /\ nextId \in Nat /\ \A q \in Pools : q >= nextId => q \notin live
      /\ live \subseteq Pools /\ \A v \in Threads : ~(Len(slots[v]) < Len(slots[v]))
  BY LenType DEF IInv, TypeOK, DeathInv, Pools
<1>1. CASE New
  <2>1. \A v \in Threads, q \in Pools :
          ~Passes(v, "get", q, "access") /\ ~Passes(v, "park", q, "access")
    BY <1>1 DEF New, Passes
  <2> QED BY <1>0, <1>1, <2>1, QuietStock DEF New
<1>2. CASE p \in Pools /\ WithReset(p)
  <2>1. \A v \in Threads, q \in Pools :
          ~Passes(v, "get", q, "access") /\ ~Passes(v, "park", q, "access")
    BY <1>2 DEF WithReset, Passes
  <2> QED BY <1>0, <1>2, <2>1, QuietStock DEF WithReset
<1>3. CASE t \in Threads /\ p \in Pools /\ DropPool(t, p)
  <2>1. ~AccessGet(t) /\ ~AccessPark(t)
    BY <1>3 DEF DropPool, AccessGet, AccessPark, At, IsReady, Ready
  <2>2. \A v \in Threads, q \in Pools :
          ~Passes(v, "get", q, "access") /\ ~Passes(v, "park", q, "access")
    BY <2>1, PassesByAccess
  <2> QED BY <1>0, <1>3, <2>2, QuietStock DEF DropPool
<1>4. CASE t \in Threads /\ p \in Pools /\ Get(t, p)
  <2>1. ~AccessGet(t) /\ ~AccessPark(t)
    BY <1>4 DEF Get, Enter, AccessGet, AccessPark, At, IsReady, Ready
  <2>2. \A v \in Threads, q \in Pools :
          ~Passes(v, "get", q, "access") /\ ~Passes(v, "park", q, "access")
    BY <2>1, PassesByAccess
  <2> QED BY <1>0, <1>4, <2>2, QuietStock DEF Get
<1>5. CASE t \in Threads /\ p \in Pools /\ IdleLen(t, p)
  <2>1. ~AccessGet(t) /\ ~AccessPark(t)
    BY <1>5 DEF IdleLen, Enter, AccessGet, AccessPark, At, IsReady, Ready
  <2>2. \A v \in Threads, q \in Pools :
          ~Passes(v, "get", q, "access") /\ ~Passes(v, "park", q, "access")
    BY <2>1, PassesByAccess
  <2> QED BY <1>0, <1>5, <2>2, QuietStock DEF IdleLen
<1>6. CASE t \in Threads /\ p \in Pools /\ Put(t, p)
  <2>1. ~AccessGet(t) /\ ~AccessPark(t)
    BY <1>6 DEF Put, Enter, AccessGet, AccessPark, At, IsReady, Ready
  <2>2. \A v \in Threads, q \in Pools :
          ~Passes(v, "get", q, "access") /\ ~Passes(v, "park", q, "access")
    BY <2>1, PassesByAccess
  <2> QED BY <1>0, <1>6, <2>2, QuietStock DEF Put
<1>7. CASE t \in Threads /\ item \in Items /\ DropGuard(t, item)
  <2>1. ~AccessGet(t) /\ ~AccessPark(t)
    BY <1>7 DEF DropGuard, Enter, AccessGet, AccessPark, At, IsReady, Ready
  <2>2. \A v \in Threads, q \in Pools :
          ~Passes(v, "get", q, "access") /\ ~Passes(v, "park", q, "access")
    BY <2>1, PassesByAccess
  <2> QED BY <1>0, <1>7, <2>2, QuietStock DEF DropGuard
<1>8. CASE t \in Threads /\ item \in Items /\ IntoInner(t, item)
  <2>1. \A v \in Threads, q \in Pools :
          ~Passes(v, "get", q, "access") /\ ~Passes(v, "park", q, "access")
    BY <1>8 DEF IntoInner, Passes
  <2> QED BY <1>0, <1>8, <2>1, QuietStock DEF IntoInner
<1>9. CASE t \in Threads /\ u \in Threads /\ item \in Items /\ SendGuard(t, u, item)
  <2>1. \A v \in Threads, q \in Pools :
          ~Passes(v, "get", q, "access") /\ ~Passes(v, "park", q, "access")
    BY <1>9 DEF SendGuard, Passes
  <2> QED BY <1>0, <1>9, <2>1, QuietStock DEF SendGuard
<1>10. CASE t \in Threads /\ u \in Threads /\ Synchronize(t, u)
  <2>1. \A v \in Threads, q \in Pools :
          ~Passes(v, "get", q, "access") /\ ~Passes(v, "park", q, "access")
    BY <1>10 DEF Synchronize, Passes
  <2> QED BY <1>0, <1>10, <2>1, QuietStock DEF Synchronize
<1>11. CASE t \in Threads /\ u \in Threads /\ ThreadExit(t, u)
  <2>1. /\ UNCHANGED <<nextId, live, call>>
        /\ slots'[t] = <<>> /\ \A v \in Threads : v # t => slots'[v] = slots[v]
    BY <1>11 DEF ThreadExit, IInv, TypeOK
  <2>2. \A v \in Threads, q \in Pools :
          ~Passes(v, "get", q, "access") /\ ~Passes(v, "park", q, "access")
    BY <2>1 DEF Passes
  <2>3. \A v \in Threads : stock'[v] = IF Len(slots'[v]) < Len(slots[v]) THEN {} ELSE stock[v]
    BY <2>2 DEF Stock, Hits
  <2>4. \A v \in Threads : v # t => stock'[v] = stock[v]
    BY <1>0, <2>1, <2>3
  <2>5. \A q \in Pools : ~Occupied(t, q)'
    BY <2>1 DEF Occupied
  <2>6. \A q \in Pools : q \in live \/ q >= nextId => q \notin stock'[t]
    <3>1. CASE Len(slots[t]) = 0
      <4>1. \A q \in Pools : ~Occupied(t, q)
        <5>1. DOMAIN slots[t] = {}
          BY <1>11, <3>1, LenType DEF IInv, TypeOK
        <5> QED BY <5>1 DEF Occupied
      <4> QED BY <1>11, <4>1, <2>3 DEF StockInv
    <3>2. CASE Len(slots[t]) # 0
      <4>1. Len(slots'[t]) < Len(slots[t])
        BY <1>11, <2>1, <3>2, LenType DEF IInv, TypeOK
      <4> QED BY <1>11, <4>1, <2>3
    <3> QED BY <3>1, <3>2
  <2>7. \A v \in Threads, q \in Pools : v # t => Occupied(v, q)' = Occupied(v, q)
    BY <2>1 DEF Occupied
  <2> QED BY <2>1, <2>4, <2>5, <2>6, <2>7 DEF StockInv
<1>12. CASE t \in Threads /\ DropBump(t)
  <2>1. ~AccessGet(t) /\ ~AccessPark(t)
    BY <1>12 DEF DropBump, AccessGet, AccessPark, At
  <2>2. \A v \in Threads, q \in Pools :
          ~Passes(v, "get", q, "access") /\ ~Passes(v, "park", q, "access")
    BY <2>1, PassesByAccess
  <2> QED BY <1>0, <1>12, <2>2, QuietStock DEF DropBump
<1>13. CASE t \in Threads /\ Reset(t)
  <2>1. ~AccessGet(t) /\ ~AccessPark(t)
    BY <1>13 DEF Reset, AccessGet, AccessPark, At
  <2>2. \A v \in Threads, q \in Pools :
          ~Passes(v, "get", q, "access") /\ ~Passes(v, "park", q, "access")
    BY <2>1, PassesByAccess
  <2> QED BY <1>0, <1>13, <2>2, QuietStock DEF Reset
<1>14. CASE t \in Threads /\ ResetPanics(t)
  <2>1. ~AccessGet(t) /\ ~AccessPark(t)
    BY <1>14 DEF ResetPanics, AccessGet, AccessPark, At
  <2>2. \A v \in Threads, q \in Pools :
          ~Passes(v, "get", q, "access") /\ ~Passes(v, "park", q, "access")
    BY <2>1, PassesByAccess
  <2> QED BY <1>0, <1>14, <2>2, QuietStock DEF ResetPanics
<1>15. CASE t \in Threads /\ e \in 0 .. epoch /\ LoadEpoch(t, e)
  <2>1. ~AccessGet(t) /\ ~AccessPark(t)
    BY <1>15 DEF LoadEpoch, AccessGet, AccessPark, At
  <2>2. \A v \in Threads, q \in Pools :
          ~Passes(v, "get", q, "access") /\ ~Passes(v, "park", q, "access")
    BY <2>1, PassesByAccess
  <2> QED BY <1>0, <1>15, <2>2, QuietStock DEF LoadEpoch
<1>16. CASE t \in Threads /\ SweepSlot(t)
  <2>1. ~AccessGet(t) /\ ~AccessPark(t)
    BY <1>16 DEF SweepSlot, AccessGet, AccessPark, At
  <2>2. \A v \in Threads, q \in Pools :
          ~Passes(v, "get", q, "access") /\ ~Passes(v, "park", q, "access")
    BY <2>1, PassesByAccess
  <2>3. UNCHANGED <<nextId, live>>
    BY <1>16 DEF SweepSlot
  <2> QED BY <1>16, <2>2, <2>3, SweptStock
<1>17. CASE t \in Threads /\ SweepPanics(t)
  <2>1. ~AccessGet(t) /\ ~AccessPark(t)
    BY <1>17 DEF SweepPanics, AccessGet, AccessPark, At
  <2>2. \A v \in Threads, q \in Pools :
          ~Passes(v, "get", q, "access") /\ ~Passes(v, "park", q, "access")
    BY <2>1, PassesByAccess
  <2>3. UNCHANGED <<nextId, live>>
    BY <1>17 DEF SweepPanics
  <2> QED BY <1>17, <2>2, <2>3, SweptStock
<1>18. CASE t \in Threads /\ SweepEnds(t)
  <2>1. ~AccessGet(t) /\ ~AccessPark(t)
    BY <1>18 DEF SweepEnds, AccessGet, AccessPark, At
  <2>2. \A v \in Threads, q \in Pools :
          ~Passes(v, "get", q, "access") /\ ~Passes(v, "park", q, "access")
    BY <2>1, PassesByAccess
  <2> QED BY <1>0, <1>18, <2>2, QuietStock DEF SweepEnds
<1>19. CASE t \in Threads /\ AccessGet(t)
  BY <1>19, LeaseStock
<1>20. CASE t \in Threads /\ AccessPark(t)
  BY <1>20, ReturnStock
<1>21. CASE t \in Threads /\ AccessIdleLen(t)
  <2>1. ~AccessGet(t) /\ ~AccessPark(t)
    BY <1>21 DEF AccessIdleLen, AccessGet, AccessPark, At
  <2>2. \A v \in Threads, q \in Pools :
          ~Passes(v, "get", q, "access") /\ ~Passes(v, "park", q, "access")
    BY <2>1, PassesByAccess
  <2> QED BY <1>0, <1>21, <2>2, QuietStock DEF AccessIdleLen
<1>22. CASE t \in Threads /\ RunInit(t)
  <2>1. ~AccessGet(t) /\ ~AccessPark(t)
    BY <1>22 DEF RunInit, AccessGet, AccessPark, At
  <2>2. \A v \in Threads, q \in Pools :
          ~Passes(v, "get", q, "access") /\ ~Passes(v, "park", q, "access")
    BY <2>1, PassesByAccess
  <2> QED BY <1>0, <1>22, <2>2, QuietStock DEF RunInit
<1>23. CASE t \in Threads /\ InitPanics(t)
  <2>1. ~AccessGet(t) /\ ~AccessPark(t)
    BY <1>23 DEF InitPanics, AccessGet, AccessPark, At
  <2>2. \A v \in Threads, q \in Pools :
          ~Passes(v, "get", q, "access") /\ ~Passes(v, "park", q, "access")
    BY <2>1, PassesByAccess
  <2> QED BY <1>0, <1>23, <2>2, QuietStock DEF InitPanics
<1> QED BY <1>1, <1>2, <1>3, <1>4, <1>5, <1>6, <1>7, <1>8, <1>9, <1>10, <1>11, <1>12, <1>13,
             <1>14, <1>15, <1>16, <1>17, <1>18, <1>19, <1>20, <1>21, <1>22, <1>23 DEF Action

\* The counters and the stock only watch.
LEMMA StatsWatch == StatsSpec => Spec
<1>1. StatsInit => Init
  BY DEF StatsInit
<1>2. [StatsNext]_<<vars, counters, history>> => [Next]_vars
  BY DEF StatsNext
<1> QED BY <1>1, <1>2, PTL DEF StatsSpec, Spec

\* While a pool lives, what a thread parked for it stays in the thread's slot until
\* the thread's own next lease: no sweep, no growth of the registry and no unwinding
\* call takes it (local.rs, ThreadLocalPool: "recycles it"; idle_len).
THEOREM StockIsKept == StatsSpec => []StockIsParked
<1> DEFINE Inv == IInv /\ ParkInv /\ StockInv
<1>1. StatsInit => Inv
  <2> SUFFICES ASSUME StatsInit
               PROVE  Inv
    OBVIOUS
  <2>1. Init /\ \A t \in Threads : slots[t] = <<>> /\ stock[t] = {} /\ call[t].op = "none"
    BY DEF StatsInit, Init, Ready
  <2> QED BY <2>1, Initially DEF ParkInv, StockInv, Occupied
<1>2. Inv /\ [StatsNext]_<<vars, counters, history>> => Inv'
  <2> SUFFICES ASSUME Inv, [StatsNext]_<<vars, counters, history>>
               PROVE  Inv'
    OBVIOUS
  <2>1. CASE UNCHANGED <<vars, counters, history>>
    <3>1. UNCHANGED vars /\ UNCHANGED <<slots, live, nextId, call, hand, stock>>
      BY <2>1 DEF vars, history
    <3>2. IInv'
      BY <3>1, Inductive
    <3> QED BY <3>1, <3>2 DEF ParkInv, StockInv, Occupied
  <2>2. CASE StatsNext
    <3>1. PICK t, u, p, item, e : Action(t, u, p, item, e)
      BY <2>2, NextIsAction DEF StatsNext
    <3>2. stock' = [v \in Threads |-> Stock(v)] /\ Next
      BY <2>2 DEF StatsNext
    <3> QED BY <3>1, <3>2, Inductive, ParkStep, StockStep
  <2> QED BY <2>1, <2>2
<1>3. Inv => StockIsParked
  BY DEF IInv, TypeOK, StockInv, Occupied, StockIsParked
<1> QED BY <1>1, <1>2, <1>3, PTL DEF StatsSpec

\* The leases counted always cover what was allocated and what was recycled, whatever
\* unwinds: the subtraction in PoolStats::reuses does not go below zero at rest.
THEOREM LeasesCover == StatsSpec => []LeasesCoverBuffers
<1> DEFINE Inv == IInv /\ CountersType /\ LeaseInv
<1>1. StatsInit => Inv
  <2> SUFFICES ASSUME StatsInit
               PROVE  Inv
    OBVIOUS
  <2>1. \A p \in Pools : Leasing(p) = {}
    BY DEF StatsInit, Init, Ready, Leasing
  <2>2. Cardinality({}) = 0
    BY FS_EmptySet
  <2> QED BY <2>1, <2>2, Initially DEF StatsInit, CountersType, LeaseInv
<1>2. Inv /\ [StatsNext]_<<vars, counters, history>> => Inv'
  <2> SUFFICES ASSUME Inv, [StatsNext]_<<vars, counters, history>>
               PROVE  Inv'
    OBVIOUS
  <2>1. CASE UNCHANGED <<vars, counters, history>>
    <3>1. UNCHANGED vars /\ UNCHANGED <<call, leases, allocations, recycled>>
      BY <2>1 DEF vars, history, counters
    <3>2. IInv'
      BY <3>1, Inductive
    <3> QED BY <3>1, <3>2 DEF CountersType, LeaseInv, Leasing
  <2>2. CASE StatsNext
    BY <2>2, Inductive, LeaseStep DEF StatsNext
  <2> QED BY <2>1, <2>2
<1>3. Inv => LeasesCoverBuffers
  <2> SUFFICES ASSUME Inv, NEW p \in Pools
               PROVE  allocations[p] + recycled[p] <= leases[p]
    BY DEF LeasesCoverBuffers
  <2>1. Cardinality(Leasing(p)) \in Nat
    BY FiniteAssumption, FS_Subset, FS_CardinalityType DEF Leasing
  <2> QED BY <2>1 DEF CountersType, LeaseInv
<1> QED BY <1>1, <1>2, <1>3, PTL DEF StatsSpec

=============================================================================

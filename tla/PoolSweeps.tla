------------------------------ MODULE PoolSweeps ------------------------------
(****************************************************************************)
(* The two operations of BufferPool that visit every pile, one lock at a    *)
(* time, while other threads lease and return: drain and idle_len.          *)
(*                                                                          *)
(* drain's steps are BufferPool's; this module adds the history that says   *)
(* what a drain owes its caller. idle_len is added here as an observer: a   *)
(* thread that holds nothing and counts.                                    *)
(****************************************************************************)
EXTENDS BufferPool

VARIABLES
  owed,     \* history: what was parked when each drain began, less what others
            \* took since
  ahead,    \* history: which of these lay in front of which
  next,     \* the pile idle_len counts next; Finished when it has returned
  sum,      \* what it has counted so far
  stayed,   \* history: buffers parked all along since the count began
  steady    \* history: no pile changed since the count began

sweepVars == <<owed, ahead, next, sum, stayed, steady>>

Finished == NumShards + 1

SweepInit ==
  /\ Init
  /\ owed = [t \in Threads |-> {}]
  /\ ahead = [t \in Threads |-> {}]
  /\ next = Finished
  /\ sum = 0
  /\ stayed = {}
  /\ steady = FALSE

\* Buffer b lies in front of c: "pile by pile", then in "parking order".
InFront(b, c) ==
  \E p, q \in Piles : \E i \in DOMAIN pile[p], j \in DOMAIN pile[q] :
    /\ pile[p][i] = b /\ pile[q][j] = c
    /\ p < q \/ (p = q /\ i < j)

\* The buffers that a lease or another drain has taken from thread t's drain.
TakenFrom(t) == InHand \cup UNION {Range(haul[u]) : u \in Threads \ {t}}

Draining(t) == pc[t] \in {"drain", "settle"}

\* What thread t's drain owes after a step that begins it, goes on, or ends it.
Owed(t) ==
  IF ~Draining(t)' THEN {}
  ELSE IF ~Draining(t) THEN Parked
  ELSE owed[t] \ TakenFrom(t)'

Ahead(t) ==
  {x \in Owed(t) \X Owed(t) :
     IF Draining(t) THEN x \in ahead[t] ELSE InFront(x[1], x[2])}

\* A step of the pool seen by the sweeps under way.
PoolStep ==
  /\ Next
  /\ owed' = [t \in Threads |-> Owed(t)]
  /\ ahead' = [t \in Threads |-> Ahead(t)]
  /\ stayed' = stayed \cap Parked'
  /\ steady' = (steady /\ pile' = pile)
  /\ UNCHANGED <<next, sum>>

-----------------------------------------------------------------------------
(* idle_len.                                                                *)

IdleLen ==
  /\ next = Finished
  /\ next' = 0
  /\ sum' = 0
  /\ stayed' = Parked
  /\ steady' = TRUE
  /\ UNCHANGED <<vars, owed, ahead>>

\* Faulty CountPile: the reserve is left out of the count.
CountShardsOnly ==
  /\ next # Finished
  /\ sum' = sum + IF next = Reserve THEN 0 ELSE Len(pile[next])
  /\ next' = next + 1
  /\ UNCHANGED <<vars, owed, ahead, stayed, steady>>

\* One round of count_idle: the length of one pile, under its lock.
CountPile ==
  /\ next # Finished
  /\ sum' = sum + Len(pile[next])
  /\ next' = next + 1
  /\ UNCHANGED <<vars, owed, ahead, stayed, steady>>

SweepNext == PoolStep \/ IdleLen \/ CountPile

SweepSpec == SweepInit /\ [][SweepNext]_<<vars, sweepVars>>

-----------------------------------------------------------------------------
(* Correctness.                                                             *)

\* A drain returns every buffer that was parked when it began and that no lease
\* or other drain took first, "pile by pile", "parking order within a pile",
\* although others push to and pop from the same piles meanwhile (buffer.rs, drain).
DrainComplete ==
  \A t \in Threads :
    pc[t] = "settle" =>
      /\ owed[t] \subseteq Range(haul[t])
      /\ \A i, j \in DOMAIN haul[t] :
           <<haul[t][i], haul[t][j]>> \in ahead[t] => i < j

\* idle_len counts every buffer that was parked all along, and is exact when no
\* pile changed under it ("exact only absent in-flight leases", idle_len).
IdleLenSound ==
  next = Finished =>
    /\ sum >= Cardinality(stayed)
    /\ steady => sum = Cardinality(Parked)

=============================================================================

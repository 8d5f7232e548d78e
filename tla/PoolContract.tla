----------------------------- MODULE PoolContract -----------------------------
(****************************************************************************)
(* What a pool promises its users, with no threads, shards or counters: a   *)
(* buffer is idle in the pool, out with a user, or on its way back.         *)
(*                                                                          *)
(*   - an idle buffer leaves the pool by being given to a user, never by    *)
(*     being lost, and it is given to one user only;                        *)
(*   - a return ends in the pool unless a cap is set, or the reset hook     *)
(*     unwinds ("still never losing a returned buffer", get);               *)
(*   - no return takes a capped pool past its cap.                          *)
(****************************************************************************)
EXTENDS Integers, FiniteSets

CONSTANTS Buffers, Caps, Uncapped

VARIABLES
  cap,        \* the idle cap, Uncapped on a fresh pool
  hook,       \* whether a reset hook is registered
  idle,       \* buffers the pool can lease
  out,        \* buffers users own: leased, detached, drained
  returning   \* buffers inside a return

vars == <<cap, hook, idle, out, returning>>

Init ==
  /\ cap = Uncapped
  /\ hook = FALSE
  /\ idle = {}
  /\ out = {}
  /\ returning = {}

SetCap(n) == cap' = n /\ returning = {} /\ UNCHANGED <<hook, idle, out, returning>>

SetHook == hook' = TRUE /\ returning = {} /\ UNCHANGED <<cap, idle, out, returning>>

\* A lease that found no idle buffer.
Make(b) ==
  /\ b \notin idle \cup out \cup returning
  /\ out' = out \cup {b}
  /\ UNCHANGED <<cap, hook, idle, returning>>

\* A lease of one idle buffer, or a drain of a whole pile.
Take(S) ==
  /\ idle' = idle \ S
  /\ out' = out \cup S
  /\ UNCHANGED <<cap, hook, returning>>

\* A user gives back a buffer it owns, or a new one.
Return(b) ==
  /\ b \notin idle \cup returning
  /\ out' = out \ {b}
  /\ returning' = returning \cup {b}
  /\ UNCHANGED <<cap, hook, idle>>

Park(b) ==
  /\ b \in returning
  /\ cap # Uncapped => Cardinality(idle) < cap
  /\ returning' = returning \ {b}
  /\ idle' = idle \cup {b}
  /\ UNCHANGED <<cap, hook, out>>

\* The cap turns a return away, or the hook unwinds: the buffer dies.
Lose(b) ==
  /\ b \in returning
  /\ cap # Uncapped \/ hook
  /\ returning' = returning \ {b}
  /\ UNCHANGED <<cap, hook, idle, out>>

Discard(b) ==
  /\ b \in out
  /\ out' = out \ {b}
  /\ UNCHANGED <<cap, hook, idle, returning>>

Next ==
  \/ SetHook
  \/ \E n \in Caps \cup {Uncapped} : SetCap(n)
  \/ \E S \in SUBSET idle : Take(S)
  \/ \E b \in Buffers :
       Make(b) \/ Return(b) \/ Park(b) \/ Lose(b) \/ Discard(b)

Spec == Init /\ [][Next]_vars

=============================================================================

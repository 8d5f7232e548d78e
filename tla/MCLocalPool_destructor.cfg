SPECIFICATION Spec
CONSTANTS
  Threads = {t1}
  Buffers = {b1, b2}
  MaxPools = 3
  StaticPools = {2}
  Nothing = Nothing
  Workload = {"drop_panic"}
  MaxHeld = 2
SYMMETRY Symmetry
INVARIANTS DiscardedOnNextInteraction

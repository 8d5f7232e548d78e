SPECIFICATION Spec
CONSTANTS
  Threads = {t1, t2}
  Buffers = {b1, b2}
  MaxPools = 2
  StaticPools = {}
  Nothing = Nothing
  Workload = {"send", "sync", "detach", "put", "hook", "panic", "exit", "drop_panic"}
  MaxHeld = 1
SYMMETRY Symmetry
INVARIANTS TypeOK SlotsMatchPools NoAliasing
PROPERTIES SweepSparesLivePools

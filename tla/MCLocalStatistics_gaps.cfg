SPECIFICATION StatsSpec
CONSTANTS
  Threads = {t1, t2}
  Buffers = {b1, b2}
  MaxPools = 3
  StaticPools = {2}
  Nothing = Nothing
  Workload = {"send", "sync", "panic", "exit"}
  MaxHeld = 1
  MaxLeases = 2
SYMMETRY Symmetry
INVARIANTS NoStrandedBuffer DiscardedOnNextInteraction StockIsParked LeasesCoverBuffers

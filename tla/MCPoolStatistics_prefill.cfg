SPECIFICATION StatsSpec
CONSTANTS
  Threads = {t1, t2}
  Buffers = {b1, b2, b3}
  NumShards = 2
  Caps = {}
  Uncapped = Uncapped
  NoBuffer = NoBuffer
  Workload = {"prefill"}
  MaxHeld = 1
  MaxFill = 1
  MaxTids = 2
  WordSize = 16
  MaxLeases = 3
  MaxAllocations = 3
SYMMETRY Symmetry
INVARIANTS ReusesAreLeases

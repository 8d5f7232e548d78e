SPECIFICATION JobSpec
CONSTANTS
  Threads = {main, w1, w2}
  Buffers = {b1, b2, b3, b4}
  NumShards = 2
  Caps = {1, 2}
  Uncapped = Uncapped
  NoBuffer = NoBuffer
  Workload = {"drain", "detach", "prefill", "panic"}
  MaxHeld = 1
  MaxFill = 2
  MaxTids = 3
  WordSize = 16
  MaxLeases = 6
  MaxAllocations = 6
  Main = main
  Items = {k1, k2, k3, k4}
  NoItem = NoItem
  Jobs <- AllJobs
  NumItems = 3
  PerThread = 2
  MinShards = 2
  Parallelism = 1
SYMMETRY Symmetry
INVARIANTS AssertionsHold ReductionExact ResultsUncontaminated BuffersFitWorkers RecyclingIntact RefusedOnlyAtCap LeasesAccounted AllocationsBoundMemory

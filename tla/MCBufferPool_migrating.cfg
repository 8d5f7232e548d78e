SPECIFICATION Spec
CONSTANTS
  Threads = {t1, t2}
  Buffers = {b1, b2, b3, b4, b5}
  NumShards = 2
  Caps = {}
  Uncapped = Uncapped
  NoBuffer = NoBuffer
  Workload = {"send"}
  MaxHeld = 1
  MaxFill = 1
  MaxTids = 2
SYMMETRY Symmetry
INVARIANTS BuffersFitPeaks

SPECIFICATION Spec
CONSTANTS
  Threads = {t1, t2, t3}
  Buffers = {b1, b2, b3}
  NumShards = 2
  Caps = {1}
  Uncapped = Uncapped
  NoBuffer = NoBuffer
  Workload = {"builder"}
  MaxHeld = 1
  MaxFill = 1
  MaxTids = 3
SYMMETRY Symmetry
PROPERTIES RefusedOnlyWhenFull

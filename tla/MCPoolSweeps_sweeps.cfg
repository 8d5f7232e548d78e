SPECIFICATION SweepSpec
CONSTANTS
  Threads = {t1, t2}
  Buffers = {b1, b2, b3}
  NumShards = 2
  Caps = {}
  Uncapped = Uncapped
  NoBuffer = NoBuffer
  Workload = {"drain", "prefill", "send"}
  MaxHeld = 1
  MaxFill = 1
  MaxTids = 3
SYMMETRY Symmetry
INVARIANTS DrainComplete IdleLenSound


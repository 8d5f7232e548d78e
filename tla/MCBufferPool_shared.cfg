SPECIFICATION Spec
CONSTANTS
  Threads = {t1, t2}
  Buffers = {b1, b2, b3}
  NumShards = 2
  Caps = {1, 2}
  Uncapped = Uncapped
  NoBuffer = NoBuffer
  Workload = {"builder", "send", "detach", "foreign", "drain", "prefill", "panic", "exit"}
  MaxHeld = 2
  MaxFill = 2
  MaxTids = 3
SYMMETRY Symmetry
INVARIANTS TypeOK NoAliasing CountExact ClaimsFitCap
PROPERTIES ParkRespectsCap ResetBeforePark KeepsContract

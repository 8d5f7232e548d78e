SPECIFICATION FairSpec
CONSTANTS
  Threads = {t1, t2}
  Buffers = {b1, b2}
  MaxPools = 2
  StaticPools = {0}
  Nothing = Nothing
  Workload = {"send"}
  MaxHeld = 1
PROPERTIES DeadPoolsAreReclaimed

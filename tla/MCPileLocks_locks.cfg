SPECIFICATION FairSpec
CONSTANTS
  Threads = {t1, t2}
  NumShards = 1
  Nobody = Nobody
  MaxDepth = 2
  MaxFill = 1
INVARIANTS TypeOK LocksNeverNest UserCodeUnlocked NeverPoisoned
PROPERTIES CallsEnd

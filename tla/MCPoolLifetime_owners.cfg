SPECIFICATION FairSpec
CONSTANTS
  Threads = {t1, t2}
  Handles = {h1, h2}
  Buffers = {b1, b2, b3}
  Own = Own
  None = None
  MaxConfig = 1
INVARIANTS TypeOK OwnersCounted UsersKeepPoolAlive BuffersDieWithPool
PROPERTIES ReconfiguredAlone PoolIsFreed
CHECK_DEADLOCK FALSE

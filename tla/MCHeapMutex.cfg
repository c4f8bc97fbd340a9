SPECIFICATION FairSpec
CONSTANTS
  t1 = t1
  t2 = t2
  t3 = t3
  Threads <- MCThreads
  Rounds = 2
INVARIANTS
  LockNotLeftHeld
PROPERTIES
  AllGetThrough
CHECK_DEADLOCK FALSE

SPECIFICATION Spec
CONSTANTS
  t1 = t1
  t2 = t2
  t3 = t3
  Threads <- MCThreads
  Rounds = 2
INVARIANTS
  MutualExclusion
CHECK_DEADLOCK FALSE

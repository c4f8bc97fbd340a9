SPECIFICATION Spec
CONSTANTS
  Pool = 48
  PoolSize = 96
  PageSize = 64
  Word = 65536
  Sizes = {0, 40, 200}
  Alignments = {8}
INVARIANTS
  ListSound
  BlocksSound
  NoAssertionFails
PROPERTIES
  FewBytesLost
  ImplementsAllocator
CHECK_DEADLOCK FALSE

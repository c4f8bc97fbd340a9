SPECIFICATION Spec
CONSTANTS
  Objects <- MCObjects
  Debugging <- MCDebugging
  Invocations <- MCInvocations
  NoName <- MCNoName
  InitialListSize = 1
  EntrySize = 32
INVARIANTS
  ListsInBounds
CHECK_DEADLOCK FALSE

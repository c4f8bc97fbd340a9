SPECIFICATION Spec
CONSTANTS
  Objects <- MCObjects
  Debugging <- MCDebugging
  Invocations <- MCInvocations
  NoName <- MCNoName
  InitialListSize = 256
  EntrySize = 32
INVARIANTS
  TargetsPreserved
  OnlyAskedInCode
  CrossReferencesNamed
PROPERTIES
  NamedOnce
CHECK_DEADLOCK FALSE

SPECIFICATION Spec
CONSTANTS
  Jobs <- MCJobs
  None <- MCNone
  Tails <- MCTails
  StartsWith <- MCStartsWith
INVARIANTS
  RedefinitionsPropagate
  RenamesPropagate
  RerunSettles
  FoundByName
  DynamicSound
CHECK_DEADLOCK FALSE

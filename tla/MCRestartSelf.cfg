SPECIFICATION FairSpec
CONSTANTS
  NumCriteria = 4
  Variants = {v1, v2}
  Job <- MCJob
  InitialJob <- MCJob
  Needs <- MCNeeds
  Fixes <- MCFixes
INVARIANTS
  NeverAborts
  ConstructedIsSatisfied
  RestartsBounded
PROPERTIES
  LoadingEnds
CHECK_DEADLOCK FALSE

SPECIFICATION Spec
CONSTANTS
  MaxWords = 5
  MaxClassifiedWords = 4
  Image <- MCImage
  PageSize = 256
  LibFile <- MCLibFile
  Vocabulary <- MCVocabulary
INVARIANTS
  InputsAsLd
  RewritesKeepInputs
  LibrariesFromSearchPath
  ClassifySound
  MembersFound
CHECK_DEADLOCK FALSE

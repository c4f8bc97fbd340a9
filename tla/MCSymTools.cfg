SPECIFICATION Spec
CONSTANTS
  Files <- MCFiles
  Recipes <- MCRecipes
  NoName <- MCNoName
  Word = 32
INVARIANTS
  RerunCompletes
  SymtabSound
  PlacesKept
  SectionNamesLabelSections
  UndefinedAreReferences
CHECK_DEADLOCK FALSE

SPECIFICATION Spec
CONSTANTS
  Layouts <- MCLayouts
  Libraries <- MCLibraries
  CommonPageSize = 4
  MaxPageSize = 8
  MaxEdits = 2
  Absent = Absent
INVARIANTS
  EmbeddedWhereItSays
  FilesSound
CHECK_DEADLOCK FALSE

SPECIFICATION FairSpec
CONSTANTS
  Exe <- MCExe
  InitialCmdlines <- MCInitialCmdlines
  FileKind <- MCFileKind
  Defines <- MCDefines
  LibFile <- MCLibFile
INVARIANTS
  WrapsOnlyUndefined
CHECK_DEADLOCK FALSE

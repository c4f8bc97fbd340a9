SPECIFICATION FairSpec
CONSTANTS
  Exe <- MCExe
  InitialCmdlines <- MCInitialCmdlines
  FileKind <- MCFileKind
  Defines <- MCDefines
  LibFile <- MCLibFile
INVARIANTS
  EverySymbolServed
  NoDoubleRedirect
  InputsPreserved
  TempsSound
  EveryDefinitionReplaced
  KeepsFixContract
PROPERTIES
  Termination
  RefinesRestartSelf
CHECK_DEADLOCK FALSE

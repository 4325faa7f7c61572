\* Whole commands over every configuration, file system and result of a file, while
\* another program makes one change to the files at any time.
SPECIFICATION Spec
CONSTANTS
  Path <- MCPath
  SortedPaths <- MCSortedPaths
  Ancestors <- MCAncestors
  Target <- MCTarget
  Glob <- MCGlob
  GlobHits <- MCGlobHits
  Pattern <- MCPattern
  PatternHits <- MCPatternHits
  FileType <- MCFileType
  TypeHits <- MCTypeHits
  Invocations <- MCInvocations
  Configs <- MCConfigs
  Trees <- MCTrees
  Temp = "t"
  StdinInode = "stdin"
  NewInode <- MCNewInode
  Changes = 1
CHECK_DEADLOCK FALSE
INVARIANTS
  StreamAccepted
  ExitCodeIsThatOfAllResults
  NothingIsHidden
  SharedStorageIsSafe
  InputsAccounted
  HadErrorsTellsFailures
PROPERTIES
  ImplementsContract
  Terminates

SPECIFICATION FairSpec
CONSTANTS
  StringOrder <- MCStringOrder
  MaxNumeral = 9
  Packets <- Compiled
  MaxIterDepth = 8
  MaxTag = 3
  StdlibResults = {}
  EndJumpCapacity = 64
  Stdlib <- MCStdlib
  Deps <- MCDeps
  Sources <- AllSources
  Variants <- MCVariants
  Forbidden = {}
INVARIANT PacketsWellFormed
INVARIANT TailIsLast
INVARIANT ReadsWritten
INVARIANT TagsCoverInputs
PROPERTY LoadedImmutable
PROPERTY NoAliasing
PROPERTY ImplementsMeaning
PROPERTY Terminates
CHECK_DEADLOCK FALSE

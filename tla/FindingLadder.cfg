SPECIFICATION FairSpec
CONSTANTS
  StringOrder <- MCStringOrder
  MaxNumeral = 9
  Packets <- Compiled
  MaxIterDepth = 8
  MaxTag = 3
  StdlibResults = {}
  EndJumpCapacity = 3
  Stdlib <- MCStdlib
  Deps <- MCDeps
  Sources <- LadderSources
  Variants <- MCVariants
  Forbidden = {}
PROPERTY Terminates
CHECK_DEADLOCK FALSE

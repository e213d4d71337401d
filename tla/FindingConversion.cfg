SPECIFICATION Spec
CONSTANTS
  StringOrder <- MCStringOrder
  MaxNumeral = 9
  Packets <- Compiled
  MaxIterDepth = 8
  MaxTag = 3
  StdlibResults = {}
  EndJumpCapacity = 64
  Stdlib <- MCStdlib
  Deps <- MCDeps
  Sources <- ConversionSources
  Variants <- MCVariants
  Forbidden = {}
PROPERTY ImplementsMeaning
CHECK_DEADLOCK FALSE

SPECIFICATION Spec
CONSTANTS
  EndJumpCapacity = 64
  Stdlib <- MCStdlib
  Deps <- MCDeps
  Programs <- TwoUses
  SourceFiles <- MCSourceFiles
  Written <- MCWritten
  CutSizes = {}
INVARIANT FormatIdempotent
CHECK_DEADLOCK FALSE
